--------------------------- MODULE PlannerProofs ---------------------------
(* The look-ahead, for every size of the ring and every set of junction    *)
(* speeds and distances.  First the planned pointer and the profile in     *)
(* execution: for them it is enough that the two passes leave every block  *)
(* up to the pointer alone, and that a plan from the front block tells the *)
(* stepper.  Then what the passes compute, by induction over positions,    *)
(* and the plan and the speed in every state.                              *)
EXTENDS PlannerProperties, TLAPS, WellFoundedInduction

(* A sequence, of whatever the passes have made of its blocks.             *)
IsSeq(bs) == \E S : bs \in Seq(S)

(* The planned pointer stands on a block, or where the next one will be.   *)
PointerOK == /\ IsSeq(blocks)
             /\ planned \in Nat \ {0}
             /\ blocks # << >> => planned <= Len(blocks)
             /\ blocks = << >> => planned = 1

(* What the pointer and the profile need.                                  *)
IInv == /\ PointerOK
        /\ loaded \in BOOLEAN
        /\ loaded => blocks # << >>
        /\ ExitFresh

-----------------------------------------------------------------------------
(* A set of positions that is not empty has a last one.                    *)
LEMMA LastExists ==
  ASSUME NEW n \in Nat, NEW T, T \subseteq 1..n, T # {}
  PROVE  \E k \in T : \A j \in T : j <= k
<1> DEFINE U == {m \in Nat : n - m \in T}
<1>1. U \subseteq Nat /\ U # {}
  <2>1. PICK k \in T : TRUE  OBVIOUS
  <2>2. n - k \in Nat /\ n - (n - k) = k  BY <2>1
  <2> QED BY <2>1, <2>2
<1>2. PICK x \in U : \A y \in U : <<y, x>> \notin OpToRel(<, Nat)
  BY <1>1, NatLessThanWellFounded, WFMin, Zenon
<1>3. \A y \in U : ~(y < x)  BY <1>1, <1>2, Zenon DEF OpToRel
<1>4. ASSUME NEW j \in T PROVE j <= n - x
  <2>1. n - j \in Nat /\ n - (n - j) = j  OBVIOUS
  <2>2. n - j \in U  BY <2>1
  <2>3. ~(n - j < x)  BY <2>2, <1>3
  <2>4. x \in Nat  OBVIOUS
  <2> HIDE DEF U
  <2> QED BY <2>3, <2>4
<1> QED BY <1>2, <1>4

(* Induction over positions, backward and forward: a set that contains the *)
(* one end, and with every position its neighbour, contains them all.      *)
LEMMA BackwardInduction ==
  ASSUME NEW m \in Nat \ {0}, NEW n \in Nat, NEW T, m <= n => n \in T,
         \A k \in m..(n - 1) : k + 1 \in T => k \in T
  PROVE  \A k \in m..n : k \in T
<1> DEFINE U == {k \in m..n : k \notin T}
<1> SUFFICES ASSUME U # {} PROVE FALSE
  OBVIOUS
<1>1. U \subseteq 1..n
  OBVIOUS
<1>2. PICK k \in U : \A j \in U : j <= k
  BY <1>1, LastExists, Zenon
<1>3. k \in m..(n - 1) /\ k + 1 \in m..n
  BY <1>2
<1>4. k + 1 \notin U
  BY <1>2, <1>3
<1> QED
  BY <1>2, <1>3, <1>4

LEMMA ForwardInduction ==
  ASSUME NEW m \in Nat \ {0}, NEW n \in Nat, NEW T, m <= n => m \in T,
         \A k \in (m + 1)..n : k - 1 \in T => k \in T
  PROVE  \A k \in m..n : k \in T
<1> DEFINE S == {k \in m..n : m + n - k \in T}
<1>1. m <= n => n \in S
  OBVIOUS
<1>2. \A k \in m..(n - 1) : k + 1 \in S => k \in S
  <2> SUFFICES ASSUME NEW k \in m..(n - 1), k + 1 \in S PROVE k \in S
    OBVIOUS
  <2>1. m + n - (k + 1) = (m + n - k) - 1 /\ m + n - k \in (m + 1)..n
    OBVIOUS
  <2>2. m + n - k \in T
    BY <2>1
  <2> QED
    BY <2>2
<1> HIDE DEF S
<1>3. \A k \in m..n : k \in S
  BY <1>1, <1>2, BackwardInduction
<1> SUFFICES ASSUME NEW k \in m..n PROVE k \in T
  OBVIOUS
<1>4. m + n - k \in m..n /\ m + n - (m + n - k) = k
  OBVIOUS
<1>5. m + n - k \in S
  BY <1>3, <1>4
<1> QED
  BY <1>4, <1>5 DEF S

(* Recursion over positions, each value made from the one behind it, or    *)
(* from the one before.                                                    *)
IsBackward(f, step, m, n) ==
  /\ f \in [m..n -> Nat]
  /\ \A k \in m..n : f[k] = IF k = n THEN step[k][0] ELSE step[k][f[k + 1]]

IsForward(f, step, c, m, n) ==
  /\ f \in [m..n -> Nat]
  /\ \A k \in m..n : f[k] = IF k = m THEN c ELSE step[k][f[k - 1]]

LEMMA BackwardRecursion ==
  ASSUME NEW m \in Nat \ {0}, NEW n \in Nat, NEW step \in [Nat -> [Nat -> Nat]]
  PROVE  \E f : IsBackward(f, step, m, n)
<1> DEFINE T == {j \in m..n : \E f : IsBackward(f, step, j, n)}
<1>1. ASSUME m <= n
      PROVE  IsBackward([k \in n..n |-> step[k][0]], step, n, n)
  BY <1>1 DEF IsBackward
<1>2. ASSUME NEW j \in m..(n - 1), NEW f, IsBackward(f, step, j + 1, n)
      PROVE  \E g : IsBackward(g, step, j, n)
  <2> DEFINE x == step[j][f[j + 1]]
             g == [k \in j..n |-> IF k = j THEN x ELSE f[k]]
  <2>1. j \in Nat /\ j + 1 \in (j + 1)..n
    OBVIOUS
  <2>2. f[j + 1] \in Nat /\ step[j] \in [Nat -> Nat]
    BY <1>2, <2>1 DEF IsBackward
  <2>3. x \in Nat /\ \A k \in (j + 1)..n : f[k] \in Nat
    BY <1>2, <2>2 DEF IsBackward
  <2>4. g \in [j..n -> Nat]
    BY <2>3
  <2>5. ASSUME NEW k \in j..n
        PROVE  g[k] = IF k = n THEN step[k][0] ELSE step[k][g[k + 1]]
    <3>1. CASE k = j
      BY <2>1, <3>1
    <3>2. CASE k # j
      <4>1. k \in (j + 1)..n /\ g[k] = f[k] /\ (k # n => g[k + 1] = f[k + 1])
        BY <3>2
      <4> QED
        BY <1>2, <4>1 DEF IsBackward
    <3> QED
      BY <3>1, <3>2
  <2> HIDE DEF g
  <2> QED
    BY <2>4, <2>5 DEF IsBackward
<1>3. m <= n => n \in T
  BY <1>1
<1>4. ASSUME NEW j \in m..(n - 1), j + 1 \in T PROVE j \in T
  <2>1. \E f : IsBackward(f, step, j + 1, n)
    BY <1>4
  <2>2. \E g : IsBackward(g, step, j, n)
    BY <1>2, <2>1
  <2> QED
    BY <2>2
<1>5. \A j \in m..n : j \in T
  <2> HIDE DEF T
  <2> QED
    BY <1>3, <1>4, BackwardInduction
<1>6. CASE m <= n
  BY <1>5, <1>6
<1>7. CASE ~(m <= n)
  <2>1. IsBackward([k \in m..n |-> 0], step, m, n)
    BY <1>7 DEF IsBackward
  <2> QED
    BY <2>1
<1> QED
  BY <1>6, <1>7

LEMMA ForwardRecursion ==
  ASSUME NEW m \in Nat \ {0}, NEW n \in Nat, m <= n, NEW c \in Nat,
         NEW step \in [Nat -> [Nat -> Nat]]
  PROVE  \E f : IsForward(f, step, c, m, n)
<1> DEFINE T == {j \in m..n : \E f : IsForward(f, step, c, m, j)}
<1>1. IsForward([k \in m..m |-> c], step, c, m, m)
  BY DEF IsForward
<1>2. ASSUME NEW j \in (m + 1)..n, NEW f, IsForward(f, step, c, m, j - 1)
      PROVE  \E g : IsForward(g, step, c, m, j)
  <2> DEFINE x == step[j][f[j - 1]]
             g == [k \in m..j |-> IF k = j THEN x ELSE f[k]]
  <2>1. j \in Nat /\ j - 1 \in m..(j - 1)
    OBVIOUS
  <2>2. f[j - 1] \in Nat /\ step[j] \in [Nat -> Nat]
    BY <1>2, <2>1 DEF IsForward
  <2>3. x \in Nat /\ \A k \in m..(j - 1) : f[k] \in Nat
    BY <1>2, <2>2 DEF IsForward
  <2>4. g \in [m..j -> Nat]
    BY <2>3
  <2>5. ASSUME NEW k \in m..j
        PROVE  g[k] = IF k = m THEN c ELSE step[k][g[k - 1]]
    <3>1. CASE k = j
      BY <2>1, <3>1
    <3>2. CASE k # j
      <4>1. k \in m..(j - 1) /\ g[k] = f[k] /\ (k # m => g[k - 1] = f[k - 1])
        <5>1. \A i \in m..(j - 1) : g[i] = f[i]
          OBVIOUS
        <5>2. k \in m..(j - 1) /\ (k # m => k - 1 \in m..(j - 1))
          BY <3>2
        <5> HIDE DEF g
        <5> QED
          BY <5>1, <5>2
      <4> QED
        BY <1>2, <4>1 DEF IsForward
    <3> QED
      BY <3>1, <3>2
  <2> HIDE DEF g
  <2> QED
    BY <2>4, <2>5 DEF IsForward
<1>3. m <= n => m \in T
  BY <1>1
<1>4. ASSUME NEW j \in (m + 1)..n, j - 1 \in T PROVE j \in T
  <2>1. \E f : IsForward(f, step, c, m, j - 1)
    BY <1>4
  <2>2. \E g : IsForward(g, step, c, m, j)
    BY <1>2, <2>1
  <2> QED
    BY <2>2
<1>5. \A j \in m..n : j \in T
  <2> HIDE DEF T
  <2> QED
    BY <1>3, <1>4, ForwardInduction
<1> QED
  BY <1>5

(* The planned pointer only moves forward, and stays in the ring.          *)
LEMMA PlannedMoves ==
  ASSUME NEW bs, Len(bs) \in Nat, NEW p \in 1..Len(bs)
  PROVE  /\ PlannedAfter(bs, p) \in p..Len(bs)
         /\ PlannedAfter(bs, p) # p =>
              LET q == PlannedAfter(bs, p)
              IN  Forward(bs, p)[q] < Backward(bs, p)[q] \/ Forward(bs, p)[q] = bs[q].max
<1> DEFINE done == {k \in (p + 1)..Len(bs) :
                      \/ Forward(bs, p)[k] < Backward(bs, p)[k]
                      \/ Forward(bs, p)[k] = bs[k].max}
<1>1. PlannedAfter(bs, p)
        = IF done = {} THEN p ELSE CHOOSE k \in done : \A j \in done : j <= k
  BY DEF PlannedAfter
<1>2. done \subseteq 1..Len(bs) /\ done \subseteq (p + 1)..Len(bs)  OBVIOUS
<1> HIDE DEF done
<1>3. done # {} => \E k \in done : \A j \in done : j <= k  BY <1>2, LastExists
<1>4. done # {} => (CHOOSE k \in done : \A j \in done : j <= k) \in done
  BY <1>3, Zenon
<1>5. PlannedAfter(bs, p) = p \/ PlannedAfter(bs, p) \in done
  BY <1>1, <1>4, Zenon
<1>6. p \in p..Len(bs) /\ \A q \in (p + 1)..Len(bs) : q \in p..Len(bs)  OBVIOUS
<1>7. PlannedAfter(bs, p) \in p..Len(bs)  BY <1>2, <1>5, <1>6, Zenon
<1>8. \A q \in done : Forward(bs, p)[q] < Backward(bs, p)[q] \/ Forward(bs, p)[q] = bs[q].max
  BY DEF done
<1> QED BY <1>5, <1>7, <1>8, Zenon

(* Replanning keeps the number of blocks, and all blocks up to the pointer.*)
LEMMA ReplannedKeeps ==
  ASSUME NEW bs, IsSeq(bs), NEW p \in Nat
  PROVE  /\ IsSeq(Replanned(bs, p))
         /\ Len(Replanned(bs, p)) = Len(bs)
         /\ \A k \in 1..Len(bs) : k <= p => Replanned(bs, p)[k] = bs[k]
<1> DEFINE rs == Replanned(bs, p)
           T == {rs[k] : k \in 1..Len(bs)}
<1>1. Len(bs) \in Nat  BY DEF IsSeq
<1>2. rs = [k \in 1..Len(bs) |-> rs[k]]  BY DEF Replanned
<1>3. \A k \in 1..Len(bs) : k <= p => rs[k] = bs[k]  BY <1>1 DEF Replanned
<1> HIDE DEF rs
<1>4. rs \in Seq(T) /\ Len(rs) = Len(bs)
  <2>1. rs \in [1..Len(bs) -> T]  BY <1>2
  <2> QED BY <2>1, <1>1
<1> QED BY <1>3, <1>4 DEF IsSeq, rs

(* So do the changes made to the block at the front.                       *)
LEMMA ExceptKeeps ==
  ASSUME NEW bs, IsSeq(bs), NEW b
  PROVE  /\ IsSeq([bs EXCEPT ![1] = b])
         /\ Len([bs EXCEPT ![1] = b]) = Len(bs)
         /\ \A k \in 1..Len(bs) : k > 1 => [bs EXCEPT ![1] = b][k] = bs[k]
<1>1. PICK S : bs \in Seq(S)  BY DEF IsSeq
<1>2. [bs EXCEPT ![1] = b] \in Seq(S \cup {b}) /\ Len([bs EXCEPT ![1] = b]) = Len(bs)
  <2>1. Len(bs) \in Nat /\ bs \in [1..Len(bs) -> S]  BY <1>1
  <2>2. [bs EXCEPT ![1] = b] \in [1..Len(bs) -> S \cup {b}]  BY <2>1
  <2> QED BY <2>1, <2>2
<1> QED BY <1>1, <1>2 DEF IsSeq

LEMMA UpdatedKeeps ==
  ASSUME NEW bs, IsSeq(bs)
  PROVE  IsSeq(Updated(bs)) /\ Len(Updated(bs)) = Len(bs)
BY ExceptKeeps DEF Updated

(* A recalculation from any sequence of blocks leaves the pointer in the   *)
(* ring; from the front block, it tells the stepper.                       *)
LEMMA RecalculateKeeps ==
  ASSUME NEW bs, IsSeq(bs), bs # << >>, planned \in 1..Len(bs), Recalculate(bs),
         loaded \in BOOLEAN
  PROVE  /\ IsSeq(blocks') /\ blocks' # << >> /\ Len(blocks') = Len(bs)
         /\ planned' \in 1..Len(blocks')
         /\ loaded' \in BOOLEAN
         /\ loaded' => loaded /\ (Len(bs) > 1 => planned > 1 /\ blocks'[2] = bs[2])
<1>1. Len(bs) \in Nat  BY DEF IsSeq
<1>2. CASE Len(bs) <= planned
  BY <1>1, <1>2 DEF Recalculate
<1>3. CASE Len(bs) > planned
  <2> DEFINE cs == IF planned = 1 THEN Updated(bs) ELSE bs
  <2>1. IsSeq(cs) /\ Len(cs) = Len(bs)
    BY UpdatedKeeps
  <2>2. blocks' = Replanned(cs, planned) /\ planned' = PlannedAfter(cs, planned)
    BY <1>1, <1>3 DEF Recalculate
  <2>3. planned = 1 => loaded' = FALSE
    BY <1>1, <1>3 DEF Recalculate, NotifyStepper
  <2>4. planned # 1 => loaded' = loaded /\ cs = bs
    BY <1>1, <1>3 DEF Recalculate
  <2>5. planned' \in planned..Len(bs)
    BY <2>1, <2>2, <1>1, PlannedMoves
  <2> HIDE DEF cs
  <2>6. /\ IsSeq(blocks') /\ Len(blocks') = Len(bs)
        /\ \A k \in 1..Len(bs) : k <= planned => blocks'[k] = cs[k]
    BY <2>1, <2>2, ReplannedKeeps
  <2>7. planned' \in 1..Len(blocks')  BY <2>5, <2>6, <1>1
  <2>8. Len(bs) > 0 /\ blocks' # << >>  BY <2>6, <1>1, <1>3
  <2>9. planned # 1 => loaded' = loaded /\ planned > 1 /\ blocks'[2] = bs[2]
    BY <2>4, <2>6, <1>1, <1>3
  <2>10. loaded' \in BOOLEAN  BY <2>3, <2>9
  <2>11. loaded' => loaded /\ planned > 1 /\ blocks'[2] = bs[2]
    BY <2>3, <2>9, Zenon
  <2> QED BY <2>6, <2>7, <2>8, <2>10, <2>11, Zenon
<1> QED BY <1>1, <1>2, <1>3

(* Discarding the front block keeps the pointer on the block it stood on,  *)
(* or pushes it to the next one.                                           *)
LEMMA DiscardKeeps ==
  ASSUME PointerOK, blocks # << >>, Discard
  PROVE  PointerOK' /\ loaded' = FALSE
<1>1. PICK S : blocks \in Seq(S)  BY DEF PointerOK, IsSeq
<1>2. Tail(blocks) \in Seq(S) /\ Len(Tail(blocks)) = Len(blocks) - 1 /\ Len(blocks) \in Nat
  BY <1>1
<1>3. planned \in Nat \ {0} /\ planned <= Len(blocks)  BY DEF PointerOK
<1>4. blocks' = Tail(blocks) /\ loaded' = FALSE
      /\ planned' = IF planned = 1 THEN 1 ELSE planned - 1
  BY DEF Discard
<1>5. blocks' = << >> => Len(blocks) = 1
  <2>1. blocks' = << >> => Len(blocks') = 0  OBVIOUS
  <2> QED BY <2>1, <1>2, <1>4
<1>6. blocks' # << >> => Len(blocks) > 1  BY <1>1, <1>2, <1>4
<1> QED BY <1>2, <1>3, <1>4, <1>5, <1>6 DEF PointerOK, IsSeq

(* A change to the front block, the pointer left alone.                    *)
LEMMA FrontKeeps ==
  ASSUME PointerOK, blocks # << >>, NEW b, blocks' = [blocks EXCEPT ![1] = b],
         planned' = planned
  PROVE  PointerOK' /\ blocks' # << >> /\ ExitSpeed' = ExitSpeed
<1>1. Len(blocks) \in Nat /\ Len(blocks) > 0  BY DEF PointerOK, IsSeq
<1>2. /\ IsSeq(blocks') /\ Len(blocks') = Len(blocks)
      /\ \A k \in 1..Len(blocks) : k > 1 => blocks'[k] = blocks[k]
  BY ExceptKeeps DEF PointerOK
<1>3. blocks' # << >>  BY <1>1, <1>2
<1>4. Len(blocks) > 1 => blocks'[2] = blocks[2]  BY <1>1, <1>2
<1> QED BY <1>2, <1>3, <1>4 DEF PointerOK, ExitSpeed

(* Planning again from rest.                                               *)
LEMMA ReinitializeKeeps ==
  ASSUME NEW bs, IsSeq(bs), bs # << >>, Reinitialize(bs)
  PROVE  PointerOK' /\ loaded' = FALSE
<1> DEFINE cs == [bs EXCEPT ![1].entry = 0]
<1>1. IsSeq(cs) /\ Len(cs) = Len(bs)  BY ExceptKeeps
<1>2. Len(bs) \in Nat /\ Len(bs) > 0  BY DEF IsSeq
<1>3. /\ blocks' = IF Len(cs) > 1 THEN Replanned(cs, 1) ELSE cs
      /\ planned' = IF Len(cs) > 1 THEN PlannedAfter(cs, 1) ELSE 1
      /\ loaded' = FALSE
  BY DEF Reinitialize
<1> HIDE DEF cs
<1>4. IsSeq(blocks') /\ Len(blocks') = Len(bs)  BY <1>1, <1>3, ReplannedKeeps
<1>5. planned' \in 1..Len(bs)  BY <1>1, <1>2, <1>3, PlannedMoves
<1>6. blocks' # << >>  BY <1>2, <1>4
<1> QED BY <1>2, <1>3, <1>4, <1>5, <1>6 DEF PointerOK

-----------------------------------------------------------------------------
LEMMA InitInv == Init => IInv
<1> SUFFICES ASSUME Init PROVE IInv
  OBVIOUS
<1>1. IsSeq(<< >>)
  <2>1. << >> \in Seq({})  OBVIOUS
  <2> QED BY <2>1 DEF IsSeq
<1>2. PointerOK  BY <1>1 DEF Init, PointerOK
<1> QED BY <1>2 DEF Init, IInv, ExitFresh

LEMMA NextInv == IInv /\ [Next]_vars => IInv'
<1> SUFFICES ASSUME IInv, [Next]_vars PROVE IInv'
  OBVIOUS
<1> USE DEF IInv
<1>1. CASE BufferLine
  <2>1. PICK b : Recalculate(Append(blocks, b))  BY <1>1 DEF BufferLine
  <2> DEFINE bs == Append(blocks, b)
  <2>2. PICK S : blocks \in Seq(S)  BY DEF PointerOK, IsSeq
  <2>3. /\ bs \in Seq(S \cup {b}) /\ Len(bs) = Len(blocks) + 1 /\ Len(blocks) \in Nat
        /\ \A k \in 1..Len(blocks) : bs[k] = blocks[k]
    BY <2>2
  <2>4. IsSeq(bs) /\ bs # << >>  BY <2>3 DEF IsSeq
  <2>5. planned \in 1..Len(bs)  BY <2>2, <2>3 DEF PointerOK
  <2>6. Recalculate(bs)  BY <2>1
  <2> HIDE DEF bs
  <2>7. /\ IsSeq(blocks') /\ blocks' # << >> /\ Len(blocks') = Len(bs)
        /\ planned' \in 1..Len(blocks') /\ loaded' \in BOOLEAN
        /\ loaded' => loaded /\ (Len(bs) > 1 => planned > 1 /\ blocks'[2] = bs[2])
    BY <2>4, <2>5, <2>6, RecalculateKeeps
  <2>8. PointerOK'  BY <2>7, <2>3 DEF PointerOK
  <2>9. ASSUME loaded', ~held' PROVE exit' = ExitSpeed'
    <3>1. loaded /\ ~held /\ exit' = exit  BY <2>7, <2>9, <1>1 DEF BufferLine
    <3>2. exit = ExitSpeed  BY <3>1 DEF ExitFresh
    <3>3. Len(blocks) > 0 /\ planned <= Len(blocks)  BY <3>1, <2>2 DEF PointerOK
    <3>4. planned > 1 /\ blocks'[2] = bs[2]  BY <2>3, <2>7, <2>9, <3>3
    <3>5. Len(blocks) > 1 /\ bs[2] = blocks[2]  BY <2>3, <3>3, <3>4, <2>5
    <3> QED BY <2>3, <2>7, <3>1, <3>2, <3>4, <3>5 DEF ExitSpeed
  <2> QED BY <2>7, <2>8, <2>9 DEF ExitFresh
<1>2. CASE Load
  <2>1. /\ blocks # << >> /\ planned' = planned /\ held' = held /\ loaded' = TRUE
        /\ blocks' = IF held /\ ~partial THEN [blocks EXCEPT ![1].entry = exit] ELSE blocks
        /\ ~held => exit' = ExitSpeed
    BY <1>2 DEF Load
  <2>2. PointerOK' /\ blocks' # << >> /\ ExitSpeed' = ExitSpeed
    BY <2>1, FrontKeeps DEF PointerOK, ExitSpeed
  <2> QED BY <2>1, <2>2 DEF ExitFresh
<1>3. CASE Segment
  <2>1. /\ loaded /\ ~held /\ exit' = exit /\ held' = held
        /\ \/ Discard
           \/ \E d : blocks' = [blocks EXCEPT ![1].reach = @ - d]
                    /\ planned' = planned /\ loaded' = loaded
    BY <1>3 DEF Segment
  <2>2. CASE Discard
    BY <2>1, <2>2, DiscardKeeps DEF ExitFresh
  <2>3. CASE \E d : blocks' = [blocks EXCEPT ![1].reach = @ - d]
                    /\ planned' = planned /\ loaded' = loaded
    BY <2>1, <2>3, FrontKeeps DEF ExitFresh
  <2> QED BY <2>1, <2>2, <2>3
<1>4. CASE HoldBegin
  <2>1. /\ planned' = planned /\ held' = TRUE /\ loaded' = FALSE
        /\ blocks' = IF loaded THEN [blocks EXCEPT ![1].entry = speed] ELSE blocks
    BY <1>4 DEF HoldBegin, Updated, NotifyStepper
  <2>2. PointerOK'  BY <2>1, FrontKeeps DEF PointerOK
  <2> QED BY <2>1, <2>2 DEF ExitFresh
<1>5. CASE HoldSegment
  <2>1. PICK d : \/ Discard
                 \/ Reinitialize([blocks EXCEPT ![1].reach = @ - d])
                 \/ /\ blocks' = [blocks EXCEPT ![1].reach = @ - d]
                    /\ planned' = planned /\ loaded' = loaded
    BY <1>5 DEF HoldSegment
  <2>2. loaded /\ held /\ held' = held  BY <1>5 DEF HoldSegment
  <2>3. CASE Discard
    BY <2>2, <2>3, DiscardKeeps DEF ExitFresh
  <2>4. CASE Reinitialize([blocks EXCEPT ![1].reach = @ - d])
    <3>1. /\ IsSeq([blocks EXCEPT ![1].reach = @ - d])
          /\ Len([blocks EXCEPT ![1].reach = @ - d]) = Len(blocks)
      BY ExceptKeeps DEF PointerOK
    <3>2. Len(blocks) > 0  BY <2>2 DEF PointerOK, IsSeq
    <3>3. [blocks EXCEPT ![1].reach = @ - d] # << >>  BY <3>1, <3>2
    <3> QED BY <2>2, <2>4, <3>1, <3>3, ReinitializeKeeps DEF ExitFresh
  <2>5. CASE /\ blocks' = [blocks EXCEPT ![1].reach = @ - d]
             /\ planned' = planned /\ loaded' = loaded
    BY <2>2, <2>5, FrontKeeps DEF ExitFresh
  <2> QED BY <2>1, <2>3, <2>4, <2>5
<1>6. CASE Resume
  BY <1>6 DEF Resume, PointerOK, ExitFresh, ExitSpeed, stepper
<1>7. CASE Reset
  <2>1. IsSeq(<< >>)
    <3>1. << >> \in Seq({})  OBVIOUS
    <3> QED BY <3>1 DEF IsSeq
  <2>2. blocks' = << >> /\ planned' = 1 /\ loaded' = FALSE  BY <1>7 DEF Reset
  <2>3. PointerOK'  BY <2>1, <2>2 DEF PointerOK
  <2>4. ExitFresh'  BY <2>2 DEF ExitFresh
  <2> QED BY <2>2, <2>3, <2>4
<1>8. CASE UNCHANGED vars
  BY <1>8 DEF vars, stepper, PointerOK, ExitFresh, ExitSpeed
<1> QED BY <1>1, <1>2, <1>3, <1>4, <1>5, <1>6, <1>7, <1>8 DEF Next

(* The planned pointer never leaves the blocks of the ring, however they   *)
(* are appended, replanned and discarded under it.                         *)
THEOREM PointerTheorem == Spec => []PointerOK
<1>1. IInv => PointerOK  BY DEF IInv
<1> QED BY <1>1, InitInv, NextInv, PTL DEF Spec

(* The profile in execution always ends at the planned entry speed of the  *)
(* next block: no replanning goes behind the stepper's back.               *)
THEOREM ExitFreshTheorem == Spec => []ExitFresh
<1>1. IInv => ExitFresh  BY DEF IInv
<1> QED BY <1>1, InitInv, NextInv, PTL DEF Spec

-----------------------------------------------------------------------------
(* What the passes compute, for any sequence of blocks.                    *)

Block == [max : MaxEntries \cup {0}, reach : Nat \ {0}, entry : Nat]

LEMMA BlockFacts ==
  ASSUME NEW bs \in Seq(Block)
  PROVE  /\ Len(bs) \in Nat
         /\ \A k \in 1..Len(bs) :
              /\ bs[k] \in Block /\ DOMAIN bs[k] = {"max", "reach", "entry"}
              /\ bs[k].max \in Nat /\ bs[k].max \in MaxEntries \cup {0}
              /\ bs[k].reach \in Nat \ {0} /\ bs[k].entry \in Nat
<1>1. \A b \in Block : b.max \in MaxEntries \cup {0} /\ b.reach \in Nat \ {0} /\ b.entry \in Nat
                       /\ DOMAIN b = {"max", "reach", "entry"}
  BY DEF Block
<1>2. MaxEntries \cup {0} \subseteq Nat
  BY PlannerAssumption DEF PlannerAssumption
<1>3. \A k \in 1..Len(bs) : bs[k] \in Block
  OBVIOUS
<1> QED
  BY <1>1, <1>2, <1>3

LEMMA EntryChanged ==
  ASSUME NEW b \in Block, NEW v \in Nat, NEW c, c = [b EXCEPT !.entry = v]
  PROVE  c \in Block /\ c.max = b.max /\ c.reach = b.reach /\ c.entry = v
  BY DEF Block

LEMMA ReachChanged ==
  ASSUME NEW b \in Block, NEW v \in Nat \ {0}, NEW c, c = [b EXCEPT !.reach = v]
  PROVE  c \in Block /\ c.max = b.max /\ c.reach = v /\ c.entry = b.entry
  BY DEF Block

(* The speeds from which the machine can still brake.                      *)
LEMMA BrakingIs ==
  ASSUME NEW bs \in Seq(Block)
  PROVE  /\ Braking(bs) \in [2..Len(bs) -> Nat]
         /\ \A k \in 2..Len(bs) :
              Braking(bs)[k] = Least(bs[k].max, bs[k].reach + IF k = Len(bs) THEN 0
                                                              ELSE Braking(bs)[k + 1])
<1> DEFINE n == Len(bs)
           Is(f) == f = [k \in 2..n |-> Least(bs[k].max, bs[k].reach + IF k = n THEN 0
                                                                       ELSE f[k + 1])]
           x == [k \in Nat |-> IF k \in 2..n THEN bs[k].max ELSE 0]
           y == [k \in Nat |-> IF k \in 2..n THEN bs[k].reach ELSE 0]
           step == [k \in Nat |-> [v \in Nat |-> Least(x[k], y[k] + v)]]
<1>1. n \in Nat /\ \A k \in 2..n : bs[k].max \in Nat /\ bs[k].reach \in Nat
  BY BlockFacts
<1>2. x \in [Nat -> Nat] /\ y \in [Nat -> Nat]
  BY <1>1
<1>3. \A k \in 2..n, v \in Nat : step[k][v] = Least(bs[k].max, bs[k].reach + v)
  BY <1>1
<1>4. step \in [Nat -> [Nat -> Nat]]
  <2> HIDE DEF x, y
  <2>1. \A k \in Nat : x[k] \in Nat /\ y[k] \in Nat
    BY <1>2
  <2>2. \A k \in Nat : \A v \in Nat : Least(x[k], y[k] + v) \in Nat
    BY <2>1 DEF Least
  <2> QED
    BY <2>2
<1> HIDE DEF step
<1>5. PICK f : IsBackward(f, step, 2, n)
  <2>1. 2 \in Nat \ {0} /\ n \in Nat
    BY <1>1
  <2> HIDE DEF n
  <2> QED
    BY <2>1, <1>4, BackwardRecursion
<1>6. f = [k \in 2..n |-> IF k = n THEN step[k][0] ELSE step[k][f[k + 1]]]
  BY <1>5 DEF IsBackward
<1>7. \A k \in 2..n : k # n => f[k + 1] \in Nat
  BY <1>5 DEF IsBackward
<1>8. Is(f)
  BY <1>3, <1>6, <1>7
<1>9. Braking(bs) = CHOOSE g : Is(g)
  BY DEF Braking
<1>10. Is(Braking(bs))
  <2> HIDE DEF Is
  <2> QED
    BY <1>8, <1>9, Zenon
<1>11. \A k \in 2..n : Braking(bs)[k] = Least(bs[k].max, bs[k].reach + IF k = n THEN 0
                                                              ELSE Braking(bs)[k + 1])
  BY <1>10
<1>12. \A k \in 2..n : Braking(bs)[k] \in Nat
  <2> DEFINE T == {k \in 2..n : Braking(bs)[k] \in Nat}
  <2>1. 2 <= n => n \in T
    BY <1>1, <1>11 DEF Least
  <2>2. \A k \in 2..(n - 1) : k + 1 \in T => k \in T
    BY <1>1, <1>11 DEF Least
  <2>3. \A k \in 2..n : k \in T
    <3>1. 2 \in Nat \ {0} /\ n \in Nat
      BY <1>1
    <3> HIDE DEF T, n
    <3> QED
      BY <3>1, <2>1, <2>2, BackwardInduction
  <2> QED
    BY <2>3
<1> QED
  BY <1>10, <1>11, <1>12

(* They depend on the blocks behind alone, so they are the same after the  *)
(* front block is gone, and never less when blocks are appended.           *)
LEMMA BrakingSame ==
  ASSUME NEW bs \in Seq(Block), NEW cs \in Seq(Block), NEW s \in {0, 1},
         Len(bs) = Len(cs) + s,
         \A k \in 2..Len(cs) : cs[k].max = bs[k + s].max /\ cs[k].reach = bs[k + s].reach
  PROVE  \A k \in 2..Len(cs) : Braking(cs)[k] = Braking(bs)[k + s]
<1> DEFINE n == Len(cs)
           T == {k \in 2..n : Braking(cs)[k] = Braking(bs)[k + s]}
<1>1. n \in Nat /\ 2 \in Nat \ {0}
  BY BlockFacts
<1>2. /\ \A k \in 2..n : Braking(cs)[k] = Least(bs[k + s].max, bs[k + s].reach
                            + IF k = n THEN 0 ELSE Braking(cs)[k + 1])
      /\ \A k \in 2..n : Braking(bs)[k + s] = Least(bs[k + s].max, bs[k + s].reach
                            + IF k = n THEN 0 ELSE Braking(bs)[k + 1 + s])
  <2>1. \A k \in 2..n : k + s \in 2..Len(bs) /\ (k + s = Len(bs) <=> k = n)
                        /\ k + s + 1 = k + 1 + s
    BY <1>1
  <2> QED
    BY <2>1, BrakingIs
<1>3. 2 <= n => n \in T
  BY <1>1, <1>2
<1>4. \A k \in 2..(n - 1) : k + 1 \in T => k \in T
  BY <1>1, <1>2
<1>5. \A k \in 2..n : k \in T
  <2> HIDE DEF T, n
  <2> QED
    BY <1>1, <1>3, <1>4, BackwardInduction
<1> QED
  BY <1>5

LEMMA BrakingGrows ==
  ASSUME NEW bs \in Seq(Block), NEW cs \in Seq(Block), Len(bs) <= Len(cs),
         \A k \in 2..Len(bs) : cs[k].max = bs[k].max /\ cs[k].reach = bs[k].reach
  PROVE  \A k \in 2..Len(bs) : Braking(bs)[k] <= Braking(cs)[k]
<1> DEFINE n == Len(bs)
           T == {k \in 2..n : Braking(bs)[k] <= Braking(cs)[k]}
<1>1. n \in Nat /\ 2 \in Nat \ {0} /\ Len(cs) \in Nat
  BY BlockFacts
<1>2. ASSUME NEW k \in 2..n
      PROVE  /\ k \in 2..Len(cs) /\ bs[k].max \in Nat /\ bs[k].reach \in Nat
             /\ Braking(bs)[k] = Least(bs[k].max, bs[k].reach
                                       + IF k = n THEN 0 ELSE Braking(bs)[k + 1])
             /\ Braking(cs)[k] = Least(bs[k].max, bs[k].reach
                                       + IF k = Len(cs) THEN 0 ELSE Braking(cs)[k + 1])
             /\ k < n => Braking(bs)[k + 1] \in Nat
             /\ k < Len(cs) => Braking(cs)[k + 1] \in Nat
  <2>1. /\ k \in 2..Len(cs) /\ k \in 1..n
        /\ (k < n => k + 1 \in 2..n) /\ (k < Len(cs) => k + 1 \in 2..Len(cs))
    BY <1>1
  <2>2. bs[k].max \in Nat /\ bs[k].reach \in Nat
    BY <2>1, BlockFacts
  <2>3. Braking(bs) \in [2..n -> Nat] /\ Braking(cs) \in [2..Len(cs) -> Nat]
    BY BrakingIs
  <2>4. /\ Braking(bs)[k] = Least(bs[k].max, bs[k].reach
                                  + IF k = n THEN 0 ELSE Braking(bs)[k + 1])
        /\ Braking(cs)[k] = Least(cs[k].max, cs[k].reach
                                  + IF k = Len(cs) THEN 0 ELSE Braking(cs)[k + 1])
    BY <2>1, BrakingIs
  <2> QED
    BY <2>1, <2>2, <2>3, <2>4
<1>3. 2 <= n => n \in T
  BY <1>1, <1>2, SMTT(30) DEF Least
<1>4. ASSUME NEW k \in 2..(n - 1), k + 1 \in T PROVE k \in T
  BY <1>1, <1>2, <1>4, SMTT(30) DEF Least
<1>5. \A k \in 2..n : k \in T
  <2> HIDE DEF T, n
  <2> QED
    BY <1>1, <1>3, <1>4, BackwardInduction
<1> QED
  BY <1>5

(* The reverse pass computes them although it skips the blocks that are at *)
(* their maximum already.                                                  *)
LEMMA BackwardIs ==
  ASSUME NEW bs \in Seq(Block), NEW p \in 1..Len(bs),
         \A k \in (p + 1)..Len(bs) : bs[k].entry = bs[k].max => k = Len(bs) \/
                                       Braking(bs)[k] = bs[k].max
  PROVE  \A k \in (p + 1)..Len(bs) : Backward(bs, p)[k] = Braking(bs)[k]
<1> DEFINE n == Len(bs)
           Is(f) == f = [k \in (p + 1)..n |->
                           IF k = n THEN Least(bs[k].max, bs[k].reach)
                           ELSE IF bs[k].entry = bs[k].max THEN bs[k].max
                           ELSE Least(bs[k].max, f[k + 1] + bs[k].reach)]
           g == [k \in (p + 1)..n |-> Braking(bs)[k]]
           T == {k \in (p + 1)..n : Backward(bs, p)[k] = Braking(bs)[k]}
<1>1. n \in Nat /\ p + 1 \in Nat \ {0}
  BY BlockFacts
<1>2. ASSUME NEW k \in (p + 1)..n
      PROVE  /\ bs[k].reach \in Nat
             /\ k = n => Braking(bs)[k] = Least(bs[k].max, bs[k].reach)
             /\ k # n => /\ Braking(bs)[k] = Least(bs[k].max, Braking(bs)[k + 1] + bs[k].reach)
                         /\ k + 1 \in (p + 1)..n
  <2>1. k \in 2..n /\ k \in 1..n /\ (k # n => k + 1 \in (p + 1)..n /\ k + 1 \in 2..n)
    BY <1>1
  <2>2. bs[k].reach \in Nat
    BY <2>1, BlockFacts
  <2>3. Braking(bs)[k] = Least(bs[k].max, bs[k].reach
                               + IF k = n THEN 0 ELSE Braking(bs)[k + 1])
    BY <2>1, BrakingIs
  <2>4. k # n => Braking(bs)[k + 1] \in Nat
    BY <2>1, BrakingIs
  <2> QED
    BY <2>1, <2>2, <2>3, <2>4
<1>3. Is(g)
  <2>1. ASSUME NEW k \in (p + 1)..n
        PROVE  g[k] = IF k = n THEN Least(bs[k].max, bs[k].reach)
                      ELSE IF bs[k].entry = bs[k].max THEN bs[k].max
                      ELSE Least(bs[k].max, g[k + 1] + bs[k].reach)
    <3>1. k # n => g[k + 1] = Braking(bs)[k + 1]
      BY <1>2
    <3>2. g[k] = Braking(bs)[k]
      OBVIOUS
    <3> HIDE DEF g
    <3>3. CASE k = n
      BY <1>2, <3>2, <3>3
    <3>4. CASE k # n /\ bs[k].entry = bs[k].max
      BY <3>2, <3>4
    <3>5. CASE k # n /\ bs[k].entry # bs[k].max
      BY <1>2, <3>1, <3>2, <3>5
    <3> QED
      BY <3>3, <3>4, <3>5
  <2> QED
    BY <2>1
<1>4. Backward(bs, p) = CHOOSE f : Is(f)
  BY DEF Backward
<1>5. Is(Backward(bs, p))
  <2> HIDE DEF Is
  <2> QED
    BY <1>3, <1>4, Zenon
<1>6. \A k \in (p + 1)..n : Backward(bs, p)[k] =
                      IF k = n THEN Least(bs[k].max, bs[k].reach)
                      ELSE IF bs[k].entry = bs[k].max THEN bs[k].max
                      ELSE Least(bs[k].max, Backward(bs, p)[k + 1] + bs[k].reach)
  BY <1>5
<1>7. ASSUME p + 1 <= n PROVE n \in T
  <2>1. n \in (p + 1)..n
    BY <1>1, <1>7
  <2>2. Backward(bs, p)[n] = Least(bs[n].max, bs[n].reach)
    BY <1>6, <2>1
  <2> QED
    BY <1>2, <2>1, <2>2
<1>8. \A k \in (p + 1)..(n - 1) : k + 1 \in T => k \in T
  BY <1>1, <1>2, <1>6
<1>9. \A k \in (p + 1)..n : k \in T
  <2> DEFINE m == p + 1
  <2> HIDE DEF T, n, m
  <2>1. m \in Nat \ {0}
    BY <1>1 DEF m
  <2>2. \A k \in m..n : k \in T
    BY <1>1, <1>7, <1>8, <2>1, BackwardInduction DEF m
  <2> QED
    BY <2>2 DEF m
<1> QED
  BY <1>9

(* The forward pass, from what the reverse pass has computed.              *)
LEMMA ForwardIs ==
  ASSUME NEW bs \in Seq(Block), NEW p \in 1..Len(bs),
         \A k \in (p + 1)..Len(bs) : Backward(bs, p)[k] \in Nat
  PROVE  /\ Forward(bs, p)[p] = bs[p].entry
         /\ \A k \in p..Len(bs) : Forward(bs, p)[k] \in Nat
         /\ \A k \in (p + 1)..Len(bs) :
              Forward(bs, p)[k] = Least(Backward(bs, p)[k],
                                        Forward(bs, p)[k - 1] + bs[k - 1].reach)
<1> DEFINE n == Len(bs)
           rev == Backward(bs, p)
           c == bs[p].entry
           Is(f) == f = [k \in p..n |-> IF k = p THEN bs[p].entry
                                        ELSE Least(rev[k], f[k - 1] + bs[k - 1].reach)]
           x == [k \in Nat |-> IF k \in (p + 1)..n THEN rev[k] ELSE 0]
           y == [k \in Nat |-> IF k \in (p + 1)..n THEN bs[k - 1].reach ELSE 0]
           step == [k \in Nat |-> [v \in Nat |-> Least(x[k], v + y[k])]]
<1>1. /\ n \in Nat /\ p \in Nat \ {0} /\ p <= n /\ c \in Nat
      /\ \A k \in (p + 1)..n : rev[k] \in Nat /\ bs[k - 1].reach \in Nat
  BY BlockFacts
<1> HIDE DEF rev
<1>2. x \in [Nat -> Nat] /\ y \in [Nat -> Nat]
  BY <1>1
<1>3. \A k \in (p + 1)..n, v \in Nat : step[k][v] = Least(rev[k], v + bs[k - 1].reach)
  BY <1>1
<1>4. step \in [Nat -> [Nat -> Nat]]
  <2> HIDE DEF x, y
  <2>1. \A k \in Nat : x[k] \in Nat /\ y[k] \in Nat
    BY <1>2
  <2>2. \A k \in Nat : \A v \in Nat : Least(x[k], v + y[k]) \in Nat
    BY <2>1 DEF Least
  <2> QED
    BY <2>2
<1> HIDE DEF step
<1>5. PICK f : IsForward(f, step, c, p, n)
  <2> HIDE DEF n, c
  <2> QED
    BY <1>1, <1>4, ForwardRecursion
<1>6. f = [k \in p..n |-> IF k = p THEN c ELSE step[k][f[k - 1]]]
  BY <1>5 DEF IsForward
<1>7. ASSUME NEW k \in p..n, k # p
      PROVE  f[k - 1] \in Nat /\ k \in (p + 1)..n
  <2>1. k \in (p + 1)..n /\ k - 1 \in p..n
    BY <1>1, <1>7
  <2> QED
    BY <1>5, <2>1 DEF IsForward
<1>8. Is(f)
  BY <1>3, <1>6, <1>7
<1>9. Forward(bs, p) = CHOOSE g : Is(g)
  BY DEF Forward, rev
<1>10. Is(Forward(bs, p))
  <2> HIDE DEF Is
  <2> QED
    BY <1>8, <1>9, Zenon
<1> HIDE DEF c
<1>11. /\ Forward(bs, p)[p] = bs[p].entry
       /\ \A k \in (p + 1)..n : Forward(bs, p)[k] =
                                  Least(rev[k], Forward(bs, p)[k - 1] + bs[k - 1].reach)
  <2>1. ASSUME NEW g, Is(g), NEW k \in p..n
        PROVE  g[k] = IF k = p THEN bs[p].entry ELSE Least(rev[k], g[k - 1] + bs[k - 1].reach)
    <3> HIDE DEF n, x, y
    <3> QED
      BY <2>1, Zenon
  <2>2. p \in p..n /\ \A k \in (p + 1)..n : k \in p..n /\ k # p
    BY <1>1
  <2> HIDE DEF Is, x, y, n
  <2> QED
    BY <1>10, <2>1, <2>2, Zenon
<1>12. \A k \in p..n : Forward(bs, p)[k] \in Nat
  <2> DEFINE T == {k \in p..n : Forward(bs, p)[k] \in Nat}
  <2>1. p <= n => p \in T
    BY <1>1, <1>11 DEF c
  <2>2. ASSUME NEW k \in (p + 1)..n, k - 1 \in T PROVE k \in T
    BY <1>1, <1>11, <2>2 DEF Least
  <2>3. \A k \in p..n : k \in T
    <3> HIDE DEF T, n
    <3> QED
      BY <1>1, <2>1, <2>2, ForwardInduction
  <2> QED
    BY <2>3
<1> QED
  BY <1>11, <1>12 DEF rev

(* A recalculation makes every entry speed behind the pointer follow from  *)
(* the one before it, and moves the pointer to a block that no later block *)
(* can make faster.                                                        *)
LEMMA ReplanBest ==
  ASSUME NEW bs \in Seq(Block), NEW p \in 1..Len(bs),
         \A k \in (p + 1)..Len(bs) : k # Len(bs) => bs[k].entry <= Braking(bs)[k]
  PROVE  /\ Replanned(bs, p) \in Seq(Block) /\ Len(Replanned(bs, p)) = Len(bs)
         /\ \A k \in 1..Len(bs) : /\ Replanned(bs, p)[k].max = bs[k].max
                                  /\ Replanned(bs, p)[k].reach = bs[k].reach
                                  /\ k <= p => Replanned(bs, p)[k] = bs[k]
         /\ \A k \in (p + 1)..Len(bs) :
              Replanned(bs, p)[k].entry =
                Least(Braking(bs)[k], Replanned(bs, p)[k - 1].entry + bs[k - 1].reach)
         /\ PlannedAfter(bs, p) \in p..Len(bs)
         /\ PlannedAfter(bs, p) # p =>
              \/ Replanned(bs, p)[PlannedAfter(bs, p)].entry = bs[PlannedAfter(bs, p)].max
              \/ Replanned(bs, p)[PlannedAfter(bs, p)].entry
                   < Braking(bs)[PlannedAfter(bs, p)]
<1> DEFINE n == Len(bs)
           rs == Replanned(bs, p)
           q == PlannedAfter(bs, p)
<1>1. /\ n \in Nat /\ p \in Nat \ {0} /\ p <= n
      /\ \A k \in (p + 1)..n : k \in 2..n /\ k \in 1..n /\ k - 1 \in 1..n
      /\ \A k \in (p + 1)..n : k = p + 1 \/ k - 1 \in (p + 1)..n
  BY BlockFacts
<1>2. \A k \in (p + 1)..n : k # n /\ bs[k].entry = bs[k].max => Braking(bs)[k] = bs[k].max
  <2> SUFFICES ASSUME NEW k \in (p + 1)..n, k # n, bs[k].entry = bs[k].max
               PROVE  Braking(bs)[k] = bs[k].max
    OBVIOUS
  <2>1. k \in 2..n /\ k \in 1..n /\ k + 1 \in 2..n
    BY <1>1
  <2>2. /\ Braking(bs)[k] = Least(bs[k].max, bs[k].reach + Braking(bs)[k + 1])
        /\ Braking(bs)[k + 1] \in Nat /\ Braking(bs)[k] \in Nat
    BY <2>1, BrakingIs
  <2>3. bs[k].max \in Nat /\ bs[k].reach \in Nat /\ bs[k].entry <= Braking(bs)[k]
    BY <2>1, BlockFacts
  <2> QED
    BY <2>2, <2>3 DEF Least
<1>3. \A k \in (p + 1)..n : Backward(bs, p)[k] = Braking(bs)[k] /\ Braking(bs)[k] \in Nat
  BY <1>1, <1>2, BackwardIs, BrakingIs
<1>4. /\ Forward(bs, p)[p] = bs[p].entry
      /\ \A k \in p..n : Forward(bs, p)[k] \in Nat
      /\ \A k \in (p + 1)..n :
           Forward(bs, p)[k] = Least(Braking(bs)[k], Forward(bs, p)[k - 1] + bs[k - 1].reach)
  BY <1>3, ForwardIs
<1>5. /\ DOMAIN rs = 1..n
      /\ rs = [k \in 1..n |-> rs[k]]
      /\ \A k \in 1..n : rs[k] = IF k > p THEN [bs[k] EXCEPT !.entry = Forward(bs, p)[k]]
                                 ELSE bs[k]
  BY DEF Replanned
<1> HIDE DEF rs
<1>6. \A k \in 1..n : /\ rs[k] \in Block
                      /\ rs[k].max = bs[k].max /\ rs[k].reach = bs[k].reach
                      /\ k <= p => rs[k] = bs[k]
                      /\ k > p => rs[k].entry = Forward(bs, p)[k]
  <2> SUFFICES ASSUME NEW k \in 1..n
               PROVE  /\ rs[k] \in Block
                      /\ rs[k].max = bs[k].max /\ rs[k].reach = bs[k].reach
                      /\ k <= p => rs[k] = bs[k]
                      /\ k > p => rs[k].entry = Forward(bs, p)[k]
    OBVIOUS
  <2>1. bs[k] \in Block /\ DOMAIN bs[k] = {"max", "reach", "entry"}
    BY BlockFacts
  <2>2. CASE k <= p
    BY <1>1, <1>5, <2>1, <2>2
  <2>3. CASE k > p
    <3>1. Forward(bs, p)[k] \in Nat
      BY <1>1, <1>4, <2>3
    <3>2. rs[k] = [bs[k] EXCEPT !.entry = Forward(bs, p)[k]]
      BY <1>5, <2>3
    <3>3. /\ rs[k] \in Block /\ rs[k].max = bs[k].max /\ rs[k].reach = bs[k].reach
          /\ rs[k].entry = Forward(bs, p)[k]
      BY <2>1, <3>1, <3>2, EntryChanged
    <3> QED
      BY <1>1, <2>3, <3>3
  <2> QED
    BY <1>1, <2>2, <2>3
<1>7. rs \in Seq(Block) /\ Len(rs) = n
  <2>1. rs \in [1..n -> Block]
    BY <1>5, <1>6
  <2> QED
    BY <1>1, <2>1
<1>8. \A k \in p..n : rs[k].entry = Forward(bs, p)[k]
  BY <1>1, <1>4, <1>6
<1>9. \A k \in (p + 1)..n : rs[k].entry = Least(Braking(bs)[k], rs[k - 1].entry + bs[k - 1].reach)
  <2>1. \A k \in (p + 1)..n : k \in p..n /\ k - 1 \in p..n
    BY <1>1
  <2> QED
    BY <1>4, <1>8, <2>1
<1>10. q \in p..n /\ (q # p => rs[q].entry = bs[q].max \/ rs[q].entry < Braking(bs)[q])
  <2>1. /\ q \in p..n
        /\ q # p => Forward(bs, p)[q] < Backward(bs, p)[q] \/ Forward(bs, p)[q] = bs[q].max
    BY <1>1, PlannedMoves, Zenon
  <2> HIDE DEF q
  <2>2. q # p => q \in (p + 1)..n
    BY <1>1, <2>1
  <2> QED
    BY <1>3, <1>8, <2>1, <2>2
<1> QED
  BY <1>6, <1>7, <1>9, <1>10 DEF rs

(* The speed the plan gives to the end of the block in front of block k,   *)
(* when the first block starts with speed s.                               *)
Before(bs, s, k) == IF k = 2 THEN s ELSE bs[k - 1].entry
Follows(bs, s, k) == bs[k].entry = Least(Braking(bs)[k], Before(bs, s, k) + bs[k - 1].reach)

(* The blocks up to the planned pointer keep their speeds when blocks are  *)
(* appended: going back from it, each is held back by the acceleration up  *)
(* to it, or the blocks behind let it brake no later than before.          *)
LEMMA EarlierKept ==
  ASSUME NEW bs \in Seq(Block), NEW cs \in Seq(Block), NEW s \in Nat,
         Len(bs) <= Len(cs),
         \A k \in 2..Len(bs) : cs[k].max = bs[k].max /\ cs[k].reach = bs[k].reach,
         NEW p \in 2..Len(bs),
         bs[p].entry = bs[p].max \/ bs[p].entry < Braking(bs)[p],
         \A k \in 2..p : bs[k].entry <= Braking(bs)[k] /\ Follows(bs, s, k)
  PROVE  \A k \in 2..p : bs[k].entry = Least(Braking(cs)[k], Before(bs, s, k) + bs[k - 1].reach)
<1> DEFINE n == Len(bs)
           T == {k \in 2..p : bs[k].entry < Braking(bs)[k] \/ Braking(cs)[k] = Braking(bs)[k]}
<1>1. n \in Nat /\ p \in Nat /\ 2 \in Nat \ {0} /\ Len(cs) \in Nat
  BY BlockFacts
<1>2. ASSUME NEW k \in 2..p
      PROVE  /\ bs[k].max \in Nat /\ bs[k].reach \in Nat /\ bs[k - 1].reach \in Nat
             /\ bs[k].entry \in Nat /\ bs[k - 1].entry \in Nat
             /\ Braking(bs)[k] \in Nat /\ Braking(cs)[k] \in Nat
             /\ Braking(bs)[k] <= Braking(cs)[k]
             /\ Braking(bs)[k] <= bs[k].max /\ Braking(cs)[k] <= bs[k].max
  <2>1. k \in 2..n /\ k \in 1..n /\ k - 1 \in 1..n /\ k \in 2..Len(cs)
    BY <1>1
  <2>2. /\ bs[k].max \in Nat /\ bs[k].reach \in Nat /\ bs[k - 1].reach \in Nat
        /\ bs[k].entry \in Nat /\ bs[k - 1].entry \in Nat
    BY <2>1, BlockFacts
  <2>3. Braking(bs)[k] \in Nat /\ Braking(cs)[k] \in Nat /\ Braking(bs)[k] <= Braking(cs)[k]
    BY <2>1, BrakingIs, BrakingGrows
  <2>4. \A m \in Int : Least(bs[k].max, m) <= bs[k].max
    BY <2>2 DEF Least
  <2>5. k # n => Braking(bs)[k + 1] \in Nat
    BY <1>1, <2>1, BrakingIs
  <2>6. k # Len(cs) => Braking(cs)[k + 1] \in Nat
    BY <1>1, <2>1, BrakingIs
  <2>7. Braking(bs)[k] = Least(bs[k].max, bs[k].reach + IF k = n THEN 0 ELSE Braking(bs)[k + 1])
    BY <2>1, BrakingIs
  <2>8. Braking(cs)[k] = Least(bs[k].max, bs[k].reach + IF k = Len(cs) THEN 0
                                                        ELSE Braking(cs)[k + 1])
    BY <2>1, BrakingIs
  <2> QED
    BY <2>2, <2>3, <2>4, <2>5, <2>6, <2>7, <2>8
<1>3. p \in T
  BY <1>1, <1>2
<1>4. ASSUME NEW k \in 2..(p - 1), k + 1 \in T PROVE k \in T
  <2>1. k \in 2..n /\ k \in 2..p /\ k + 1 \in 2..p /\ k \in 2..Len(cs) /\ k # n /\ k # Len(cs)
        /\ k + 1 # 2 /\ (k + 1) - 1 = k
    BY <1>1
  <2>2. /\ Braking(bs)[k] = Least(bs[k].max, bs[k].reach + Braking(bs)[k + 1])
        /\ Braking(cs)[k] = Least(bs[k].max, bs[k].reach + Braking(cs)[k + 1])
    BY <2>1, BrakingIs
  <2>3. bs[k + 1].entry = Least(Braking(bs)[k + 1], bs[k].entry + bs[k].reach)
    BY <2>1 DEF Follows, Before
  <2>4. bs[k].entry <= Braking(bs)[k]
    BY <2>1
  <2>5. /\ bs[k].max \in Nat /\ bs[k].reach \in Nat /\ bs[k].entry \in Nat
        /\ Braking(bs)[k] \in Nat /\ Braking(cs)[k] \in Nat
        /\ Braking(bs)[k + 1] \in Nat /\ Braking(cs)[k + 1] \in Nat
        /\ Braking(bs)[k] <= Braking(cs)[k] /\ Braking(cs)[k] <= bs[k].max
    BY <1>2, <2>1
  <2>6. CASE Braking(cs)[k + 1] = Braking(bs)[k + 1]
    BY <2>1, <2>2, <2>6
  <2>7. CASE bs[k + 1].entry < Braking(bs)[k + 1]
    <3>1. bs[k + 1].entry = bs[k].entry + bs[k].reach
      BY <2>3, <2>5, <2>7 DEF Least
    <3>2. bs[k].entry = Braking(bs)[k] => Braking(bs)[k] = bs[k].max
      BY <2>2, <2>5, <2>7, <3>1 DEF Least
    <3> QED
      BY <2>1, <2>4, <2>5, <3>2
  <2> QED
    BY <1>4, <2>6, <2>7
<1>5. \A k \in 2..p : k \in T
  <2> HIDE DEF T
  <2> QED
    BY <1>1, <1>3, <1>4, BackwardInduction
<1> SUFFICES ASSUME NEW k \in 2..p
             PROVE  bs[k].entry = Least(Braking(cs)[k], Before(bs, s, k) + bs[k - 1].reach)
  OBVIOUS
<1>6. Before(bs, s, k) \in Nat
  BY <1>2 DEF Before
<1> QED
  BY <1>2, <1>5, <1>6, SMTT(30) DEF Follows, Least

-----------------------------------------------------------------------------
(* The plan, in every state.                                               *)

(* The distance the machine has to brake from the front on: to the highest *)
(* speed the second block may be entered with, or to rest.                 *)
First(bs) ==
  IF bs = << >> THEN 0
  ELSE bs[1].reach + IF Len(bs) = 1 THEN 0 ELSE Braking(bs)[2]

LEMMA FirstIs ==
  ASSUME NEW bs, bs # << >>
  PROVE  /\ Len(bs) = 1 /\ bs[1].reach \in Nat => First(bs) = bs[1].reach
         /\ Len(bs) # 1 => First(bs) = bs[1].reach + Braking(bs)[2]
<1>1. Len(bs) = 1 => First(bs) = bs[1].reach + 0
  BY Zenon DEF First
<1>2. Len(bs) # 1 => First(bs) = bs[1].reach + Braking(bs)[2]
  BY Zenon DEF First
<1> QED
  BY <1>1, <1>2

TypeInv ==
  /\ blocks \in Seq(Block) /\ Len(blocks) <= MaxBlocks
  /\ speed \in Nat /\ exit \in Nat
  /\ loaded \in BOOLEAN /\ partial \in BOOLEAN /\ held \in BOOLEAN

(* Every entry speed follows from the one before it, but for the second,   *)
(* while a hold brakes the first block; the pointer stands where a longer  *)
(* plan changes nothing in front of it; and a block that was taken up      *)
(* before and is not now has the current speed for its entry speed.        *)
PlanInv ==
  /\ \A k \in 2..Len(blocks) :
       /\ blocks[k].entry <= Braking(blocks)[k]
       /\ k > 2 \/ ~(held /\ loaded) => Follows(blocks, StartSpeed, k)
  /\ planned >= 2 => \/ blocks[planned].entry = blocks[planned].max
                     \/ blocks[planned].entry < Braking(blocks)[planned]
  /\ loaded => ~partial
  /\ partial => blocks # << >> /\ blocks[1].entry = speed

(* The machine can always brake in time, the profile leads from the        *)
(* current speed to its end, and between two blocks the speed is the end   *)
(* of the one and the beginning of the other.                              *)
SpeedInv ==
  /\ speed <= First(blocks)
  /\ loaded /\ ~held => Dist(speed, exit) <= blocks[1].reach
  /\ loaded /\ held => exit = IF speed > blocks[1].reach THEN speed - blocks[1].reach ELSE 0
  /\ ~loaded /\ ~partial => speed = exit
  /\ ~held /\ ~loaded /\ ~partial /\ blocks # << >> => speed = blocks[1].entry

Inv == IInv /\ TypeInv /\ PlanInv /\ SpeedInv

(* The pointer stands on a block, when there is one.                       *)
LEMMA InvFacts ==
  ASSUME Inv
  PROVE  /\ Len(blocks) \in Nat /\ planned \in Nat \ {0}
         /\ blocks = << >> <=> Len(blocks) = 0
         /\ blocks # << >> => planned \in 1..Len(blocks) /\ 1 \in 1..Len(blocks)
         /\ blocks = << >> => planned = 1
         /\ loaded \/ partial => blocks # << >>
  BY DEF Inv, IInv, PointerOK, TypeInv, PlanInv

(* A change to the front block.                                            *)
WithFront(bs, b) == [bs EXCEPT ![1] = b]

LEMMA FrontChanged ==
  ASSUME NEW bs \in Seq(Block), bs # << >>, NEW b \in Block
  PROVE  /\ WithFront(bs, b) \in Seq(Block) /\ Len(WithFront(bs, b)) = Len(bs)
         /\ WithFront(bs, b) # << >> /\ WithFront(bs, b)[1] = b
         /\ \A k \in 2..Len(bs) : /\ WithFront(bs, b)[k] = bs[k]
                                  /\ Braking(WithFront(bs, b))[k] = Braking(bs)[k]
         /\ \A s \in Nat : \A k \in 3..Len(bs) :
              Follows(WithFront(bs, b), s, k) <=> Follows(bs, s, k)
<1> DEFINE cs == WithFront(bs, b)
<1>1. Len(bs) \in Nat /\ Len(bs) # 0 /\ 1 \in 1..Len(bs) /\ bs \in [1..Len(bs) -> Block]
  OBVIOUS
<1>2. cs \in [1..Len(bs) -> Block] /\ cs[1] = b /\ \A k \in 2..Len(bs) : cs[k] = bs[k]
  BY <1>1 DEF WithFront
<1> HIDE DEF cs
<1>3. cs \in Seq(Block) /\ Len(cs) = Len(bs) /\ cs # << >>
  BY <1>1, <1>2
<1>4. \A k \in 2..Len(cs) : Braking(cs)[k] = Braking(bs)[k + 0]
  <2>1. \A k \in 2..Len(cs) : cs[k].max = bs[k + 0].max /\ cs[k].reach = bs[k + 0].reach
    BY <1>1, <1>2, <1>3
  <2>2. Len(bs) = Len(cs) + 0
    BY <1>1, <1>3
  <2> QED
    BY <1>3, <2>1, <2>2, BrakingSame
<1>5. \A k \in 2..Len(bs) : Braking(cs)[k] = Braking(bs)[k]
  <2>1. \A k \in 2..Len(bs) : k + 0 = k
    BY <1>1
  <2> QED
    BY <1>3, <1>4, <2>1
<1>6. \A s \in Nat : \A k \in 3..Len(bs) : Follows(cs, s, k) <=> Follows(bs, s, k)
  <2> SUFFICES ASSUME NEW s \in Nat, NEW k \in 3..Len(bs)
               PROVE  Follows(cs, s, k) <=> Follows(bs, s, k)
    OBVIOUS
  <2>1. k \in 2..Len(bs) /\ k - 1 \in 2..Len(bs) /\ k # 2
    BY <1>1
  <2>2. cs[k] = bs[k] /\ cs[k - 1] = bs[k - 1]
    BY <1>2, <2>1
  <2> QED
    BY <1>5, <2>1, <2>2 DEF Follows, Before
<1> QED
  BY <1>2, <1>3, <1>5, <1>6 DEF cs

(* The loss of the front block.                                            *)
LEMMA FrontGone ==
  ASSUME NEW bs \in Seq(Block), bs # << >>, NEW cs, cs = Tail(bs)
  PROVE  /\ cs \in Seq(Block) /\ Len(cs) = Len(bs) - 1 /\ Len(bs) \in Nat \ {0}
         /\ \A k \in 1..Len(cs) : cs[k] = bs[k + 1]
         /\ \A k \in 2..Len(cs) : Braking(cs)[k] = Braking(bs)[k + 1]
<1>1. /\ cs \in Seq(Block) /\ Len(cs) = Len(bs) - 1 /\ Len(bs) \in Nat \ {0}
      /\ \A k \in 1..Len(cs) : cs[k] = bs[k + 1]
  OBVIOUS
<1>2. Len(bs) = Len(cs) + 1 /\ \A k \in 2..Len(cs) : k \in 1..Len(cs)
  BY <1>1
<1> QED
  BY <1>1, <1>2, BrakingSame

LEMMA InvInit == Init => Inv
<1> SUFFICES ASSUME Init PROVE Inv
  OBVIOUS
<1>1. << >> \in Seq(Block) /\ Len(<< >>) = 0
  OBVIOUS
<1>2. TypeInv
  <2>1. blocks \in Seq(Block) /\ Len(blocks) <= MaxBlocks
    BY <1>1, PlannerAssumption DEF Init, PlannerAssumption
  <2> QED
    BY <2>1 DEF Init, TypeInv
<1>3. PlanInv /\ SpeedInv
  BY <1>1 DEF Init, PlanInv, SpeedInv, First
<1> QED
  BY <1>2, <1>3, InitInv DEF Inv

(* A new block is appended, and the plan recomputed from the pointer on.   *)
LEMMA BufferLineInv == Inv /\ IInv' /\ BufferLine => Inv'
<1> SUFFICES ASSUME Inv, IInv', BufferLine PROVE Inv'
  OBVIOUS
<1>1. PICK b \in Block :
        /\ Recalculate(Append(blocks, b)) /\ b.entry = 0
        /\ ~held /\ Len(blocks) < MaxBlocks /\ UNCHANGED <<speed, exit, held>>
  <2>1. PICK max \in MaxEntries, reach \in Reaches :
          Recalculate(Append(blocks, IF blocks = << >>
            THEN [max |-> 0, reach |-> reach, entry |-> 0]
            ELSE [max |-> max, reach |-> reach, entry |-> 0]))
    BY DEF BufferLine
  <2>2. /\ [max |-> 0, reach |-> reach, entry |-> 0] \in Block
        /\ [max |-> max, reach |-> reach, entry |-> 0] \in Block
    BY PlannerAssumption DEF Block, PlannerAssumption
  <2> QED
    BY <2>1, <2>2 DEF BufferLine
<1> DEFINE bs == Append(blocks, b)
<1>2. /\ Len(blocks) \in Nat /\ planned \in Nat \ {0}
      /\ (blocks = << >> <=> Len(blocks) = 0)
      /\ blocks # << >> => planned \in 1..Len(blocks) /\ 1 \in 1..Len(blocks)
      /\ blocks = << >> => planned = 1
      /\ loaded \/ partial => blocks # << >>
      /\ blocks \in Seq(Block) /\ speed \in Nat /\ exit \in Nat
      /\ loaded \in BOOLEAN /\ partial \in BOOLEAN
  BY InvFacts DEF Inv, TypeInv
<1>3. /\ bs \in Seq(Block) /\ Len(bs) = Len(blocks) + 1
      /\ \A k \in 1..Len(blocks) : bs[k] = blocks[k]
  BY <1>2
<1>4. CASE blocks = << >>
  <2>1. Len(bs) = 1 /\ Len(bs) <= planned /\ bs[1] = b
    BY <1>2, <1>3, <1>4
  <2>2. blocks' = bs /\ UNCHANGED <<planned, loaded, partial>>
    BY <1>1, <2>1 DEF Recalculate
  <2>3. ~loaded /\ ~partial /\ speed = 0
    BY <1>2, <1>4 DEF Inv, SpeedInv, First
  <2>4. b.reach \in Nat
    BY DEF Block
  <2>5. TypeInv'
    BY <1>1, <1>2, <1>3, <1>4, <2>1, <2>2, PlannerAssumption
       DEF TypeInv, PlannerAssumption, Inv
  <2>6. PlanInv'
    BY <1>2, <1>4, <2>1, <2>2, <2>3 DEF PlanInv
  <2>7. SpeedInv'
    BY <1>1, <1>3, <2>1, <2>2, <2>3, <2>4 DEF Inv, SpeedInv, First
  <2> QED
    BY <2>5, <2>6, <2>7 DEF Inv
<1>5. CASE blocks # << >>
  <2> DEFINE cs == IF planned = 1 THEN Updated(bs) ELSE bs
             n == Len(blocks)
  <2>1. planned \in 1..n /\ planned < Len(bs) /\ 1 \in 1..n /\ bs # << >> /\ n \in Nat
    BY <1>2, <1>3, <1>5
  <2>2. /\ blocks' = Replanned(cs, planned) /\ planned' = PlannedAfter(cs, planned)
        /\ planned = 1 => loaded' = FALSE /\ partial' = (loaded \/ partial)
        /\ planned # 1 => UNCHANGED <<loaded, partial>>
    BY <1>1, <1>3, <2>1 DEF Recalculate, NotifyStepper
  <2>3. /\ cs \in Seq(Block) /\ Len(cs) = n + 1
        /\ \A k \in 2..(n + 1) : cs[k] = bs[k] /\ Braking(cs)[k] = Braking(bs)[k]
        /\ cs[1].reach = blocks[1].reach /\ cs[1].max = blocks[1].max
        /\ planned # 1 => cs = bs
        /\ planned = 1 /\ loaded => cs[1].entry = speed
        /\ planned = 1 /\ ~loaded => cs[1].entry = blocks[1].entry
    <3>1. bs[1] \in Block /\ bs[1] = blocks[1]
      BY <1>3, <2>1
    <3>2. CASE planned = 1 /\ loaded
      <4> DEFINE c == [bs[1] EXCEPT !.entry = speed]
      <4>1. c \in Block /\ c.max = bs[1].max /\ c.reach = bs[1].reach /\ c.entry = speed
        BY <1>2, <3>1, EntryChanged
      <4>2. cs = WithFront(bs, c)
        BY <3>2 DEF Updated, WithFront
      <4> HIDE DEF c, cs, bs
      <4>3. bs \in Seq(Block) /\ bs # << >> /\ c \in Block
        BY <1>3, <2>1, <4>1
      <4>4. /\ cs \in Seq(Block) /\ Len(cs) = Len(bs) /\ cs[1] = c
            /\ \A k \in 2..Len(bs) : cs[k] = bs[k] /\ Braking(cs)[k] = Braking(bs)[k]
        BY <4>2, <4>3, FrontChanged
      <4> QED
        BY <1>3, <3>1, <3>2, <4>1, <4>4
    <3>3. CASE ~(planned = 1 /\ loaded)
      <4>1. cs = bs
        BY <3>3 DEF Updated
      <4> QED
        BY <1>3, <3>1, <3>3, <4>1
    <3> QED
      BY <3>2, <3>3
  <2>4. \A k \in 1..n : cs[k].max = blocks[k].max /\ cs[k].reach = blocks[k].reach
    BY <1>3, <2>1, <2>3
  <2> HIDE DEF cs, bs
  <2>5. \A k \in 2..n : /\ Braking(blocks)[k] <= Braking(cs)[k]
                        /\ Braking(blocks)[k] \in Nat /\ Braking(cs)[k] \in Nat
                        /\ cs[k] = blocks[k] /\ blocks[k].entry \in Nat
                        /\ blocks[k].entry <= Braking(blocks)[k]
    <3>1. \A k \in 2..n : Braking(blocks)[k] <= Braking(cs)[k]
      BY <1>2, <2>1, <2>3, <2>4, BrakingGrows, SMTT(30)
    <3>2. \A k \in 2..n : Braking(blocks)[k] \in Nat /\ Braking(cs)[k] \in Nat
      <4>1. Braking(blocks) \in [2..n -> Nat] /\ Braking(cs) \in [2..(n + 1) -> Nat]
        BY <1>2, <2>3, BrakingIs, Zenon
      <4> QED
        BY <2>1, <4>1
    <3>3. \A k \in 2..n : cs[k] = blocks[k] /\ blocks[k].entry \in Nat
      BY <1>2, <1>3, <2>1, <2>3, BlockFacts
    <3> QED
      BY <3>1, <3>2, <3>3 DEF Inv, PlanInv
  <2>6. \A k \in (planned + 1)..Len(cs) : k # Len(cs) => cs[k].entry <= Braking(cs)[k]
    <3>1. \A k \in (planned + 1)..Len(cs) : k # Len(cs) => k \in 2..n
      BY <2>1, <2>3
    <3> QED
      BY <2>5, <3>1
  <2>7. /\ blocks' \in Seq(Block) /\ Len(blocks') = n + 1
        /\ \A k \in 1..(n + 1) : /\ blocks'[k].max = cs[k].max /\ blocks'[k].reach = cs[k].reach
                                 /\ k <= planned => blocks'[k] = cs[k]
        /\ \A k \in (planned + 1)..(n + 1) :
             blocks'[k].entry = Least(Braking(cs)[k], blocks'[k - 1].entry + cs[k - 1].reach)
        /\ planned' \in planned..(n + 1)
        /\ planned' # planned => \/ blocks'[planned'].entry = cs[planned'].max
                                 \/ blocks'[planned'].entry < Braking(cs)[planned']
    <3>1. planned \in 1..Len(cs)
      BY <2>1, <2>3
    <3> QED
      BY <2>2, <2>3, <2>6, <3>1, ReplanBest
  <2>8. \A k \in 2..(n + 1) : Braking(blocks')[k] = Braking(cs)[k] /\ Braking(cs)[k] \in Nat
    <3>1. /\ \A k \in 2..(n + 1) : Braking(blocks')[k] = Braking(cs)[k + 0]
          /\ \A k \in 2..(n + 1) : k + 0 = k
      <4>1. /\ Len(cs) = Len(blocks') + 0
            /\ \A k \in 2..Len(blocks') : /\ blocks'[k].max = cs[k + 0].max
                                          /\ blocks'[k].reach = cs[k + 0].reach
        BY <2>1, <2>3, <2>7
      <4>2. \A k \in 2..Len(blocks') : Braking(blocks')[k] = Braking(cs)[k + 0]
        <5>1. cs \in Seq(Block) /\ blocks' \in Seq(Block) /\ 0 \in {0, 1}
          BY <2>3, <2>7
        <5> QED
          BY <4>1, <5>1, BrakingSame
      <4> QED
        BY <2>1, <2>7, <4>2
    <3> QED
      BY <2>3, <3>1, BrakingIs
  <2>9. /\ StartSpeed' \in Nat
        /\ planned = 1 => StartSpeed' = blocks'[1].entry
        /\ planned # 1 => StartSpeed' = StartSpeed /\ blocks'[1] = blocks[1]
    <3>1. blocks'[1] = cs[1]
      BY <2>1, <2>7
    <3>2. CASE planned = 1
      <4>1. StartSpeed' = IF loaded \/ partial THEN speed ELSE cs[1].entry
        BY <1>1, <2>2, <3>1, <3>2 DEF StartSpeed
      <4>2. partial /\ ~loaded => cs[1].entry = speed
        BY <2>3, <3>2 DEF Inv, PlanInv
      <4>3. StartSpeed' = cs[1].entry
        BY <2>3, <3>2, <4>1, <4>2
      <4>4. cs[1].entry \in Nat
        BY <2>3, <2>1, BlockFacts
      <4> QED
        BY <3>1, <3>2, <4>3, <4>4
    <3>3. CASE planned # 1
      <4>1. blocks'[1] = blocks[1] /\ blocks[1].entry \in Nat
        BY <1>2, <1>3, <2>1, <2>3, <3>1, <3>3, BlockFacts
      <4> QED
        BY <1>1, <1>2, <2>2, <3>3, <4>1 DEF StartSpeed
    <3> QED
      BY <3>2, <3>3
  <2>10. PlanInv'
    <3>1. \A k \in 2..(n + 1) : Follows(blocks', StartSpeed', k)
      <4>1. ASSUME NEW k \in (planned + 1)..(n + 1)
            PROVE  Follows(blocks', StartSpeed', k)
        <5>1. k \in 2..(n + 1) /\ k - 1 \in 1..(n + 1) /\ (k = 2 => planned = 1)
          BY <2>1
        <5>2. Before(blocks', StartSpeed', k) = blocks'[k - 1].entry
          BY <2>9, <5>1 DEF Before
        <5> QED
          BY <2>7, <2>8, <5>1, <5>2 DEF Follows
      <4>2. ASSUME planned # 1, NEW k \in 2..planned
            PROVE  Follows(blocks', StartSpeed', k)
        <5>1. /\ planned \in 2..n /\ k \in 2..n /\ k \in 1..(n + 1) /\ k - 1 \in 1..(n + 1)
              /\ k - 1 \in 1..n /\ k \in 2..(n + 1) /\ k - 1 <= planned /\ k <= planned
              /\ k # 2 => k - 1 \in 2..n
          BY <2>1, <4>2
        <5>2. \A j \in 2..planned : /\ blocks[j].entry <= Braking(blocks)[j]
                                     /\ Follows(blocks, StartSpeed, j)
          BY <1>1, <2>1 DEF Inv, PlanInv
        <5>3. \/ blocks[planned].entry = blocks[planned].max
              \/ blocks[planned].entry < Braking(blocks)[planned]
          BY <5>1 DEF Inv, PlanInv
        <5>4. StartSpeed \in Nat
          BY <2>9, <4>2
        <5>5. \A j \in 2..n : cs[j].max = blocks[j].max /\ cs[j].reach = blocks[j].reach
          BY <2>1, <2>4
        <5>6. n <= Len(cs)
          BY <2>1, <2>3
        <5>7. blocks[k].entry = Least(Braking(cs)[k], Before(blocks, StartSpeed, k)
                                                      + blocks[k - 1].reach)
          BY <1>2, <2>3, <5>1, <5>2, <5>3, <5>4, <5>5, <5>6, EarlierKept, ZenonT(40)
        <5>8. blocks'[k] = blocks[k] /\ blocks'[k - 1].reach = blocks[k - 1].reach
          BY <2>4, <2>5, <2>7, <5>1
        <5>9. k # 2 => blocks'[k - 1] = blocks[k - 1]
          BY <2>5, <2>7, <5>1
        <5>10. Before(blocks', StartSpeed', k) = Before(blocks, StartSpeed, k)
          BY <2>9, <4>2, <5>9 DEF Before
        <5> QED
          BY <2>8, <5>1, <5>7, <5>8, <5>10 DEF Follows
      <4>3. \A k \in 2..(n + 1) : k \in (planned + 1)..(n + 1) \/ (planned # 1 /\ k \in 2..planned)
        BY <2>1
      <4> QED
        BY <4>1, <4>2, <4>3
    <3>2. \A k \in 2..(n + 1) : blocks'[k].entry <= Braking(blocks')[k]
      <4> SUFFICES ASSUME NEW k \in 2..(n + 1)
                   PROVE  blocks'[k].entry <= Braking(blocks')[k]
        OBVIOUS
      <4>1. k \in 1..Len(blocks') /\ k - 1 \in 1..Len(blocks')
        BY <2>1, <2>7
      <4>2. blocks'[k - 1].reach \in Nat /\ blocks'[k - 1].entry \in Nat
        BY <2>7, <4>1, BlockFacts
      <4>3. Before(blocks', StartSpeed', k) + blocks'[k - 1].reach \in Nat
        BY <2>9, <4>2, SMTT(30) DEF Before
      <4> QED
        BY <2>8, <3>1, <4>3 DEF Follows, Least
    <3>3. planned' >= 2 => \/ blocks'[planned'].entry = blocks'[planned'].max
                           \/ blocks'[planned'].entry < Braking(blocks')[planned']
      <4> SUFFICES ASSUME planned' >= 2
                   PROVE  \/ blocks'[planned'].entry = blocks'[planned'].max
                          \/ blocks'[planned'].entry < Braking(blocks')[planned']
        OBVIOUS
      <4>1. planned' \in 2..(n + 1) /\ planned' \in 1..(n + 1)
        BY <2>1, <2>7
      <4>2. CASE planned' # planned
        BY <2>7, <2>8, <4>1, <4>2
      <4>3. CASE planned' = planned
        <5>1. planned \in 2..n /\ planned \in 1..(n + 1) /\ planned \in 2..(n + 1)
          BY <2>1, <4>1, <4>3
        <5>2. blocks'[planned] = blocks[planned]
          BY <2>5, <2>7, <5>1
        <5>3. Braking(blocks)[planned] <= Braking(blocks')[planned]
          BY <2>5, <2>8, <5>1
        <5>4. \/ blocks[planned].entry = blocks[planned].max
              \/ blocks[planned].entry < Braking(blocks)[planned]
          BY <5>1 DEF Inv, PlanInv
        <5> QED
          BY <2>5, <2>8, <4>3, <5>1, <5>2, <5>3, <5>4
      <4> QED
        BY <4>2, <4>3
    <3>4. loaded' => ~partial'
      BY <2>2 DEF Inv, PlanInv
    <3>5. ASSUME partial'
          PROVE  blocks' # << >> /\ blocks'[1].entry = speed'
      <4>1. blocks' # << >> /\ blocks'[1] = cs[1]
        BY <2>1, <2>7
      <4>2. loaded \/ partial
        BY <2>2, <3>5
      <4>3. CASE planned = 1
        BY <1>1, <2>3, <4>1, <4>2, <4>3 DEF Inv, PlanInv
      <4>4. CASE planned # 1
        BY <1>1, <2>2, <2>9, <3>5, <4>1, <4>4 DEF Inv, PlanInv
      <4> QED
        BY <4>3, <4>4
    <3> QED
      BY <2>7, <3>1, <3>2, <3>3, <3>4, <3>5 DEF PlanInv
  <2>11. TypeInv'
    <3>1. loaded' \in BOOLEAN /\ partial' \in BOOLEAN
      BY <1>2, <2>2
    <3>2. Len(blocks') <= MaxBlocks
      BY <1>1, <2>1, <2>7, PlannerAssumption DEF PlannerAssumption
    <3> QED
      BY <1>1, <1>2, <2>7, <3>1, <3>2 DEF TypeInv, Inv
  <2>12. SpeedInv'
    <3>1. First(blocks) <= First(blocks') /\ First(blocks) \in Nat /\ First(blocks') \in Nat
      <4>1. blocks'[1].reach = blocks[1].reach /\ blocks[1].reach \in Nat
        BY <1>2, <2>1, <2>4, <2>7, BlockFacts
      <4>2. First(blocks') = blocks[1].reach + Braking(blocks')[2]
        <5>1. blocks' # << >> /\ Len(blocks') # 1
          BY <2>1, <2>7
        <5>2. First(blocks') = blocks'[1].reach + Braking(blocks')[2]
          BY <5>1, Zenon DEF First
        <5> QED
          BY <4>1, <5>2
      <4>3. 2 \in 2..(n + 1) /\ (n # 1 => 2 \in 2..n)
        <5>1. n \in Nat /\ 1 \in 1..n
          BY <2>1
        <5> HIDE DEF n
        <5> QED
          BY <5>1
      <4>4. Braking(blocks')[2] \in Nat
        BY <2>8, <4>3
      <4>5. CASE n = 1
        <5>1. First(blocks) = blocks[1].reach
          BY <1>5, <4>1, <4>5 DEF First
        <5> QED
          BY <4>1, <4>2, <4>4, <5>1
      <4>6. CASE n # 1
        <5>1. First(blocks) = blocks[1].reach + Braking(blocks)[2]
          BY <1>5, <4>6 DEF First
        <5>2. Braking(blocks)[2] <= Braking(blocks')[2] /\ Braking(blocks)[2] \in Nat
          BY <2>5, <2>8, <4>3, <4>6
        <5> QED
          BY <4>1, <4>2, <4>4, <5>1, <5>2
      <4> QED
        BY <4>5, <4>6
    <3>2. speed' <= First(blocks')
      BY <1>1, <1>2, <3>1 DEF Inv, SpeedInv
    <3>3. loaded' => loaded /\ blocks'[1].reach = blocks[1].reach
      <4>1. blocks'[1] = cs[1]
        BY <2>1, <2>7
      <4> QED
        BY <2>2, <2>3, <4>1
    <3>4. ~loaded' /\ ~partial' => ~loaded /\ ~partial
      BY <2>2
    <3>5. ~loaded => blocks'[1].entry = blocks[1].entry
      <4>1. blocks'[1] = cs[1]
        BY <2>1, <2>7
      <4> QED
        BY <2>3, <2>9, <4>1
    <3> QED
      BY <1>1, <1>5, <3>2, <3>3, <3>4, <3>5 DEF Inv, SpeedInv
  <2> QED
    BY <2>10, <2>11, <2>12 DEF Inv
<1> QED
  BY <1>4, <1>5

(* st_prep_buffer() takes up the block at the front.                       *)
LEMMA LoadInv == Inv /\ IInv' /\ Load => Inv'
<1> SUFFICES ASSUME Inv, IInv', Load PROVE Inv'
  OBVIOUS
<1> DEFINE n == Len(blocks)
<1>1. /\ n \in Nat \ {0} /\ blocks # << >> /\ ~loaded /\ 1 \in 1..n
      /\ blocks \in Seq(Block) /\ speed \in Nat /\ exit \in Nat
      /\ blocks[1] \in Block /\ blocks[1].entry \in Nat /\ blocks[1].reach \in Nat \ {0}
      /\ loaded' = TRUE /\ partial' = FALSE /\ planned' = planned /\ held' = held
      /\ partial \in BOOLEAN /\ held \in BOOLEAN
  BY InvFacts, BlockFacts DEF Load, Inv, TypeInv
<1>2. /\ speed' = IF partial THEN speed ELSE IF held THEN exit ELSE blocks[1].entry
      /\ speed' = speed
  BY <1>1 DEF Load, Inv, SpeedInv, PlanInv
<1>3. /\ n = 1 => First(blocks) = blocks[1].reach
      /\ n # 1 => /\ First(blocks) = blocks[1].reach + Braking(blocks)[2]
                  /\ Braking(blocks)[2] \in Nat /\ blocks[2].entry \in Nat
                  /\ 2 \in 2..n
  <2>1. n # 1 => 2 \in 2..n /\ 2 \in 1..n
    BY <1>1, SMTT(30)
  <2>2. n # 1 => Braking(blocks)[2] \in Nat /\ blocks[2].entry \in Nat
    BY <1>1, <2>1, BrakingIs, BlockFacts
  <2> QED
    BY <1>1, <2>1, <2>2 DEF First
<1>4. PICK c \in Block :
        /\ blocks' = WithFront(blocks, c)
        /\ c.reach = blocks[1].reach
        /\ ~(held /\ ~partial) => c = blocks[1]
  <2>1. CASE held /\ ~partial
    <3> DEFINE c == [blocks[1] EXCEPT !.entry = exit]
    <3>1. c \in Block /\ c.reach = blocks[1].reach
      BY <1>1, EntryChanged
    <3>2. blocks' = WithFront(blocks, c)
      BY <2>1 DEF Load, WithFront
    <3> HIDE DEF c
    <3> QED
      BY <2>1, <3>1, <3>2
  <2>2. CASE ~(held /\ ~partial)
    <3>1. blocks' = blocks
      BY <2>2 DEF Load
    <3>2. WithFront(blocks, blocks[1]) = blocks
      BY <1>1 DEF WithFront
    <3> QED
      BY <1>1, <2>2, <3>1, <3>2
  <2> QED
    BY <2>1, <2>2
<1>5. /\ blocks' \in Seq(Block) /\ Len(blocks') = n /\ blocks' # << >> /\ blocks'[1] = c
      /\ \A k \in 2..n : blocks'[k] = blocks[k] /\ Braking(blocks')[k] = Braking(blocks)[k]
      /\ \A s \in Nat : \A k \in 3..n : Follows(blocks', s, k) <=> Follows(blocks, s, k)
  BY <1>1, <1>4, FrontChanged, ZenonT(30)
<1>6. TypeInv'
  <2>1. exit' \in Nat
    <3>1. CASE ~held
      BY <1>1, <1>3, <3>1 DEF Load, ExitSpeed
    <3>2. CASE held
      BY <1>1, <1>2, <3>2 DEF Load
    <3> QED
      BY <3>1, <3>2
  <2> QED
    BY <1>1, <1>2, <1>5, <2>1 DEF TypeInv, Inv
<1>7. StartSpeed \in Nat /\ StartSpeed' = speed /\ (~held => StartSpeed = speed)
  BY <1>1, <1>2 DEF StartSpeed
<1>8. PlanInv'
  <2>1. ASSUME NEW k \in 2..n
        PROVE  /\ blocks'[k].entry <= Braking(blocks')[k]
               /\ k > 2 \/ ~held => Follows(blocks', StartSpeed', k)
    <3>1. blocks[k].entry <= Braking(blocks)[k]
      BY DEF Inv, PlanInv
    <3>2. CASE k > 2
      <4>1. k \in 3..n
        BY <1>1, <3>2
      <4>2. Follows(blocks, StartSpeed, k)
        BY <3>2 DEF Inv, PlanInv
      <4>3. Follows(blocks, StartSpeed', k)
        BY <4>1, <4>2 DEF Follows, Before
      <4> QED
        BY <1>2, <1>1, <1>5, <1>7, <3>1, <4>1, <4>3
    <3>3. CASE k = 2 /\ held
      BY <1>5, <3>1, <3>3
    <3>4. CASE k = 2 /\ ~held
      <4>1. Follows(blocks, StartSpeed, k)
        BY <3>4 DEF Inv, PlanInv
      <4>2. blocks'[1] = blocks[1] /\ blocks'[k] = blocks[k] /\ k - 1 = 1
        BY <1>1, <1>4, <1>5, <3>4
      <4> QED
        BY <1>5, <1>7, <3>1, <3>4, <4>1, <4>2 DEF Follows, Before
    <3> QED
      BY <3>2, <3>3, <3>4
  <2>2. planned' >= 2 => \/ blocks'[planned'].entry = blocks'[planned'].max
                         \/ blocks'[planned'].entry < Braking(blocks')[planned']
    <3>1. planned >= 2 => planned \in 2..n
      BY <1>1, InvFacts
    <3> QED
      BY <1>1, <1>5, <3>1 DEF Inv, PlanInv
  <2> QED
    BY <1>1, <1>5, <2>1, <2>2 DEF PlanInv
<1>9. SpeedInv'
  <2>1. speed' <= First(blocks')
    <3>1. First(blocks') = First(blocks)
      <4>1. n # 1 => Braking(blocks')[2] = Braking(blocks)[2]
        BY <1>3, <1>5
      <4>2. First(blocks') = blocks'[1].reach + IF n = 1 THEN 0 ELSE Braking(blocks')[2]
        BY <1>5, Zenon DEF First
      <4>3. First(blocks) = blocks[1].reach + IF n = 1 THEN 0 ELSE Braking(blocks)[2]
        BY <1>1, Zenon DEF First
      <4> QED
        BY <1>4, <1>5, <4>1, <4>2, <4>3
    <3> QED
      BY <1>2, <3>1 DEF Inv, SpeedInv
  <2>2. ~held => Dist(speed', exit') <= blocks'[1].reach
    <3> SUFFICES ASSUME ~held PROVE Dist(speed, exit') <= blocks[1].reach
      <4>1. speed' = speed /\ blocks'[1].reach = blocks[1].reach
        BY <1>2, <1>4, <1>5
      <4> QED
        BY <4>1
    <3>1. exit' = IF n > 1 THEN blocks[2].entry ELSE 0
      BY <1>1 DEF Load, ExitSpeed
    <3>2. speed <= First(blocks)
      BY DEF Inv, SpeedInv
    <3>3. CASE n = 1
      BY <1>1, <1>3, <3>1, <3>2, <3>3 DEF Dist
    <3>4. CASE n # 1
      <4>1. Follows(blocks, StartSpeed, 2)
        BY <1>3, <3>4 DEF Inv, PlanInv
      <4>2. blocks[2].entry = Least(Braking(blocks)[2], speed + blocks[1].reach)
        BY <1>7, <4>1 DEF Follows, Before
      <4> QED
        BY <1>1, <1>3, <3>1, <3>2, <3>4, <4>2 DEF Dist, Least
    <3> QED
      BY <3>3, <3>4
  <2>3. held => exit' = IF speed' > blocks'[1].reach THEN speed' - blocks'[1].reach ELSE 0
    BY <1>4, <1>5 DEF Load
  <2> QED
    BY <1>1, <2>1, <2>2, <2>3 DEF SpeedInv
<1> QED
  BY <1>6, <1>8, <1>9 DEF Inv

(* At the end of a block the plan goes on with the next one.               *)
LEMMA DiscardInv ==
  ASSUME Inv, blocks # << >>, loaded, Discard, ~held \/ blocks[1].reach <= speed,
         held' = held, exit' = exit,
         speed' = IF held THEN speed - blocks[1].reach ELSE exit
  PROVE  TypeInv' /\ PlanInv' /\ SpeedInv'
<1> DEFINE n == Len(blocks)
<1>1. /\ blocks' = Tail(blocks) /\ planned' = (IF planned = 1 THEN 1 ELSE planned - 1)
      /\ loaded' = FALSE /\ partial' = FALSE /\ ~partial
  BY DEF Discard, Inv, PlanInv
<1>2. /\ blocks \in Seq(Block) /\ n <= MaxBlocks /\ speed \in Nat /\ exit \in Nat
      /\ held \in BOOLEAN /\ blocks[1].reach \in Nat \ {0}
  BY InvFacts, BlockFacts DEF Inv, TypeInv
<1>3. /\ blocks' \in Seq(Block) /\ Len(blocks') = n - 1 /\ n \in Nat \ {0}
      /\ \A k \in 1..(n - 1) : blocks'[k] = blocks[k + 1]
      /\ \A k \in 2..(n - 1) : Braking(blocks')[k] = Braking(blocks)[k + 1]
  <2>1. Tail(blocks) \in Seq(Block) /\ Len(Tail(blocks)) = n - 1 /\ n \in Nat \ {0}
    BY <1>2
  <2>2. /\ \A k \in 1..Len(Tail(blocks)) : Tail(blocks)[k] = blocks[k + 1]
        /\ \A k \in 2..Len(Tail(blocks)) : Braking(Tail(blocks))[k] = Braking(blocks)[k + 1]
    BY <1>2, FrontGone, Zenon
  <2> QED
    BY <1>1, <2>1, <2>2
<1>4. TypeInv'
  <2>1. speed' \in Nat
    BY <1>2
  <2>2. n - 1 <= MaxBlocks
    BY <1>2, <1>3, PlannerAssumption DEF PlannerAssumption
  <2> QED
    BY <1>1, <1>2, <1>3, <2>1, <2>2 DEF TypeInv
<1>5. StartSpeed' = blocks'[1].entry
  BY <1>1 DEF StartSpeed
<1>6. PlanInv'
  <2>1. ASSUME NEW k \in 2..(n - 1)
        PROVE  blocks'[k].entry <= Braking(blocks')[k] /\ Follows(blocks', StartSpeed', k)
    <3>1. k + 1 \in 3..n /\ k + 1 \in 2..n /\ k + 1 > 2 /\ k \in 1..(n - 1) /\ k - 1 \in 1..(n - 1)
          /\ (k + 1) - 1 = k /\ (k - 1) + 1 = k /\ k + 1 # 2
      BY <1>3
    <3>2. blocks[k + 1].entry <= Braking(blocks)[k + 1] /\ Follows(blocks, StartSpeed, k + 1)
      BY <3>1 DEF Inv, PlanInv
    <3>3. blocks'[k] = blocks[k + 1] /\ blocks'[k - 1] = blocks[k]
      BY <1>3, <3>1
    <3>4. Before(blocks', StartSpeed', k) = blocks'[k - 1].entry
      BY <1>5 DEF Before
    <3>5. Before(blocks, StartSpeed, k + 1) = blocks[k].entry
      BY <3>1 DEF Before
    <3> QED
      BY <1>3, <3>1, <3>2, <3>3, <3>4, <3>5 DEF Follows
  <2>2. planned' >= 2 => \/ blocks'[planned'].entry = blocks'[planned'].max
                         \/ blocks'[planned'].entry < Braking(blocks')[planned']
    <3> SUFFICES ASSUME planned' >= 2
                 PROVE  \/ blocks'[planned'].entry = blocks'[planned'].max
                        \/ blocks'[planned'].entry < Braking(blocks')[planned']
      OBVIOUS
    <3>1. planned \in 1..n
      BY InvFacts
    <3>2. planned' = planned - 1 /\ planned' \in 2..(n - 1) /\ planned' \in 1..(n - 1)
          /\ planned' + 1 = planned /\ planned >= 2
      BY <1>1, <1>3, <3>1
    <3> QED
      BY <1>3, <3>2 DEF Inv, PlanInv
  <2> QED
    BY <1>1, <1>3, <2>1, <2>2 DEF PlanInv
<1>7. SpeedInv'
  <2>1. /\ n = 1 => First(blocks) = blocks[1].reach /\ First(blocks') = 0
        /\ n # 1 => /\ First(blocks) = blocks[1].reach + Braking(blocks)[2]
                    /\ Braking(blocks)[2] <= First(blocks')
                    /\ Braking(blocks)[2] \in Nat /\ First(blocks') \in Nat
                    /\ blocks[2].entry <= Braking(blocks)[2]
                    /\ blocks[2].entry \in Nat /\ blocks'[1] = blocks[2]
    <3>1. CASE n = 1
      <4>1. blocks' = << >>
        BY <1>3, <3>1
      <4> QED
        BY <1>2, <3>1, <4>1 DEF First
    <3>2. CASE n # 1
      <4>1. 2 \in 2..n /\ 2 \in 1..n /\ 1 \in 1..(n - 1)
        BY <1>3, <3>2
      <4>2. /\ blocks'[1] = blocks[2] /\ blocks[2].entry \in Nat /\ blocks[2].reach \in Nat
            /\ blocks[2].max \in Nat
        BY <1>2, <1>3, <4>1, BlockFacts
      <4>3. /\ Braking(blocks)[2] \in Nat
            /\ Braking(blocks)[2] = Least(blocks[2].max, blocks[2].reach
                                          + IF 2 = n THEN 0 ELSE Braking(blocks)[3])
        BY <1>2, <4>1, BrakingIs
      <4>4. n # 2 => Braking(blocks)[3] \in Nat /\ Braking(blocks')[2] = Braking(blocks)[3]
        <5>1. n # 2 => 3 \in 2..n /\ 2 \in 2..(n - 1) /\ 2 + 1 = 3
          BY <1>3, <3>2
        <5> QED
          BY <1>2, <1>3, <5>1, BrakingIs
      <4>5. First(blocks') = blocks[2].reach + IF n = 2 THEN 0 ELSE Braking(blocks)[3]
        <5>1. blocks' # << >> /\ (Len(blocks') = 1 <=> n = 2)
          BY <1>3, <3>2
        <5> QED
          BY <4>2, <4>4, <5>1 DEF First
      <4>6. Braking(blocks)[2] <= First(blocks') /\ First(blocks') \in Nat
        BY <4>2, <4>3, <4>4, <4>5 DEF Least
      <4>7. blocks[2].entry <= Braking(blocks)[2]
        BY <4>1 DEF Inv, PlanInv
      <4>8. First(blocks) = blocks[1].reach + Braking(blocks)[2]
        BY <3>2, Zenon DEF First
      <4> QED
        BY <3>2, <4>2, <4>3, <4>6, <4>7, <4>8
    <3> QED
      BY <3>1, <3>2
  <2>2. blocks' = << >> <=> n = 1
    BY <1>3
  <2>3. CASE ~held
    <3>1. exit = IF n > 1 THEN blocks[2].entry ELSE 0
      BY <2>3 DEF Inv, IInv, ExitFresh, ExitSpeed
    <3>2. speed' = exit /\ ~held' /\ exit' = exit
      BY <2>3
    <3>3. n = 1 => speed' <= First(blocks')
      BY <2>1, <3>1, <3>2
    <3>4. n # 1 => speed' <= First(blocks') /\ speed' = blocks'[1].entry
      BY <1>3, <2>1, <3>1, <3>2
    <3> QED
      BY <1>1, <2>2, <3>2, <3>3, <3>4 DEF SpeedInv
  <2>4. CASE held
    <3>1. speed' = speed - blocks[1].reach /\ blocks[1].reach <= speed /\ held' /\ exit' = exit
      BY <2>4
    <3>2. /\ exit = IF speed > blocks[1].reach THEN speed - blocks[1].reach ELSE 0
          /\ speed <= First(blocks)
      BY <2>4 DEF Inv, SpeedInv
    <3>3. speed' = exit'
      BY <1>2, <3>1, <3>2
    <3>4. speed' <= First(blocks')
      BY <1>2, <2>1, <3>1, <3>2
    <3> QED
      BY <1>1, <3>1, <3>3, <3>4 DEF SpeedInv
  <2> QED
    BY <1>2, <2>3, <2>4
<1> QED
  BY <1>4, <1>6, <1>7

LEMMA FirstChanged ==
  ASSUME NEW bs \in Seq(Block), bs # << >>, NEW b \in Block
  PROVE  /\ First(bs) \in Nat /\ First(WithFront(bs, b)) \in Nat
         /\ First(WithFront(bs, b)) + bs[1].reach = First(bs) + b.reach
<1> DEFINE cs == WithFront(bs, b)
           n == Len(bs)
<1>1. n \in Nat /\ 1 \in 1..n
  OBVIOUS
<1>2. bs[1].reach \in Nat /\ b.reach \in Nat
  BY <1>1, BlockFacts DEF Block
<1>3. /\ Len(cs) = n /\ cs # << >> /\ cs[1] = b
      /\ \A k \in 2..n : Braking(cs)[k] = Braking(bs)[k]
  BY FrontChanged
<1> HIDE DEF cs
<1>4. First(cs) = b.reach + IF n = 1 THEN 0 ELSE Braking(cs)[2]
  BY <1>3, Zenon DEF First
<1>5. First(bs) = bs[1].reach + IF n = 1 THEN 0 ELSE Braking(bs)[2]
  BY Zenon DEF First
<1>6. n # 1 => Braking(bs)[2] \in Nat /\ Braking(cs)[2] = Braking(bs)[2]
  <2> HIDE DEF n
  <2>1. n # 1 => 2 \in 2..n
    BY <1>1
  <2>2. Braking(bs) \in [2..n -> Nat]
    BY BrakingIs DEF n
  <2> QED
    BY <1>3, <2>1, <2>2
<1> QED
  BY <1>2, <1>4, <1>5, <1>6 DEF cs

LEMMA SpeedBetween ==
  ASSUME NEW e \in Nat, NEW b \in Nat, NEW r \in Nat, NEW d \in Nat, NEW s \in Nat,
         NEW v \in Nat, e = Least(b, s + r), Dist(v, s) <= d, Dist(v, e) <= r - d
  PROVE  Least(b, v + (r - d)) = e
<1>1. v <= s + d /\ e <= v + (r - d)
  BY DEF Dist
<1> QED
  BY <1>1 DEF Least

(* Inside a block the speed stays between what the distance covered allows *)
(* and what the distance left allows.                                      *)
LEMMA SegmentInv == Inv /\ IInv' /\ Segment => Inv'
<1> SUFFICES ASSUME Inv, IInv', Segment PROVE Inv'
  OBVIOUS
<1> DEFINE n == Len(blocks)
<1>1. /\ n \in Nat \ {0} /\ blocks # << >> /\ loaded /\ ~held /\ 1 \in 1..n
      /\ blocks \in Seq(Block) /\ n <= MaxBlocks /\ speed \in Nat /\ exit \in Nat
      /\ blocks[1] \in Block /\ blocks[1].reach \in Nat \ {0}
      /\ exit' = exit /\ held' = held /\ held \in BOOLEAN
      /\ partial \in BOOLEAN /\ ~partial
  BY InvFacts, BlockFacts DEF Segment, Inv, TypeInv, PlanInv
<1>2. PICK d \in 1..blocks[1].reach :
        IF d = blocks[1].reach
         THEN Discard /\ speed' = exit
         ELSE /\ speed' \in {v \in 0..(speed + d) :
                              /\ Dist(v, speed) <= d
                              /\ Dist(v, exit) <= blocks[1].reach - d}
              /\ blocks' = [blocks EXCEPT ![1].reach = @ - d]
              /\ UNCHANGED <<planned, loaded, partial>>
  BY DEF Segment
<1>3. CASE d = blocks[1].reach
  <2>1. Discard /\ speed' = (IF held THEN speed - blocks[1].reach ELSE exit)
    BY <1>1, <1>2, <1>3
  <2> QED
    BY <1>1, <2>1, DiscardInv DEF Inv
<1>4. CASE d # blocks[1].reach
  <2> DEFINE c == [blocks[1] EXCEPT !.reach = @ - d]
  <2>1. /\ speed' \in Nat /\ Dist(speed', speed) <= d
        /\ Dist(speed', exit) <= blocks[1].reach - d
        /\ blocks' = WithFront(blocks, c)
        /\ UNCHANGED <<planned, loaded, partial>>
    BY <1>1, <1>2, <1>4 DEF WithFront
  <2>2. c \in Block /\ c.reach = blocks[1].reach - d /\ d \in Nat \ {0} /\ c.reach \in Nat
    <3>1. blocks[1].reach - d \in Nat \ {0}
      BY <1>1, <1>4
    <3>2. c = [blocks[1] EXCEPT !.reach = blocks[1].reach - d]
      OBVIOUS
    <3> HIDE DEF c
    <3> QED
      BY <1>1, <3>1, <3>2, ReachChanged
  <2> HIDE DEF c
  <2>3. /\ blocks' \in Seq(Block) /\ Len(blocks') = n /\ blocks' # << >> /\ blocks'[1] = c
        /\ \A k \in 2..n : blocks'[k] = blocks[k] /\ Braking(blocks')[k] = Braking(blocks)[k]
        /\ \A s \in Nat : \A k \in 3..n : Follows(blocks', s, k) <=> Follows(blocks, s, k)
    BY <1>1, <2>1, <2>2, FrontChanged, ZenonT(30)
  <2>4. /\ First(blocks) \in Nat /\ First(blocks') \in Nat
        /\ First(blocks') + blocks[1].reach = First(blocks) + c.reach
    BY <1>1, <2>1, <2>2, FirstChanged
  <2>5. StartSpeed = speed /\ StartSpeed' = speed'
    BY <1>1, <2>1 DEF StartSpeed
  <2>6. /\ exit = IF n > 1 THEN blocks[2].entry ELSE 0
        /\ n = 1 => First(blocks) = blocks[1].reach
        /\ n # 1 => /\ First(blocks) = blocks[1].reach + Braking(blocks)[2]
                    /\ blocks[2].entry <= Braking(blocks)[2]
                    /\ blocks[2].entry = Least(Braking(blocks)[2], speed + blocks[1].reach)
                    /\ Braking(blocks)[2] \in Nat /\ blocks[2].entry \in Nat
                    /\ 2 \in 2..n
    <3>1. exit = IF n > 1 THEN blocks[2].entry ELSE 0
      BY <1>1 DEF Inv, IInv, ExitFresh, ExitSpeed
    <3>2. n = 1 => First(blocks) = blocks[1].reach
      BY <1>1, FirstIs
    <3>3. n # 1 => First(blocks) = blocks[1].reach + Braking(blocks)[2]
      BY <1>1, Zenon DEF First
    <3>4. ASSUME n # 1
          PROVE  /\ blocks[2].entry <= Braking(blocks)[2]
                 /\ blocks[2].entry = Least(Braking(blocks)[2], speed + blocks[1].reach)
                 /\ Braking(blocks)[2] \in Nat /\ blocks[2].entry \in Nat
                 /\ 2 \in 2..n
      <4>1. 2 \in 2..n /\ 2 \in 1..n
        <5> HIDE DEF n
        <5> QED
          BY <1>1, <3>4
      <4>2. Braking(blocks)[2] \in Nat /\ blocks[2].entry \in Nat
        BY <1>1, <4>1, BrakingIs, BlockFacts
      <4>3. blocks[2].entry <= Braking(blocks)[2] /\ Follows(blocks, StartSpeed, 2)
        BY <1>1, <4>1 DEF Inv, PlanInv
      <4> QED
        BY <2>5, <4>1, <4>2, <4>3 DEF Follows, Before
    <3> QED
      BY <3>1, <3>2, <3>3, <3>4
  <2>7. TypeInv'
    BY <1>1, <2>1, <2>3 DEF Inv, TypeInv
  <2>8. PlanInv'
    <3>1. ASSUME NEW k \in 2..n
          PROVE  blocks'[k].entry <= Braking(blocks')[k] /\ Follows(blocks', StartSpeed', k)
      <4>1. blocks[k].entry <= Braking(blocks)[k] /\ Follows(blocks, StartSpeed, k)
        BY <1>1 DEF Inv, PlanInv
      <4>2. CASE k > 2
        <5>1. k \in 3..n
          BY <1>1, <4>2
        <5>2. Follows(blocks, StartSpeed', k)
          BY <4>1, <5>1 DEF Follows, Before
        <5> QED
          BY <2>1, <2>3, <2>5, <4>1, <5>1, <5>2
      <4>3. CASE k = 2
        <5>1. n # 1 /\ n > 1
          <6> HIDE DEF n
          <6> QED
            BY <1>1, <4>3
        <5>2. Least(Braking(blocks)[2], speed' + c.reach) = blocks[2].entry
          <6>1. /\ blocks[2].entry \in Nat /\ Braking(blocks)[2] \in Nat
                /\ blocks[1].reach \in Nat /\ d \in Nat /\ speed \in Nat /\ speed' \in Nat
                /\ exit = blocks[2].entry /\ c.reach = blocks[1].reach - d
                /\ blocks[2].entry = Least(Braking(blocks)[2], speed + blocks[1].reach)
                /\ Dist(speed', speed) <= d /\ Dist(speed', exit) <= blocks[1].reach - d
            BY <1>1, <2>1, <2>2, <2>6, <5>1
          <6> QED
            BY <6>1, SpeedBetween
        <5>3. blocks'[2] = blocks[2] /\ Braking(blocks')[2] = Braking(blocks)[2] /\ 2 - 1 = 1
          BY <2>3, <4>3
        <5> QED
          BY <2>3, <2>5, <4>1, <4>3, <5>2, <5>3 DEF Follows, Before
      <4> QED
        BY <4>2, <4>3
    <3>2. planned' >= 2 => \/ blocks'[planned'].entry = blocks'[planned'].max
                           \/ blocks'[planned'].entry < Braking(blocks')[planned']
      <4>1. planned >= 2 => planned \in 2..n
        BY <1>1, InvFacts
      <4> QED
        BY <2>1, <2>3, <4>1 DEF Inv, PlanInv
    <3> QED
      BY <1>1, <2>1, <2>3, <3>1, <3>2 DEF PlanInv
  <2>9. SpeedInv'
    <3>1. speed' <= First(blocks')
      <4>1. exit <= First(blocks) - blocks[1].reach
        BY <1>1, <2>6
      <4>2. speed' <= exit + c.reach
        BY <1>1, <2>1, <2>2 DEF Dist
      <4> QED
        BY <1>1, <2>1, <2>2, <2>4, <4>1, <4>2
    <3>2. Dist(speed', exit') <= blocks'[1].reach
      BY <1>1, <2>1, <2>2, <2>3
    <3> QED
      BY <1>1, <2>1, <3>1, <3>2 DEF SpeedInv
  <2> QED
    BY <2>7, <2>8, <2>9 DEF Inv
<1> QED
  BY <1>3, <1>4

(* A hold begins: the front block is given the speed it is cut at.         *)
LEMMA HoldBeginInv == Inv /\ IInv' /\ HoldBegin => Inv'
<1> SUFFICES ASSUME Inv, IInv', HoldBegin PROVE Inv'
  OBVIOUS
<1> DEFINE n == Len(blocks)
<1>1. /\ n \in Nat /\ ~held /\ held' = TRUE /\ loaded' = FALSE
      /\ partial' = (loaded \/ partial) /\ planned' = planned
      /\ speed' = speed /\ exit' = exit
      /\ blocks \in Seq(Block) /\ n <= MaxBlocks /\ speed \in Nat /\ exit \in Nat
      /\ loaded \in BOOLEAN /\ partial \in BOOLEAN
  BY InvFacts DEF HoldBegin, NotifyStepper, Inv, TypeInv
<1>2. CASE ~loaded
  <2>1. blocks' = blocks /\ partial' = partial
    BY <1>1, <1>2 DEF HoldBegin, Updated
  <2>2. StartSpeed' = StartSpeed
    BY <1>1, <1>2, <2>1 DEF StartSpeed
  <2>3. TypeInv'
    BY <1>1, <2>1 DEF TypeInv
  <2>4. PlanInv'
    BY <1>1, <1>2, <2>1, <2>2 DEF Inv, PlanInv
  <2>5. SpeedInv'
    BY <1>1, <1>2, <2>1 DEF Inv, SpeedInv
  <2> QED
    BY <2>3, <2>4, <2>5 DEF Inv
<1>3. CASE loaded
  <2> DEFINE c == [blocks[1] EXCEPT !.entry = speed]
  <2>1. blocks # << >> /\ 1 \in 1..n /\ blocks[1] \in Block /\ blocks[1].reach \in Nat
    BY <1>1, <1>3, InvFacts, BlockFacts
  <2>2. c \in Block /\ c.reach = blocks[1].reach /\ c.entry = speed
    BY <1>1, <2>1, EntryChanged
  <2>3. blocks' = WithFront(blocks, c)
    BY <1>3 DEF HoldBegin, Updated, WithFront
  <2> HIDE DEF c
  <2>4. /\ blocks' \in Seq(Block) /\ Len(blocks') = n /\ blocks' # << >> /\ blocks'[1] = c
        /\ \A k \in 2..n : blocks'[k] = blocks[k] /\ Braking(blocks')[k] = Braking(blocks)[k]
        /\ \A s \in Nat : \A k \in 3..n : Follows(blocks', s, k) <=> Follows(blocks, s, k)
    BY <1>1, <2>1, <2>2, <2>3, FrontChanged
  <2>5. First(blocks) \in Nat /\ First(blocks') \in Nat /\ First(blocks') = First(blocks)
    <3>1. /\ First(blocks) \in Nat /\ First(blocks') \in Nat
          /\ First(blocks') + blocks[1].reach = First(blocks) + c.reach
      BY <1>1, <2>1, <2>2, <2>3, FirstChanged
    <3> QED
      BY <2>1, <2>2, <3>1
  <2>6. StartSpeed' = speed /\ StartSpeed = speed
    BY <1>1, <1>3 DEF StartSpeed
  <2>7. TypeInv'
    BY <1>1, <2>4 DEF TypeInv
  <2>8. PlanInv'
    <3>1. ASSUME NEW k \in 2..n
          PROVE  blocks'[k].entry <= Braking(blocks')[k] /\ Follows(blocks', StartSpeed', k)
      <4>1. blocks[k].entry <= Braking(blocks)[k] /\ Follows(blocks, speed, k)
        BY <1>1, <2>6 DEF Inv, PlanInv
      <4>2. CASE k > 2
        <5>1. k \in 3..n
          BY <1>1, <4>2
        <5> QED
          BY <1>1, <2>4, <2>6, <4>1, <5>1
      <4>3. CASE k = 2
        <5>1. 2 - 1 = 1 /\ blocks'[2] = blocks[2] /\ Braking(blocks')[2] = Braking(blocks)[2]
          BY <2>4, <4>3
        <5> QED
          BY <2>2, <2>4, <2>6, <4>1, <4>3, <5>1 DEF Follows, Before
      <4> QED
        BY <4>2, <4>3
    <3>2. planned' >= 2 => \/ blocks'[planned'].entry = blocks'[planned'].max
                           \/ blocks'[planned'].entry < Braking(blocks')[planned']
      <4>1. planned >= 2 => planned \in 2..n
        BY <1>1, <2>1, InvFacts
      <4> QED
        BY <1>1, <2>4, <4>1 DEF Inv, PlanInv
    <3> QED
      BY <1>1, <2>2, <2>4, <3>1, <3>2 DEF PlanInv
  <2>9. SpeedInv'
    BY <1>1, <1>3, <2>5 DEF Inv, SpeedInv
  <2> QED
    BY <2>7, <2>8, <2>9 DEF Inv
<1> QED
  BY <1>1, <1>2, <1>3

(* Braking in a hold, to the end of the block, to rest or neither.         *)
LEMMA HoldSegmentInv == Inv /\ IInv' /\ HoldSegment => Inv'
<1> SUFFICES ASSUME Inv, IInv', HoldSegment PROVE Inv'
  OBVIOUS
<1> DEFINE n == Len(blocks)
<1>1. /\ n \in Nat \ {0} /\ blocks # << >> /\ loaded /\ held /\ 1 \in 1..n
      /\ blocks \in Seq(Block) /\ n <= MaxBlocks /\ speed \in Nat /\ exit \in Nat
      /\ blocks[1] \in Block /\ blocks[1].reach \in Nat \ {0}
      /\ exit' = exit /\ held' = held
      /\ partial \in BOOLEAN /\ ~partial
  BY InvFacts, BlockFacts DEF HoldSegment, Inv, TypeInv, PlanInv
<1>2. PICK d \in 0..Least(speed, blocks[1].reach) :
        /\ speed' = speed - d
        /\ IF d = blocks[1].reach
             THEN Discard
             ELSE LET bs == [blocks EXCEPT ![1].reach = @ - d]
                  IN  IF speed' = 0
                        THEN Reinitialize(bs)
                        ELSE blocks' = bs /\ UNCHANGED <<planned, loaded, partial>>
  BY DEF HoldSegment
<1>3. d \in Nat /\ d <= speed /\ d <= blocks[1].reach /\ speed' \in Nat
  BY <1>1, <1>2 DEF Least
<1>4. CASE d = blocks[1].reach
  <2>1. /\ Discard /\ blocks[1].reach <= speed
        /\ speed' = (IF held THEN speed - blocks[1].reach ELSE exit)
    BY <1>1, <1>2, <1>3, <1>4
  <2> QED
    BY <1>1, <2>1, DiscardInv DEF Inv
<1>5. CASE d # blocks[1].reach
  <2> DEFINE b == [blocks[1] EXCEPT !.reach = @ - d]
             bs == WithFront(blocks, b)
  <2>1. b \in Block /\ b.reach = blocks[1].reach - d /\ b.reach \in Nat
    <3>1. blocks[1].reach - d \in Nat \ {0}
      BY <1>1, <1>3, <1>5
    <3>2. b = [blocks[1] EXCEPT !.reach = blocks[1].reach - d]
      OBVIOUS
    <3> HIDE DEF b
    <3> QED
      BY <1>1, <3>1, <3>2, ReachChanged
  <2>2. IF speed' = 0 THEN Reinitialize(bs)
                      ELSE blocks' = bs /\ UNCHANGED <<planned, loaded, partial>>
    BY <1>1, <1>2, <1>5 DEF WithFront
  <2> HIDE DEF b
  <2>3. /\ bs \in Seq(Block) /\ Len(bs) = n /\ bs # << >> /\ bs[1] = b
        /\ \A k \in 2..n : bs[k] = blocks[k] /\ Braking(bs)[k] = Braking(blocks)[k]
        /\ \A s \in Nat : \A k \in 3..n : Follows(bs, s, k) <=> Follows(blocks, s, k)
    BY <1>1, <2>1, FrontChanged
  <2>4. /\ First(blocks) \in Nat /\ First(bs) \in Nat
        /\ First(bs) + blocks[1].reach = First(blocks) + b.reach
    BY <1>1, <2>1, FirstChanged
  <2> HIDE DEF bs
  <2>5. ASSUME NEW k \in 2..n
        PROVE  /\ bs[k].entry <= Braking(bs)[k]
               /\ k > 2 => Follows(bs, StartSpeed, k)
    <3>1. blocks[k].entry <= Braking(blocks)[k] /\ (k > 2 => Follows(blocks, StartSpeed, k))
      BY DEF Inv, PlanInv
    <3>2. k > 2 => k \in 3..n
      BY <1>1
    <3>3. StartSpeed \in Nat
      BY <1>1 DEF StartSpeed
    <3> QED
      BY <2>3, <3>1, <3>2, <3>3
  <2>6. CASE speed' # 0
    <3>1. blocks' = bs /\ UNCHANGED <<planned, loaded, partial>>
      BY <2>2, <2>6
    <3>2. TypeInv'
      BY <1>1, <1>3, <2>3, <3>1 DEF Inv, TypeInv
    <3>3. PlanInv'
      <4>1. ASSUME NEW k \in 2..n, k > 2 PROVE Follows(blocks', StartSpeed', k)
        BY <2>5, <3>1, <4>1 DEF Follows, Before
      <4>2. planned' >= 2 => \/ blocks'[planned'].entry = blocks'[planned'].max
                             \/ blocks'[planned'].entry < Braking(blocks')[planned']
        <5>1. planned >= 2 => planned \in 2..n
          BY <1>1, InvFacts
        <5> QED
          BY <2>3, <3>1, <5>1 DEF Inv, PlanInv
      <4> QED
        BY <1>1, <2>3, <2>5, <3>1, <4>1, <4>2 DEF PlanInv
    <3>4. SpeedInv'
      <4>1. /\ speed <= First(blocks)
            /\ exit = IF speed > blocks[1].reach THEN speed - blocks[1].reach ELSE 0
        BY <1>1 DEF Inv, SpeedInv
      <4>2. speed' <= First(blocks')
        BY <1>1, <1>2, <1>3, <2>1, <2>4, <3>1, <4>1
      <4>3. exit' = IF speed' > blocks'[1].reach THEN speed' - blocks'[1].reach ELSE 0
        BY <1>1, <1>2, <1>3, <2>1, <2>3, <3>1, <4>1
      <4> QED
        BY <1>1, <3>1, <4>2, <4>3 DEF SpeedInv
    <3> QED
      BY <3>2, <3>3, <3>4 DEF Inv
  <2>7. CASE speed' = 0
    <3> DEFINE c == [b EXCEPT !.entry = 0]
               cs == WithFront(bs, c)
    <3>1. c \in Block /\ c.reach = b.reach /\ c.entry = 0
      BY <2>1, EntryChanged
    <3>2. cs = [bs EXCEPT ![1].entry = 0]
      BY <2>3 DEF WithFront
    <3> HIDE DEF c
    <3>3. /\ cs \in Seq(Block) /\ Len(cs) = n /\ cs # << >> /\ cs[1] = c
          /\ \A k \in 2..n : cs[k] = bs[k] /\ Braking(cs)[k] = Braking(bs)[k]
      BY <2>3, <3>1, FrontChanged
    <3> HIDE DEF cs
    <3>4. /\ blocks' = IF Len(cs) > 1 THEN Replanned(cs, 1) ELSE cs
          /\ planned' = IF Len(cs) > 1 THEN PlannedAfter(cs, 1) ELSE 1
          /\ loaded' = FALSE /\ partial' = TRUE
      BY <2>2, <2>7, <3>2 DEF Reinitialize
    <3>5. \A k \in (1 + 1)..Len(cs) : k # Len(cs) => cs[k].entry <= Braking(cs)[k]
      BY <1>1, <2>3, <2>5, <3>3
    <3>6. 1 \in 1..Len(cs)
      BY <1>1, <3>3
    <3>7. /\ Replanned(cs, 1) \in Seq(Block) /\ Len(Replanned(cs, 1)) = Len(cs)
          /\ \A k \in 1..Len(cs) : /\ Replanned(cs, 1)[k].max = cs[k].max
                                   /\ Replanned(cs, 1)[k].reach = cs[k].reach
                                   /\ k <= 1 => Replanned(cs, 1)[k] = cs[k]
          /\ \A k \in (1 + 1)..Len(cs) :
               Replanned(cs, 1)[k].entry =
                 Least(Braking(cs)[k], Replanned(cs, 1)[k - 1].entry + cs[k - 1].reach)
          /\ PlannedAfter(cs, 1) \in 1..Len(cs)
          /\ PlannedAfter(cs, 1) # 1 =>
               \/ Replanned(cs, 1)[PlannedAfter(cs, 1)].entry = cs[PlannedAfter(cs, 1)].max
               \/ Replanned(cs, 1)[PlannedAfter(cs, 1)].entry
                    < Braking(cs)[PlannedAfter(cs, 1)]
      BY <3>3, <3>5, <3>6, ReplanBest
    <3>8. /\ blocks' \in Seq(Block) /\ Len(blocks') = n /\ blocks' # << >> /\ blocks'[1] = c
          /\ \A k \in 1..n : blocks'[k].max = cs[k].max /\ blocks'[k].reach = cs[k].reach
          /\ \A k \in 2..n : blocks'[k].entry = Least(Braking(cs)[k], blocks'[k - 1].entry
                                                                      + cs[k - 1].reach)
          /\ planned' \in 1..n
          /\ planned' # 1 => \/ blocks'[planned'].entry = cs[planned'].max
                             \/ blocks'[planned'].entry < Braking(cs)[planned']
      <4>1. CASE n > 1
        <5>1. blocks' = Replanned(cs, 1) /\ planned' = PlannedAfter(cs, 1)
          BY <3>3, <3>4, <4>1
        <5>2. n # 0 /\ 1 <= 1 /\ 1 + 1 = 2
          BY <1>1
        <5> QED
          BY <1>1, <3>3, <3>6, <3>7, <5>1, <5>2
      <4>2. CASE ~(n > 1)
        <5>1. blocks' = cs /\ planned' = 1 /\ n = 1
          BY <1>1, <3>3, <3>4, <4>2
        <5> QED
          BY <1>1, <3>3, <5>1
      <4> QED
        BY <4>1, <4>2
    <3>9. \A k \in 2..n : /\ Braking(blocks')[k] = Braking(cs)[k] /\ Braking(cs)[k] \in Nat
                          /\ blocks'[k].reach \in Nat
      <4>1. \A k \in 2..Len(blocks') : Braking(blocks')[k] = Braking(cs)[k + 0]
        <5>1. Len(cs) = Len(blocks') + 0 /\ 0 \in {0, 1}
          BY <1>1, <3>3, <3>8
        <5>2. \A k \in 2..Len(blocks') : /\ blocks'[k].max = cs[k + 0].max
                                          /\ blocks'[k].reach = cs[k + 0].reach
          BY <1>1, <3>8
        <5> QED
          BY <3>3, <3>8, <5>1, <5>2, BrakingSame
      <4>2. \A k \in 2..n : k + 0 = k /\ k \in 1..n
        BY <1>1
      <4>3. \A k \in 2..n : Braking(cs)[k] \in Nat
        BY <3>3, BrakingIs
      <4>4. \A k \in 1..n : blocks'[k].reach \in Nat
        BY <3>8, BlockFacts
      <4> QED
        BY <3>8, <4>1, <4>2, <4>3, <4>4
    <3>10. StartSpeed' = 0
      BY <2>7, <3>4 DEF StartSpeed
    <3>11. TypeInv'
      BY <1>1, <1>3, <3>4, <3>8 DEF Inv, TypeInv
    <3>12. PlanInv'
      <4>1. ASSUME NEW k \in 2..n
            PROVE  /\ blocks'[k].entry <= Braking(blocks')[k]
                   /\ Follows(blocks', StartSpeed', k)
        <5>1. k \in 1..n /\ k - 1 \in 1..n
          BY <1>1
        <5>2. Before(blocks', StartSpeed', k) = blocks'[k - 1].entry
          BY <3>1, <3>8, <3>10, <5>1 DEF Before
        <5>3. blocks'[k - 1].reach = cs[k - 1].reach
          BY <3>8, <5>1
        <5>4. Follows(blocks', StartSpeed', k)
          BY <3>8, <3>9, <5>2, <5>3 DEF Follows
        <5>5. blocks'[k - 1].entry \in Nat /\ blocks'[k - 1].reach \in Nat
          BY <3>8, <5>1, BlockFacts
        <5> QED
          BY <3>9, <5>2, <5>4, <5>5, SMTT(30) DEF Follows, Least
      <4>2. planned' >= 2 => \/ blocks'[planned'].entry = blocks'[planned'].max
                             \/ blocks'[planned'].entry < Braking(blocks')[planned']
        <5>1. planned' >= 2 => planned' \in 2..n /\ planned' \in 1..n /\ planned' # 1
          BY <1>1, <3>8
        <5> QED
          BY <3>8, <3>9, <5>1
      <4> QED
        BY <2>7, <3>1, <3>4, <3>8, <4>1, <4>2 DEF PlanInv
    <3>13. SpeedInv'
      <4>1. First(blocks') \in Nat
        <5>1. WithFront(blocks', c) = blocks'
          BY <1>1, <3>8 DEF WithFront
        <5> QED
          BY <3>1, <3>8, <5>1, FirstChanged
      <4> QED
        BY <1>1, <2>7, <3>4, <4>1 DEF SpeedInv
    <3> QED
      BY <3>11, <3>12, <3>13 DEF Inv
  <2> QED
    BY <2>6, <2>7
<1> QED
  BY <1>4, <1>5

LEMMA InvNext == Inv /\ [Next]_vars => Inv'
<1> SUFFICES ASSUME Inv, [Next]_vars PROVE Inv'
  OBVIOUS
<1>1. IInv'
  BY NextInv DEF Inv
<1>2. CASE Resume
  <2>1. /\ UNCHANGED <<blocks, planned, loaded, partial, speed, exit>>
        /\ held /\ ~loaded /\ held' = FALSE
        /\ blocks # << >> => speed = 0 /\ (partial \/ blocks[1].entry = 0)
    BY <1>2 DEF Resume, stepper
  <2>2. StartSpeed' = StartSpeed
    BY <2>1 DEF StartSpeed
  <2>3. TypeInv' /\ PlanInv'
    BY <2>1, <2>2 DEF Inv, TypeInv, PlanInv
  <2>4. SpeedInv'
    BY <2>1 DEF Inv, SpeedInv
  <2> QED
    BY <1>1, <2>3, <2>4 DEF Inv
<1>3. CASE Reset
  <2>1. << >> \in Seq(Block) /\ Len(<< >>) = 0
    OBVIOUS
  <2>2. TypeInv'
    <3>1. blocks' \in Seq(Block) /\ Len(blocks') <= MaxBlocks
      BY <1>3, <2>1, PlannerAssumption DEF Reset, PlannerAssumption
    <3> QED
      BY <1>3, <3>1 DEF Reset, TypeInv
  <2>3. PlanInv' /\ SpeedInv'
    BY <1>3, <2>1 DEF Reset, PlanInv, SpeedInv, First
  <2> QED
    BY <1>1, <2>2, <2>3 DEF Inv
<1>4. CASE UNCHANGED vars
  <2>1. UNCHANGED <<blocks, planned, loaded, partial, speed, exit, held>>
    BY <1>4 DEF vars, stepper
  <2>2. StartSpeed' = StartSpeed
    BY <2>1 DEF StartSpeed
  <2> QED
    BY <1>1, <2>1, <2>2 DEF Inv, TypeInv, PlanInv, SpeedInv
<1> QED
  BY <1>1, <1>2, <1>3, <1>4, BufferLineInv, LoadInv, SegmentInv, HoldBeginInv, HoldSegmentInv
     DEF Next

-----------------------------------------------------------------------------
(* The distance still to go.                                               *)

LEMMA RestIs ==
  ASSUME NEW bs \in Seq(Block)
  PROVE  /\ Len(bs) \in Nat
         /\ \A k \in 1..(Len(bs) + 1) : Rest(bs)[k] \in Nat
         /\ \A k \in 1..Len(bs) : bs[k].reach \in Nat
                                  /\ Rest(bs)[k] = bs[k].reach + Rest(bs)[k + 1]
         /\ Rest(bs)[Len(bs) + 1] = 0
<1> DEFINE n == Len(bs)
           Is(f) == f = [k \in 1..(n + 1) |-> IF k > n THEN 0 ELSE bs[k].reach + f[k + 1]]
           y == [k \in Nat |-> IF k \in 1..n THEN bs[k].reach ELSE 0]
           step == [k \in Nat |-> [v \in Nat |-> IF k \in 1..n THEN y[k] + v ELSE 0]]
<1>1. n \in Nat /\ \A k \in 1..n : bs[k].reach \in Nat
  BY BlockFacts
<1>2. y \in [Nat -> Nat]
  BY <1>1
<1>3. step \in [Nat -> [Nat -> Nat]]
  BY <1>2
<1>4. /\ \A k \in 1..n, v \in Nat : step[k][v] = bs[k].reach + v
      /\ step[n + 1][0] = 0
  BY <1>1
<1> HIDE DEF step
<1>5. PICK f : IsBackward(f, step, 1, n + 1)
  <2>1. 1 \in Nat \ {0} /\ n + 1 \in Nat
    BY <1>1
  <2> HIDE DEF n
  <2> QED
    BY <2>1, <1>3, BackwardRecursion
<1>6. f = [k \in 1..(n + 1) |-> IF k = n + 1 THEN step[k][0] ELSE step[k][f[k + 1]]]
      /\ f \in [1..(n + 1) -> Nat]
  BY <1>5 DEF IsBackward
<1>7. \A k \in 1..(n + 1) : f[k] = IF k > n THEN 0 ELSE bs[k].reach + f[k + 1]
  <2> SUFFICES ASSUME NEW k \in 1..(n + 1)
               PROVE  f[k] = IF k > n THEN 0 ELSE bs[k].reach + f[k + 1]
    OBVIOUS
  <2> HIDE DEF n
  <2>1. CASE k = n + 1
    BY <1>1, <1>4, <1>6, <2>1
  <2>2. CASE k # n + 1
    <3>1. k \in 1..n /\ k + 1 \in 1..(n + 1) /\ ~(k > n)
      BY <1>1, <2>2
    <3> QED
      BY <1>4, <1>6, <2>2, <3>1
  <2> QED
    BY <2>1, <2>2
<1>8. Is(f)
  BY <1>6, <1>7
<1>9. Rest(bs) = CHOOSE g : Is(g)
  BY DEF Rest
<1>10. Is(Rest(bs))
  <2> HIDE DEF Is
  <2> QED
    BY <1>8, <1>9, Zenon
<1>11. \A k \in 1..(n + 1) : Rest(bs)[k] = IF k > n THEN 0 ELSE bs[k].reach + Rest(bs)[k + 1]
  BY <1>10
<1> HIDE DEF Is, n, y
<1>12. Rest(bs)[n + 1] = 0
  BY <1>1, <1>11
<1>13. \A k \in 1..n : Rest(bs)[k] = bs[k].reach + Rest(bs)[k + 1]
  BY <1>1, <1>11
<1>14. \A k \in 1..(n + 1) : Rest(bs)[k] \in Nat
  <2> DEFINE l == n + 1
             T == {k \in 1..l : Rest(bs)[k] \in Nat}
  <2>1. 1 <= l => l \in T
    BY <1>1, <1>12
  <2>2. \A k \in 1..(l - 1) : k + 1 \in T => k \in T
    BY <1>1, <1>13
  <2>3. 1 \in Nat \ {0} /\ l \in Nat
    BY <1>1
  <2>4. \A k \in 1..l : k \in T
    <3> HIDE DEF T, l
    <3> QED
      BY <2>1, <2>2, <2>3, BackwardInduction
  <2> QED
    BY <2>4
<1> QED
  BY <1>1, <1>12, <1>13, <1>14 DEF n

(* It is the same for the same distances, one block on or not.             *)
LEMMA RestSame ==
  ASSUME NEW bs \in Seq(Block), NEW cs \in Seq(Block), NEW s \in {0, 1}, NEW m \in {1, 2},
         Len(bs) = Len(cs) + s, m <= Len(cs) + 1,
         \A k \in m..Len(cs) : cs[k].reach = bs[k + s].reach
  PROVE  Rest(cs)[m] = Rest(bs)[m + s]
<1> DEFINE n == Len(cs)
           l == n + 1
           T == {k \in m..l : Rest(cs)[k] = Rest(bs)[k + s]}
<1>1. n \in Nat /\ m \in Nat \ {0} /\ l \in Nat /\ s \in Nat /\ m <= l
  BY RestIs
<1>2. /\ Rest(cs)[n + 1] = 0 /\ Rest(bs)[n + 1 + s] = 0
      /\ \A k \in 1..n : Rest(cs)[k] = cs[k].reach + Rest(cs)[k + 1]
      /\ \A k \in 1..(n + s) : Rest(bs)[k] = bs[k].reach + Rest(bs)[k + 1]
  <2>1. Len(bs) + 1 = n + 1 + s
    BY <1>1
  <2> QED
    BY <2>1, RestIs
<1>3. \A k \in m..n : cs[k].reach = bs[k + s].reach
  OBVIOUS
<1> HIDE DEF n
<1>4. m <= l => l \in T
  BY <1>1, <1>2
<1>5. \A k \in m..(l - 1) : k + 1 \in T => k \in T
  <2> SUFFICES ASSUME NEW k \in m..(l - 1), k + 1 \in T PROVE k \in T
    OBVIOUS
  <2>1. /\ k \in m..n /\ k \in 1..n /\ k + s \in 1..(n + s) /\ k + s + 1 = k + 1 + s
        /\ k \in m..l
    BY <1>1
  <2>2. Rest(cs)[k + 1] = Rest(bs)[k + 1 + s]
    OBVIOUS
  <2>3. Rest(cs)[k] = cs[k].reach + Rest(cs)[k + 1]
    BY <1>2, <2>1
  <2>4. Rest(bs)[k + s] = bs[k + s].reach + Rest(bs)[k + 1 + s]
    BY <1>2, <2>1
  <2> QED
    BY <1>3, <2>1, <2>2, <2>3, <2>4
<1>6. \A k \in m..l : k \in T
  <2> HIDE DEF T, l
  <2> QED
    BY <1>1, <1>4, <1>5, BackwardInduction
<1>7. m \in m..l
  BY <1>1
<1> QED
  BY <1>6, <1>7

LEMMA TravelDrops ==
  ASSUME NEW bs \in Seq(Block), NEW cs \in Seq(Block), bs # << >>, Len(cs) = Len(bs),
         NEW d \in Nat, cs[1].reach = bs[1].reach - d,
         \A k \in 2..Len(bs) : cs[k].reach = bs[k].reach
  PROVE  Travel(bs) - Travel(cs) = d
<1> DEFINE n == Len(bs)
<1>1. n \in Nat /\ 1 \in 1..n /\ 2 \in 1..(n + 1) /\ 2 <= n + 1
  <2>1. n \in Nat /\ n # 0
    OBVIOUS
  <2> HIDE DEF n
  <2> QED
    BY <2>1
<1>2. Rest(cs)[2] = Rest(bs)[2]
  <2>1. /\ Len(bs) = Len(cs) + 0 /\ 0 \in {0, 1} /\ 2 \in {1, 2} /\ 2 + 0 = 2
        /\ 2 <= Len(cs) + 1 /\ \A k \in 2..Len(cs) : cs[k].reach = bs[k + 0].reach
    BY <1>1
  <2>2. Rest(cs)[2] = Rest(bs)[2 + 0]
    BY <2>1, RestSame
  <2> QED
    BY <2>1, <2>2
<1>3. /\ Rest(bs)[1] = bs[1].reach + Rest(bs)[1 + 1]
      /\ Rest(cs)[1] = cs[1].reach + Rest(cs)[1 + 1]
      /\ bs[1].reach \in Nat /\ Rest(bs)[2] \in Nat
  BY <1>1, RestIs
<1> QED
  BY <1>2, <1>3 DEF Travel

LEMMA TravelTail ==
  ASSUME NEW bs \in Seq(Block), bs # << >>, NEW cs, cs = Tail(bs)
  PROVE  Travel(bs) - Travel(cs) = bs[1].reach
<1>1. /\ cs \in Seq(Block) /\ Len(cs) = Len(bs) - 1 /\ Len(bs) \in Nat \ {0}
      /\ \A k \in 1..Len(cs) : cs[k] = bs[k + 1]
  BY FrontGone
<1>2. Rest(cs)[1] = Rest(bs)[2]
  <2>1. /\ Len(bs) = Len(cs) + 1 /\ 1 \in {0, 1} /\ 1 \in {1, 2} /\ 1 + 1 = 2
        /\ 1 <= Len(cs) + 1 /\ \A k \in 1..Len(cs) : cs[k].reach = bs[k + 1].reach
    BY <1>1
  <2>2. Rest(cs)[1] = Rest(bs)[1 + 1]
    BY <1>1, <2>1, RestSame
  <2> QED
    BY <2>1, <2>2
<1>3. /\ Rest(bs)[1] = bs[1].reach + Rest(bs)[1 + 1]
      /\ bs[1].reach \in Nat /\ Rest(bs)[2] \in Nat
  <2>1. 1 \in 1..Len(bs) /\ 2 \in 1..(Len(bs) + 1)
    BY <1>1
  <2> QED
    BY <2>1, RestIs
<1> QED
  BY <1>2, <1>3 DEF Travel

(* The machine can only brake over the distance there is.                  *)
LEMMA FirstFits ==
  ASSUME NEW bs \in Seq(Block)
  PROVE  First(bs) \in Nat /\ Travel(bs) \in Nat /\ First(bs) <= Travel(bs)
<1> DEFINE n == Len(bs)
           T == {k \in 2..n : Braking(bs)[k] <= Rest(bs)[k]}
<1>1. /\ n \in Nat /\ (bs = << >> <=> n = 0)
      /\ \A k \in 1..(n + 1) : Rest(bs)[k] \in Nat
      /\ \A k \in 1..n : bs[k].reach \in Nat /\ Rest(bs)[k] = bs[k].reach + Rest(bs)[k + 1]
      /\ Rest(bs)[n + 1] = 0
  BY RestIs
<1>2. /\ \A k \in 2..n : Braking(bs)[k] \in Nat
      /\ \A k \in 2..n : Braking(bs)[k] = Least(bs[k].max, bs[k].reach + IF k = n THEN 0
                                                                   ELSE Braking(bs)[k + 1])
      /\ \A k \in 1..n : bs[k].max \in Nat
  BY BrakingIs, BlockFacts
<1>3. First(bs) = IF n = 0 THEN 0 ELSE bs[1].reach + IF n = 1 THEN 0 ELSE Braking(bs)[2]
  BY <1>1, Zenon DEF First
<1>4. Travel(bs) = Rest(bs)[1]
  BY DEF Travel
<1> HIDE DEF n
<1>5. 2 <= n => n \in T
  <2> SUFFICES ASSUME 2 <= n PROVE n \in T
    OBVIOUS
  <2>1. n \in 2..n /\ n \in 1..n
    BY <1>1
  <2>2. /\ Braking(bs)[n] = Least(bs[n].max, bs[n].reach + 0)
        /\ Rest(bs)[n] = bs[n].reach + Rest(bs)[n + 1]
        /\ bs[n].reach \in Nat /\ bs[n].max \in Nat
    BY <1>1, <1>2, <2>1
  <2> QED
    BY <1>1, <2>1, <2>2 DEF Least
<1>6. ASSUME NEW k \in 2..(n - 1), k + 1 \in T PROVE k \in T
  <2>1. k \in 2..n /\ k \in 1..n /\ k + 1 \in 2..n /\ k # n /\ k + 1 \in 1..(n + 1)
    BY <1>1
  <2>2. Braking(bs)[k + 1] <= Rest(bs)[k + 1]
    BY <1>6
  <2>3. /\ Braking(bs)[k] = Least(bs[k].max, bs[k].reach + Braking(bs)[k + 1])
        /\ Rest(bs)[k] = bs[k].reach + Rest(bs)[k + 1]
        /\ bs[k].reach \in Nat /\ bs[k].max \in Nat /\ Rest(bs)[k + 1] \in Nat
        /\ Braking(bs)[k + 1] \in Nat
    BY <1>1, <1>2, <2>1
  <2> QED
    BY <2>1, <2>2, <2>3 DEF Least
<1>7. \A k \in 2..n : k \in T
  <2>1. 2 \in Nat \ {0}
    OBVIOUS
  <2> HIDE DEF T
  <2> QED
    BY <1>1, <1>5, <1>6, <2>1, BackwardInduction
<1>8. CASE n = 0
  BY <1>1, <1>3, <1>4, <1>8
<1>9. CASE n = 1
  BY <1>1, <1>3, <1>4, <1>9
<1>10. CASE n > 1
  <2>1. 2 \in 2..n /\ 1 \in 1..n /\ 2 \in 1..(n + 1)
    BY <1>1, <1>10
  <2>2. Braking(bs)[2] <= Rest(bs)[2] /\ Braking(bs)[2] \in Nat /\ Rest(bs)[2] \in Nat
    BY <1>1, <1>2, <1>7, <2>1
  <2>3. Rest(bs)[1] = bs[1].reach + Rest(bs)[2] /\ bs[1].reach \in Nat
    BY <1>1, <2>1
  <2> QED
    BY <1>3, <1>4, <1>10, <2>2, <2>3
<1> QED
  BY <1>1, <1>8, <1>9, <1>10

-----------------------------------------------------------------------------
LEMMA InvIsInvariant == Spec => []Inv
BY InvInit, InvNext, PTL DEF Spec

LEMMA InvTypeOK == Inv => TypeOK
<1> SUFFICES ASSUME Inv PROVE TypeOK
  OBVIOUS
<1>1. /\ blocks \in Seq(Block) /\ Len(blocks) <= MaxBlocks /\ Len(blocks) \in Nat
      /\ speed \in Nat /\ exit \in Nat
      /\ loaded \in BOOLEAN /\ partial \in BOOLEAN /\ held \in BOOLEAN
      /\ loaded => blocks # << >>
  BY InvFacts DEF Inv, TypeInv, IInv
<1>2. planned \in 1..(Len(blocks) + 1) /\ (planned <= Len(blocks) \/ blocks = << >>)
  BY InvFacts
<1>3. ASSUME NEW k \in 1..Len(blocks)
      PROVE  /\ blocks[k].max \in MaxEntries \cup {0}
             /\ blocks[k].reach \in Nat \ {0} /\ blocks[k].entry \in Nat
             /\ k > 1 => blocks[k].entry <= blocks[k].max
  <2>1. /\ blocks[k].max \in MaxEntries \cup {0} /\ blocks[k].max \in Nat
        /\ blocks[k].reach \in Nat \ {0} /\ blocks[k].entry \in Nat
    BY <1>1, BlockFacts
  <2>2. ASSUME k > 1 PROVE blocks[k].entry <= blocks[k].max
    <3>1. k \in 2..Len(blocks) /\ (k # Len(blocks) => k + 1 \in 2..Len(blocks))
      BY <1>1, <2>2
    <3>2. /\ Braking(blocks)[k] = Least(blocks[k].max, blocks[k].reach
                                   + IF k = Len(blocks) THEN 0 ELSE Braking(blocks)[k + 1])
          /\ k # Len(blocks) => Braking(blocks)[k + 1] \in Nat
      BY <1>1, <3>1, BrakingIs
    <3>3. blocks[k].entry <= Braking(blocks)[k]
      BY <3>1 DEF Inv, PlanInv
    <3> QED
      BY <2>1, <3>2, <3>3 DEF Least
  <2> QED
    BY <2>1, <2>2
<1> QED
  BY <1>1, <1>2, <1>3 DEF TypeOK

(* Blocks, speeds and flags keep their types, and no entry speed is above  *)
(* the maximum of its junction.                                            *)
THEOREM Types == Spec => []TypeOK
BY InvIsInvariant, InvTypeOK, PTL

(* When every entry speed follows from the one before it, the plan is the  *)
(* one a recomputation of all blocks gives.                                *)
LEMMA InvPlanIsBest == Inv => PlanIsBest
<1> SUFFICES ASSUME Inv, ~held PROVE \A k \in 2..Len(blocks) : blocks[k].entry = BestPlan[k]
  BY DEF PlanIsBest
<1> DEFINE n == Len(blocks)
           Is(f) == f = [k \in 1..n |->
                           IF k = 1 THEN StartSpeed
                           ELSE Least(Braking(blocks)[k], f[k - 1] + blocks[k - 1].reach)]
           g == [k \in 1..n |-> IF k = 1 THEN StartSpeed ELSE blocks[k].entry]
           T == {k \in 1..n : BestPlan[k] = g[k]}
<1>1. n \in Nat /\ blocks \in Seq(Block)
  BY InvFacts DEF Inv, TypeInv
<1>2. \A k \in 2..n : g[k] = Least(Braking(blocks)[k], g[k - 1] + blocks[k - 1].reach)
  <2> SUFFICES ASSUME NEW k \in 2..n
               PROVE  g[k] = Least(Braking(blocks)[k], g[k - 1] + blocks[k - 1].reach)
    OBVIOUS
  <2>1. Follows(blocks, StartSpeed, k)
    BY DEF Inv, PlanInv
  <2>2. k \in 1..n /\ k - 1 \in 1..n /\ k # 1 /\ (k - 1 = 1 <=> k = 2)
    BY <1>1
  <2>3. g[k] = blocks[k].entry /\ g[k - 1] = Before(blocks, StartSpeed, k)
    BY <2>2 DEF Before
  <2> HIDE DEF g
  <2> QED
    BY <2>1, <2>3 DEF Follows
<1>3. Is(g)
  <2>1. ASSUME NEW k \in 1..n
        PROVE  g[k] = IF k = 1 THEN StartSpeed
                      ELSE Least(Braking(blocks)[k], g[k - 1] + blocks[k - 1].reach)
    <3>1. CASE k = 1
      BY <3>1
    <3>2. CASE k # 1
      <4>1. k \in 2..n
        BY <1>1, <3>2
      <4> HIDE DEF g
      <4> QED
        BY <1>2, <3>2, <4>1
    <3> QED
      BY <3>1, <3>2
  <2>2. g = [k \in 1..n |-> g[k]]
    OBVIOUS
  <2> HIDE DEF g
  <2> QED
    BY <2>1, <2>2
<1>4. BestPlan = CHOOSE f : Is(f)
  BY DEF BestPlan
<1>5. Is(BestPlan)
  <2> HIDE DEF Is
  <2> QED
    BY <1>3, <1>4, Zenon
<1>6. \A k \in 1..n : BestPlan[k] = IF k = 1 THEN StartSpeed
                        ELSE Least(Braking(blocks)[k], BestPlan[k - 1] + blocks[k - 1].reach)
  BY <1>5
<1>7. 1 <= n => 1 \in T
  BY <1>1, <1>6
<1>8. \A k \in (1 + 1)..n : k - 1 \in T => k \in T
  <2> HIDE DEF g, Is
  <2> SUFFICES ASSUME NEW k \in (1 + 1)..n, k - 1 \in T PROVE k \in T
    OBVIOUS
  <2>1. k \in 2..n /\ k \in 1..n /\ k # 1
    BY <1>1
  <2>2. BestPlan[k] = Least(Braking(blocks)[k], BestPlan[k - 1] + blocks[k - 1].reach)
    BY <1>6, <2>1
  <2> QED
    BY <1>2, <2>1, <2>2
<1>9. \A k \in 1..n : k \in T
  <2>1. 1 \in Nat \ {0}
    OBVIOUS
  <2> HIDE DEF T, n
  <2> QED
    BY <1>1, <1>7, <1>8, <2>1, ForwardInduction
<1>10. \A k \in 2..n : k \in 1..n /\ k # 1
  BY <1>1
<1> QED
  BY <1>9, <1>10

(* A plan that is only ever recomputed from the planned pointer on, and    *)
(* whose front block is executed under it, is the best there is.           *)
THEOREM PlanIsBestTheorem == Spec => []PlanIsBest
BY InvIsInvariant, InvPlanIsBest, PTL

(* A feed hold comes to rest before the queued motion ends.                *)
THEOREM HoldFitsTheorem == Spec => []HoldFits
<1>1. Inv => HoldFits
  <2> SUFFICES ASSUME Inv, held PROVE speed <= Travel(blocks)
    BY DEF HoldFits
  <2>1. blocks \in Seq(Block) /\ speed \in Nat /\ speed <= First(blocks)
    BY DEF Inv, TypeInv, SpeedInv
  <2>2. First(blocks) \in Nat /\ Travel(blocks) \in Nat /\ First(blocks) <= Travel(blocks)
    BY <2>1, FirstFits
  <2> QED
    BY <2>1, <2>2
<1> QED
  BY <1>1, InvIsInvariant, PTL

(* Taking up a block never changes the speed.                              *)
LEMMA LoadSpeed == Inv /\ Load => speed' = speed
  BY DEF Load, Inv, TypeInv, SpeedInv, PlanInv

LEMMA ChangeBounded ==
  Inv /\ Inv' /\ [Next]_vars =>
    Reset \/ speed' = speed \/ Dist(speed, speed') <= Travel(blocks) - Travel(blocks')
<1> SUFFICES ASSUME Inv, Inv', [Next]_vars, ~Reset, speed' # speed
             PROVE  Dist(speed, speed') <= Travel(blocks) - Travel(blocks')
  OBVIOUS
<1> DEFINE n == Len(blocks)
<1>1. Segment \/ HoldSegment
  BY LoadSpeed DEF Next, vars, stepper, BufferLine, HoldBegin, Resume
<1>2. /\ n \in Nat \ {0} /\ blocks # << >> /\ loaded /\ 1 \in 1..n
      /\ blocks \in Seq(Block) /\ speed \in Nat /\ exit \in Nat
      /\ blocks[1] \in Block /\ blocks[1].reach \in Nat \ {0}
      /\ DOMAIN blocks[1] = {"max", "reach", "entry"}
  <2>1. loaded
    BY <1>1 DEF Segment, HoldSegment
  <2> QED
    BY <2>1, InvFacts, BlockFacts DEF Inv, TypeInv
<1>3. blocks' \in Seq(Block) /\ speed' \in Nat
  BY DEF Inv, TypeInv
<1>4. ASSUME Discard PROVE Travel(blocks) - Travel(blocks') = blocks[1].reach
  BY <1>2, <1>4, TravelTail DEF Discard
<1>5. ASSUME NEW d \in Nat, blocks' = [blocks EXCEPT ![1].reach = @ - d]
      PROVE  Travel(blocks) - Travel(blocks') = d
  <2>1. /\ Len(blocks') = n /\ blocks'[1].reach = blocks[1].reach - d
        /\ \A k \in 2..n : blocks'[k].reach = blocks[k].reach
    BY <1>2, <1>5
  <2> QED
    BY <1>2, <1>3, <2>1, TravelDrops
<1>6. CASE Segment
  <2>1. PICK d \in 1..blocks[1].reach :
          IF d = blocks[1].reach
           THEN Discard /\ speed' = exit
           ELSE /\ speed' \in {v \in 0..(speed + d) :
                                /\ Dist(v, speed) <= d
                                /\ Dist(v, exit) <= blocks[1].reach - d}
                /\ blocks' = [blocks EXCEPT ![1].reach = @ - d]
    BY <1>6 DEF Segment
  <2>2. CASE d = blocks[1].reach
    <3>1. Dist(speed, exit) <= blocks[1].reach
      BY <1>2, <1>6 DEF Segment, Inv, SpeedInv
    <3> QED
      BY <1>4, <2>1, <2>2, <3>1
  <2>3. CASE d # blocks[1].reach
    <3>1. d \in Nat /\ Dist(speed', speed) <= d /\ Travel(blocks) - Travel(blocks') = d
      BY <1>2, <1>5, <2>1, <2>3
    <3>2. Dist(speed, speed') = Dist(speed', speed)
      BY <1>2, <1>3 DEF Dist
    <3> QED
      BY <3>1, <3>2
  <2> QED
    BY <2>2, <2>3
<1>7. CASE HoldSegment
  <2>1. PICK d \in 0..Least(speed, blocks[1].reach) :
          /\ speed' = speed - d
          /\ IF d = blocks[1].reach
               THEN Discard
               ELSE LET bs == [blocks EXCEPT ![1].reach = @ - d]
                    IN  Reinitialize(bs) \/ blocks' = bs
    BY <1>7 DEF HoldSegment
  <2>2. d \in Nat /\ d <= speed /\ Dist(speed, speed') = d
    BY <1>2, <2>1 DEF Least, Dist
  <2>3. CASE d = blocks[1].reach
    <3>1. Travel(blocks) - Travel(blocks') = d
      BY <1>4, <2>1, <2>3
    <3> QED
      BY <2>2, <3>1
  <2>4. CASE d # blocks[1].reach /\ blocks' = [blocks EXCEPT ![1].reach = @ - d]
    <3>1. Travel(blocks) - Travel(blocks') = d
      BY <1>5, <2>2, <2>4
    <3> QED
      BY <2>2, <3>1
  <2>5. CASE Reinitialize([blocks EXCEPT ![1].reach = @ - d])
    <3> DEFINE b == [blocks[1] EXCEPT !.reach = @ - d]
               c == [b EXCEPT !.entry = 0]
               cs == [blocks EXCEPT ![1] = c]
    <3>1. cs = [[blocks EXCEPT ![1].reach = @ - d] EXCEPT ![1].entry = 0]
      BY <1>2
    <3>2. c.reach = blocks[1].reach - d
      BY <1>2
    <3>3. blocks' = IF Len(cs) > 1 THEN Replanned(cs, 1) ELSE cs
      BY <2>5, <3>1 DEF Reinitialize
    <3> HIDE DEF c
    <3>4. /\ Len(cs) = n /\ cs[1] = c /\ \A k \in 2..n : cs[k] = blocks[k]
      BY <1>2
    <3> HIDE DEF cs
    <3>5. /\ Len(blocks') = n /\ blocks'[1].reach = blocks[1].reach - d
          /\ \A k \in 2..n : blocks'[k].reach = blocks[k].reach
      <4>1. CASE n > 1
        <5>1. blocks' = [k \in 1..n |-> IF k > 1
                           THEN [cs[k] EXCEPT !.entry = Forward(cs, 1)[k]] ELSE cs[k]]
          BY <3>3, <3>4, <4>1 DEF Replanned
        <5>2. Len(blocks') = n /\ blocks'[1] = cs[1]
          BY <1>2, <1>3, <5>1
        <5>3. ASSUME NEW k \in 2..n PROVE blocks'[k].reach = blocks[k].reach
          <6>1. k \in 1..n /\ k > 1
            BY <1>2
          <6>2. DOMAIN blocks[k] = {"max", "reach", "entry"} /\ cs[k] = blocks[k]
            BY <1>2, <3>4, <6>1, BlockFacts
          <6>3. blocks'[k] = [blocks[k] EXCEPT !.entry = Forward(cs, 1)[k]]
            BY <5>1, <6>1, <6>2
          <6> QED
            BY <6>2, <6>3
        <5> QED
          BY <3>2, <3>4, <5>2, <5>3
      <4>2. CASE ~(n > 1)
        <5>1. blocks' = cs
          BY <3>3, <3>4, <4>2
        <5> QED
          BY <3>2, <3>4, <5>1
      <4> QED
        BY <4>1, <4>2
    <3>6. Travel(blocks) - Travel(blocks') = d
      BY <1>2, <1>3, <2>2, <3>5, TravelDrops
    <3> QED
      BY <2>2, <3>6
  <2> QED
    BY <2>1, <2>3, <2>4, <2>5
<1> QED
  BY <1>1, <1>6, <1>7

(* The speed never changes by more than the distance covered allows.       *)
THEOREM NoJumpTheorem == Spec => NoJump
<1>1. Inv /\ [Next]_vars =>
        [Reset \/ speed' = speed
         \/ Dist(speed, speed') <= Travel(blocks) - Travel(blocks')]_vars
  BY InvNext, ChangeBounded
<1> QED
  BY <1>1, InvIsInvariant, PTL DEF Spec, NoJump
=============================================================================
