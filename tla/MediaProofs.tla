---------------------------- MODULE MediaProofs -----------------------------
(***************************************************************************)
(* The sprite engine and the song engine, each by itself; both fold over   *)
(* data of any length.                                                     *)
(* Sprites, for every number of slots, every cap and budget and every set  *)
(* of poses. What is on the screen is not inductive: Phased says what the  *)
(* DMA list and the decoder's list will have made of VRAM by the VBlank    *)
(* (Tiled), and that no id of the frame's table is taken again (Kept).     *)
(* Song, for every set of modules, any queue and any budget. Players says  *)
(* what the queue and the voices' records may be (each program told to the *)
(* Z80, or told by a message that waits), Playable where the next row is,  *)
(* and OnTime what the count of ticks since the last row is.               *)
(* A pose, a row, a packet is a fold: UpTo is the induction along it, and  *)
(* the lemmas whose names end in Steps or Stays say that the model's folds *)
(* are their steps in order, or stay in a set that each step keeps.        *)
(***************************************************************************)
EXTENDS Sprites, Song, WellFoundedInduction, TLAPS

-----------------------------------------------------------------------------
(* Induction up to n, over a set of numbers.                               *)
LEMMA UpTo ==
  ASSUME NEW n \in Nat, NEW S, 0 \in S,
         \A k \in 0..(n - 1) : k \in S => k + 1 \in S
  PROVE  \A k \in 0..n : k \in S
<1> SUFFICES ASSUME NEW m \in 0..n, m \notin S PROVE FALSE
  OBVIOUS
<1> DEFINE T == {k \in 0..n : k \notin S}
<1>1. T \subseteq Nat /\ m \in T
  OBVIOUS
<1>2. \E x \in T : \A y \in T : <<y, x>> \notin OpToRel(<, Nat)
  BY <1>1, NatLessThanWellFounded, WFMin
<1>3. PICK x \in T : \A y \in T : <<y, x>> \notin OpToRel(<, Nat)
  BY <1>2
<1> DEFINE R == {ss \in Nat \X Nat : ss[1] < ss[2]}
<1>4. OpToRel(<, Nat) = R
  BY DEF OpToRel
<1>5. x \in 0..n /\ x \notin S /\ x # 0
  BY <1>3
<1>6. x - 1 \in 0..(n - 1)
  BY <1>5
<1>7. x - 1 \notin S
  <2>1. (x - 1) + 1 = x
    BY <1>5
  <2>2. QED
    BY <1>5, <1>6, <2>1
<1>8. x - 1 \in T
  BY <1>5, <1>6, <1>7
<1>9. <<x - 1, x>> \in R
  BY <1>5, <1>6
<1>10. QED
  BY <1>3, <1>4, <1>8, <1>9

(* The last of a set of positions.                                         *)
LEMMA LastOf ==
  ASSUME NEW n \in Nat, NEW s \in SUBSET (1..n), s # {}
  PROVE  Max(s) \in s /\ \A y \in s : y <= Max(s)
<1> DEFINE S == {k \in 0..n : k + 1 \in 1..n =>
                   \A t \in SUBSET (1..(k + 1)) : t # {} =>
                     \E x \in t : \A y \in t : y <= x}
<1>1. 0 \in S
  <2>1. SUFFICES ASSUME NEW t \in SUBSET (1..(0 + 1)), t # {}
                 PROVE  \E x \in t : \A y \in t : y <= x
    OBVIOUS
  <2>2. t = {1}
    <3>1. \A y \in t : y \in 1..(0 + 1)
      BY <2>1
    <3>2. \A y \in t : y = 1
      BY <3>1
    <3>3. QED
      BY <2>1, <3>2
  <2>3. QED
    BY <2>2
<1>2. ASSUME NEW k \in 0..(n - 1), k \in S PROVE k + 1 \in S
  <2>1. SUFFICES ASSUME k + 2 \in 1..n, NEW t \in SUBSET (1..(k + 2)), t # {}
                 PROVE  \E x \in t : \A y \in t : y <= x
    BY <1>2
  <2>2. CASE k + 2 \in t
    BY <2>1, <2>2
  <2>3. CASE k + 2 \notin t
    <3>1. t \in SUBSET (1..(k + 1)) /\ k + 1 \in 1..n
      BY <2>1, <2>3
    <3>2. QED
      BY <1>2, <2>1, <3>1
  <2>4. QED
    BY <2>2, <2>3
<1>3. \A k \in 0..n : k \in S
  <2> HIDE DEF S
  <2>1. QED
    BY <1>1, <1>2, UpTo
<1>4. n - 1 \in 0..n /\ (n - 1) + 1 \in 1..n /\ (n - 1) + 1 = n
  <2>1. PICK x \in s : TRUE
    OBVIOUS
  <2>2. x \in 1..n
    BY <2>1
  <2>3. QED
    BY <2>2
<1>5. \E x \in s : \A y \in s : y <= x
  BY <1>3, <1>4
<1>6. \E x \in s : \A y \in s : x >= y
  BY <1>5
<1>7. Max(s) \in s /\ \A y \in s : Max(s) >= y
  BY <1>6 DEF Max
<1>8. QED
  BY <1>7

(* A fold from the left exists for every step function: the library's      *)
(* recursion over the sets of positions has a solution.                    *)
Folds(it, F, a, n, q) ==
  \A s \in SUBSET (1..n) :
    it[s] = IF s = {} THEN a ELSE F[<<it[s \ {Max(s)}], q[Max(s)]>>]

LEMMA FoldExists ==
  ASSUME NEW A, NEW E, NEW F \in [A \X E -> A], NEW a \in A,
         NEW n \in Nat, NEW q \in [1..n -> E]
  PROVE  \E it \in [SUBSET (1..n) -> A] : Folds(it, F, a, n, q)
<1> DEFINE Good(k, g) == \A s \in SUBSET (1..k) :
             g[s] = IF s = {} THEN a ELSE F[<<g[s \ {Max(s)}], q[Max(s)]>>]
           S == {k \in 0..n : \E g \in [SUBSET (1..k) -> A] : Good(k, g)}
<1>1. 0 \in S
  <2> DEFINE g == [s \in SUBSET (1..0) |-> a]
  <2>1. g \in [SUBSET (1..0) -> A] /\ Good(0, g)
    OBVIOUS
  <2> HIDE DEF g, Good
  <2>2. \E x \in [SUBSET (1..0) -> A] : Good(0, x)
    BY <2>1
  <2>3. 0 \in 0..n
    OBVIOUS
  <2>4. QED
    BY <2>2, <2>3
<1>2. ASSUME NEW k \in 0..(n - 1), k \in S PROVE k + 1 \in S
  <2>1. PICK g \in [SUBSET (1..k) -> A] : Good(k, g)
    BY <1>2
  <2> DEFINE h == [s \in SUBSET (1..(k + 1)) |->
                     IF k + 1 \in s THEN F[<<g[s \ {k + 1}], q[k + 1]>>]
                     ELSE g[s]]
  <2>2. k + 1 \in 1..n
    OBVIOUS
  <2>3. \A s \in SUBSET (1..(k + 1)) : s \ {k + 1} \in SUBSET (1..k)
    OBVIOUS
  <2>4. \A s \in SUBSET (1..(k + 1)) : h[s] \in A
    <3>1. SUFFICES ASSUME NEW s \in SUBSET (1..(k + 1)) PROVE h[s] \in A
      OBVIOUS
    <3>2. g[s \ {k + 1}] \in A /\ q[k + 1] \in E
      BY <2>2, <2>3
    <3>3. F[<<g[s \ {k + 1}], q[k + 1]>>] \in A
      BY <3>2
    <3>4. k + 1 \notin s => s \in SUBSET (1..k)
      BY <2>3
    <3>5. QED
      BY <3>3, <3>4
  <2>5. h \in [SUBSET (1..(k + 1)) -> A]
    BY <2>4
  <2>6. Good(k + 1, h)
    <3>1. SUFFICES ASSUME NEW s \in SUBSET (1..(k + 1))
                   PROVE  h[s] = IF s = {} THEN a
                                 ELSE F[<<h[s \ {Max(s)}], q[Max(s)]>>]
      OBVIOUS
    <3>2. CASE k + 1 \in s
      <4>1. Max(s) = k + 1
        <5>1. k + 1 \in Nat /\ s \in SUBSET (1..(k + 1)) /\ s # {}
          BY <3>2
        <5>2. Max(s) \in s /\ \A y \in s : y <= Max(s)
          BY <5>1, LastOf
        <5>3. Max(s) \in 1..(k + 1) /\ k + 1 <= Max(s)
          BY <3>2, <5>2
        <5>4. QED
          BY <5>3
      <4>2. /\ s \ {k + 1} \in SUBSET (1..(k + 1)) /\ k + 1 \notin s \ {k + 1}
        OBVIOUS
      <4>3. h[s \ {k + 1}] = g[s \ {k + 1}]
        BY <4>2
      <4>4. h[s] = F[<<g[s \ {k + 1}], q[k + 1]>>]
        BY <3>2
      <4>5. QED
        BY <3>2, <4>1, <4>3, <4>4
    <3>3. CASE k + 1 \notin s
      <4>1. s \in SUBSET (1..k) /\ h[s] = g[s]
        BY <2>3, <3>3
      <4>2. CASE s = {}
        BY <2>1, <4>1, <4>2
      <4>3. CASE s # {}
        <5>0. k \in Nat
          OBVIOUS
        <5>1. Max(s) \in s
          BY <5>0, <4>1, <4>3, LastOf
        <5>2. s \ {Max(s)} \in SUBSET (1..(k + 1)) /\ k + 1 \notin s \ {Max(s)}
          BY <3>3
        <5>3. h[s \ {Max(s)}] = g[s \ {Max(s)}]
          BY <5>2
        <5>4. g[s] = F[<<g[s \ {Max(s)}], q[Max(s)]>>]
          BY <2>1, <4>1, <4>3
        <5>5. QED
          BY <4>1, <4>3, <5>3, <5>4
      <4>4. QED
        BY <4>2, <4>3
    <3>4. QED
      BY <3>2, <3>3
  <2> HIDE DEF h, Good
  <2>7. \E x \in [SUBSET (1..(k + 1)) -> A] : Good(k + 1, x)
    BY <2>5, <2>6
  <2>8. k + 1 \in 0..n
    OBVIOUS
  <2>9. QED
    BY <2>7, <2>8
<1>3. \A k \in 0..n : k \in S
  <2> HIDE DEF S
  <2>1. QED
    BY <1>1, <1>2, UpTo
<1>4. n \in S
  <2>1. n \in 0..n
    OBVIOUS
  <2>2. QED
    BY <1>3, <2>1
<1>5. QED
  BY <1>4 DEF Folds

LEMMA PrefixMax ==
  ASSUME NEW k \in Nat, k > 0
  PROVE  Max(1..k) = k /\ (1..k) \ {k} = 1..(k - 1)
<1>1. 1..k \in SUBSET (1..k) /\ 1..k # {} /\ k \in 1..k
  OBVIOUS
<1> DEFINE s == 1..k
<1>2. s \in SUBSET (1..k) /\ s # {} /\ k \in s
  BY <1>1
<1>3. Max(s) \in s /\ \A y \in s : y <= Max(s)
  <2> HIDE DEF s
  <2>1. QED
    BY <1>2, LastOf
<1>4. Max(s) \in 1..k /\ k <= Max(s)
  BY <1>2, <1>3
<1>5. Max(1..k) = k
  BY <1>4
<1>6. QED
  BY <1>5

(* The values along the prefixes of any recursion over the positions whose *)
(* step H agrees with F.                                                   *)
Recurs(it, H, a, n) == it = [s \in SUBSET (1..n) |-> IF s = {} THEN a ELSE H[s]]
Agrees(it, H, F, A, n, q) ==
  \A s \in SUBSET (1..n) : s # {} /\ it[s \ {Max(s)}] \in A =>
    H[s] = F[<<it[s \ {Max(s)}], q[Max(s)]>>]
Walk(acc, F, a, n, q) ==
  acc[0] = a /\ \A k \in 1..n : acc[k] = F[<<acc[k - 1], q[k]>>]

Walked(it, F, A, a, n, q) ==
  \E acc \in [0..n -> A] : Walk(acc, F, a, n, q) /\ it[1..n] = acc[n]

LEMMA PrefixValues ==
  ASSUME NEW A, NEW E, NEW a \in A, NEW n \in Nat, NEW q \in [1..n -> E],
         NEW F \in [A \X E -> A], NEW it, NEW H,
         Recurs(it, H, a, n), Agrees(it, H, F, A, n, q)
  PROVE  Walked(it, F, A, a, n, q)
<1> DEFINE acc == [k \in 0..n |-> it[1..k]]
           S == {k \in 0..n : it[1..k] \in A}
<1>1. it[1..0] = a
  <2>1. 1..0 = {} /\ {} \in SUBSET (1..n)
    OBVIOUS
  <2>2. QED
    BY <2>1 DEF Recurs
<1>2. ASSUME NEW k \in 1..n, it[1..(k - 1)] \in A
      PROVE  it[1..k] = F[<<it[1..(k - 1)], q[k]>>] /\ it[1..k] \in A
  <2>1. Max(1..k) = k /\ (1..k) \ {k} = 1..(k - 1)
    BY <1>2, PrefixMax
  <2>2. 1..k \in SUBSET (1..n) /\ 1..k # {}
    <3>1. k \in 1..k /\ 1..k \in SUBSET (1..n)
      BY <1>2
    <3>2. QED
      BY <3>1
  <2>3. it[1..k] = H[1..k]
    BY <2>2 DEF Recurs
  <2>4. H[1..k] = F[<<it[1..(k - 1)], q[k]>>]
    BY <1>2, <2>1, <2>2 DEF Agrees
  <2>5. QED
    BY <1>2, <2>3, <2>4
<1>3. \A k \in 0..n : k \in S
  <2>1. 0 \in S
    BY <1>1
  <2>2. ASSUME NEW k \in 0..(n - 1), k \in S PROVE k + 1 \in S
    <3>1. k + 1 \in 1..n /\ (k + 1) - 1 = k /\ k + 1 \in 0..n
      BY <2>2
    <3>2. it[1..(k + 1)] \in A
      BY <1>2, <2>2, <3>1
    <3>3. QED
      BY <3>1, <3>2
  <2> HIDE DEF S
  <2>3. QED
    BY <2>1, <2>2, UpTo
<1>4. acc \in [0..n -> A] /\ acc[0] = a /\ acc[n] = it[1..n]
  BY <1>1, <1>3
<1>5. \A k \in 1..n : acc[k] = F[<<acc[k - 1], q[k]>>]
  <2>1. SUFFICES ASSUME NEW k \in 1..n PROVE acc[k] = F[<<acc[k - 1], q[k]>>]
    OBVIOUS
  <2>2. k \in 0..n /\ k - 1 \in 0..n
    OBVIOUS
  <2>3. acc[k] = it[1..k] /\ acc[k - 1] = it[1..(k - 1)] /\ it[1..(k - 1)] \in A
    BY <1>3, <2>2
  <2>4. QED
    BY <1>2, <2>3
<1>6. acc \in [0..n -> A] /\ Walk(acc, F, a, n, q) /\ it[1..n] = acc[n]
  <2> HIDE DEF acc
  <2>1. QED
    BY <1>4, <1>5 DEF Walk
<1> HIDE DEF acc
<1>7. QED
  BY <1>6 DEF Walked

(* The three folds of the model.                                           *)
DrawAll(a, q) == FoldLeft(DrawPiece, a, q)
LoadAll(a, q) == FoldLeft(LoadPiece, a, q)
(* One slot of a list's build, from slot n down.                           *)
Listed(ids, l, i) == IF i \in ids THEN Append(l, i) ELSE l
ListAll(ids, a, q) == FoldLeft(LAMBDA l, i : Listed(ids, l, i), a, q)

(* The fold of the draw loop over a pose: its values along the sequence. *)
LEMMA DrawSteps ==
  ASSUME NEW A, NEW a \in A, NEW q \in Seq(Blocks),
         \A d \in A, b \in Blocks : DrawPiece(d, b) \in A
  PROVE  \E acc \in [0..Len(q) -> A] :
           /\ acc[0] = a
           /\ \A k \in 1..Len(q) : acc[k] = DrawPiece(acc[k - 1], q[k])
           /\ DrawAll(a, q) = acc[Len(q)]
<1> DEFINE n == Len(q)
           F == [x \in A \X Blocks |-> DrawPiece(x[1], x[2])]
           Step(it, s) == IF s = {} THEN a ELSE DrawPiece(it[s \ {Max(s)}], q[Max(s)])
           iter == CHOOSE it : it = [s \in SUBSET DOMAIN q |-> Step(it, s)]
<1>1. n \in Nat /\ DOMAIN q = 1..n /\ q \in [1..n -> Blocks]
  OBVIOUS
<1>2. F \in [A \X Blocks -> A]
  OBVIOUS
<1>3. PICK it \in [SUBSET (1..n) -> A] : Folds(it, F, a, n, q)
  <2> HIDE DEF F, n
  <2>1. QED
    BY <1>1, <1>2, FoldExists
<1>4. \A s \in SUBSET (1..n) : it[s] = Step(it, s)
  <2>1. SUFFICES ASSUME NEW s \in SUBSET (1..n), s # {} PROVE it[s] = Step(it, s)
    BY <1>3 DEF Folds
  <2>2. Max(s) \in 1..n
    BY <1>1, <2>1, LastOf
  <2>3. it[s \ {Max(s)}] \in A /\ q[Max(s)] \in Blocks
    BY <1>1, <2>2
  <2>4. QED
    BY <1>3, <2>1, <2>3 DEF Folds
<1>5. it = [s \in SUBSET DOMAIN q |-> Step(it, s)]
  <2> HIDE DEF Step, n, F
  <2>1. QED
    BY <1>1, <1>3, <1>4
<1>6. iter = [s \in SUBSET DOMAIN q |-> Step(iter, s)]
  <2> HIDE DEF Step, n, F
  <2>1. QED
    BY <1>5
<1>7. DrawAll(a, q) = iter[DOMAIN q]
  BY Zenon DEF FoldLeft, MapThenFoldSet, DrawAll
<1> HIDE DEF iter, F
<1> DEFINE acc == [k \in 0..n |-> iter[1..k]]
<1>8. iter[1..0] = a
  <2>1. 1..0 = {} /\ {} \in SUBSET DOMAIN q
    OBVIOUS
  <2>2. QED
    BY <1>6, <2>1
<1>9. \A k \in 1..n : iter[1..k] = DrawPiece(iter[1..(k - 1)], q[k])
  <2>1. SUFFICES ASSUME NEW k \in 1..n PROVE iter[1..k] = DrawPiece(iter[1..(k - 1)], q[k])
    OBVIOUS
  <2>2. Max(1..k) = k /\ (1..k) \ {k} = 1..(k - 1)
    BY <1>1, <2>1, PrefixMax
  <2>3. 1..k \in SUBSET DOMAIN q /\ 1..k # {}
    <3>1. k \in 1..k /\ 1..k \in SUBSET (1..n)
      BY <1>1, <2>1
    <3>2. QED
      BY <1>1, <3>1
  <2>4. iter[1..k] = Step(iter, 1..k)
    <3> HIDE DEF Step
    <3>1. QED
      BY <1>6, <2>3
  <2>5. QED
    BY <2>2, <2>3, <2>4
<1>10. \A k \in 0..n : iter[1..k] \in A
  <2> DEFINE S == {k \in 0..n : iter[1..k] \in A}
  <2>1. 0 \in S
    BY <1>1, <1>8
  <2>2. ASSUME NEW k \in 0..(n - 1), k \in S PROVE k + 1 \in S
    <3>1. k + 1 \in 1..n /\ (k + 1) - 1 = k
      BY <1>1, <2>2
    <3>2. iter[1..(k + 1)] = DrawPiece(iter[1..k], q[k + 1])
      BY <1>9, <3>1
    <3>3. iter[1..k] \in A /\ q[k + 1] \in Blocks
      BY <1>1, <2>2, <3>1
    <3>4. k + 1 \in 0..n
      BY <1>1, <3>1
    <3>5. QED
      BY <3>2, <3>3, <3>4
  <2>3. \A k \in 0..n : k \in S
    <3> HIDE DEF S
    <3>1. QED
      BY <1>1, <2>1, <2>2, UpTo
  <2>4. QED
    BY <2>3
<1>11. acc \in [0..n -> A] /\ acc[0] = a /\ acc[n] = iter[1..n]
  BY <1>1, <1>8, <1>10
<1>12. \A k \in 1..n : acc[k] = DrawPiece(acc[k - 1], q[k])
  <2>1. SUFFICES ASSUME NEW k \in 1..n PROVE acc[k] = DrawPiece(acc[k - 1], q[k])
    OBVIOUS
  <2>2. k \in 0..n /\ k - 1 \in 0..n
    BY <1>1, <2>1
  <2>3. acc[k] = iter[1..k] /\ acc[k - 1] = iter[1..(k - 1)]
    BY <2>2
  <2>4. QED
    BY <1>9, <2>1, <2>3
<1>13. QED
  BY <1>1, <1>7, <1>11, <1>12

(* The fold of the pre-load pass over a pose: its values along the sequence. *)
LEMMA LoadSteps ==
  ASSUME NEW A, NEW a \in A, NEW q \in Seq(Blocks),
         \A d \in A, b \in Blocks : LoadPiece(d, b) \in A
  PROVE  \E acc \in [0..Len(q) -> A] :
           /\ acc[0] = a
           /\ \A k \in 1..Len(q) : acc[k] = LoadPiece(acc[k - 1], q[k])
           /\ LoadAll(a, q) = acc[Len(q)]
<1> DEFINE n == Len(q)
           F == [x \in A \X Blocks |-> LoadPiece(x[1], x[2])]
           Step(it, s) == IF s = {} THEN a ELSE LoadPiece(it[s \ {Max(s)}], q[Max(s)])
           iter == CHOOSE it : it = [s \in SUBSET DOMAIN q |-> Step(it, s)]
<1>1. n \in Nat /\ DOMAIN q = 1..n /\ q \in [1..n -> Blocks]
  OBVIOUS
<1>2. F \in [A \X Blocks -> A]
  OBVIOUS
<1>3. PICK it \in [SUBSET (1..n) -> A] : Folds(it, F, a, n, q)
  <2> HIDE DEF F, n
  <2>1. QED
    BY <1>1, <1>2, FoldExists
<1>4. \A s \in SUBSET (1..n) : it[s] = Step(it, s)
  <2>1. SUFFICES ASSUME NEW s \in SUBSET (1..n), s # {} PROVE it[s] = Step(it, s)
    BY <1>3 DEF Folds
  <2>2. Max(s) \in 1..n
    BY <1>1, <2>1, LastOf
  <2>3. it[s \ {Max(s)}] \in A /\ q[Max(s)] \in Blocks
    BY <1>1, <2>2
  <2>4. QED
    BY <1>3, <2>1, <2>3 DEF Folds
<1>5. it = [s \in SUBSET DOMAIN q |-> Step(it, s)]
  <2> HIDE DEF Step, n, F
  <2>1. QED
    BY <1>1, <1>3, <1>4
<1>6. iter = [s \in SUBSET DOMAIN q |-> Step(iter, s)]
  <2> HIDE DEF Step, n, F
  <2>1. QED
    BY <1>5
<1>7. LoadAll(a, q) = iter[DOMAIN q]
  BY Zenon DEF FoldLeft, MapThenFoldSet, LoadAll
<1> HIDE DEF iter, F
<1> DEFINE acc == [k \in 0..n |-> iter[1..k]]
<1>8. iter[1..0] = a
  <2>1. 1..0 = {} /\ {} \in SUBSET DOMAIN q
    OBVIOUS
  <2>2. QED
    BY <1>6, <2>1
<1>9. \A k \in 1..n : iter[1..k] = LoadPiece(iter[1..(k - 1)], q[k])
  <2>1. SUFFICES ASSUME NEW k \in 1..n PROVE iter[1..k] = LoadPiece(iter[1..(k - 1)], q[k])
    OBVIOUS
  <2>2. Max(1..k) = k /\ (1..k) \ {k} = 1..(k - 1)
    BY <1>1, <2>1, PrefixMax
  <2>3. 1..k \in SUBSET DOMAIN q /\ 1..k # {}
    <3>1. k \in 1..k /\ 1..k \in SUBSET (1..n)
      BY <1>1, <2>1
    <3>2. QED
      BY <1>1, <3>1
  <2>4. iter[1..k] = Step(iter, 1..k)
    <3> HIDE DEF Step
    <3>1. QED
      BY <1>6, <2>3
  <2>5. QED
    BY <2>2, <2>3, <2>4
<1>10. \A k \in 0..n : iter[1..k] \in A
  <2> DEFINE S == {k \in 0..n : iter[1..k] \in A}
  <2>1. 0 \in S
    BY <1>1, <1>8
  <2>2. ASSUME NEW k \in 0..(n - 1), k \in S PROVE k + 1 \in S
    <3>1. k + 1 \in 1..n /\ (k + 1) - 1 = k
      BY <1>1, <2>2
    <3>2. iter[1..(k + 1)] = LoadPiece(iter[1..k], q[k + 1])
      BY <1>9, <3>1
    <3>3. iter[1..k] \in A /\ q[k + 1] \in Blocks
      BY <1>1, <2>2, <3>1
    <3>4. k + 1 \in 0..n
      BY <1>1, <3>1
    <3>5. QED
      BY <3>2, <3>3, <3>4
  <2>3. \A k \in 0..n : k \in S
    <3> HIDE DEF S
    <3>1. QED
      BY <1>1, <2>1, <2>2, UpTo
  <2>4. QED
    BY <2>3
<1>11. acc \in [0..n -> A] /\ acc[0] = a /\ acc[n] = iter[1..n]
  BY <1>1, <1>8, <1>10
<1>12. \A k \in 1..n : acc[k] = LoadPiece(acc[k - 1], q[k])
  <2>1. SUFFICES ASSUME NEW k \in 1..n PROVE acc[k] = LoadPiece(acc[k - 1], q[k])
    OBVIOUS
  <2>2. k \in 0..n /\ k - 1 \in 0..n
    BY <1>1, <2>1
  <2>3. acc[k] = iter[1..k] /\ acc[k - 1] = iter[1..(k - 1)]
    BY <2>2
  <2>4. QED
    BY <1>9, <2>1, <2>3
<1>13. QED
  BY <1>1, <1>7, <1>11, <1>12

(* The lists of a build, slot by slot.                                     *)
ListRun(ids, a, q, acc) ==
  /\ acc[0] = a
  /\ \A k \in 1..Len(q) : acc[k] = Listed(ids, acc[k - 1], q[k])
  /\ ListAll(ids, a, q) = acc[Len(q)]
ListClosed(ids, A) == \A l \in A, i \in Ids : Listed(ids, l, i) \in A

(* The fold of the build of a list: its values along the sequence. *)
LEMMA ListSteps ==
  ASSUME NEW ids, NEW A, NEW a \in A, NEW q \in Seq(Ids),
         ListClosed(ids, A)
  PROVE  \E acc \in [0..Len(q) -> A] : ListRun(ids, a, q, acc)
<1> DEFINE n == Len(q)
           F == [x \in A \X Ids |-> Listed(ids, x[1], x[2])]
           Step(it, s) == IF s = {} THEN a ELSE Listed(ids, it[s \ {Max(s)}], q[Max(s)])
           iter == CHOOSE it : it = [s \in SUBSET DOMAIN q |-> Step(it, s)]
<1>1. n \in Nat /\ DOMAIN q = 1..n /\ q \in [1..n -> Ids]
  OBVIOUS
<1>2. F \in [A \X Ids -> A]
  BY DEF ListClosed
<1>3. PICK it \in [SUBSET (1..n) -> A] : Folds(it, F, a, n, q)
  <2> HIDE DEF F, n
  <2>1. QED
    BY <1>1, <1>2, FoldExists
<1>4. \A s \in SUBSET (1..n) : it[s] = Step(it, s)
  <2>1. SUFFICES ASSUME NEW s \in SUBSET (1..n), s # {} PROVE it[s] = Step(it, s)
    BY <1>3 DEF Folds
  <2>2. Max(s) \in 1..n
    BY <1>1, <2>1, LastOf
  <2>3. it[s \ {Max(s)}] \in A /\ q[Max(s)] \in Ids
    BY <1>1, <2>2
  <2>4. QED
    BY <1>3, <2>1, <2>3 DEF Folds
<1>5. it = [s \in SUBSET DOMAIN q |-> Step(it, s)]
  <2> HIDE DEF Step, n, F
  <2>1. QED
    BY <1>1, <1>3, <1>4
<1>6. iter = [s \in SUBSET DOMAIN q |-> Step(iter, s)]
  <2> HIDE DEF Step, n, F
  <2>1. QED
    BY <1>5
<1>7. ListAll(ids, a, q) = iter[DOMAIN q]
  BY Zenon DEF FoldLeft, MapThenFoldSet, ListAll
<1> HIDE DEF iter, F
<1> DEFINE acc == [k \in 0..n |-> iter[1..k]]
<1>8. iter[1..0] = a
  <2>1. 1..0 = {} /\ {} \in SUBSET DOMAIN q
    OBVIOUS
  <2>2. QED
    BY <1>6, <2>1
<1>9. \A k \in 1..n : iter[1..k] = Listed(ids, iter[1..(k - 1)], q[k])
  <2>1. SUFFICES ASSUME NEW k \in 1..n PROVE iter[1..k] = Listed(ids, iter[1..(k - 1)], q[k])
    OBVIOUS
  <2>2. Max(1..k) = k /\ (1..k) \ {k} = 1..(k - 1)
    BY <1>1, <2>1, PrefixMax
  <2>3. 1..k \in SUBSET DOMAIN q /\ 1..k # {}
    <3>1. k \in 1..k /\ 1..k \in SUBSET (1..n)
      BY <1>1, <2>1
    <3>2. QED
      BY <1>1, <3>1
  <2>4. iter[1..k] = Step(iter, 1..k)
    <3> HIDE DEF Step
    <3>1. QED
      BY <1>6, <2>3
  <2>5. QED
    BY <2>2, <2>3, <2>4
<1>10. \A k \in 0..n : iter[1..k] \in A
  <2> DEFINE S == {k \in 0..n : iter[1..k] \in A}
  <2>1. 0 \in S
    BY <1>1, <1>8
  <2>2. ASSUME NEW k \in 0..(n - 1), k \in S PROVE k + 1 \in S
    <3>1. k + 1 \in 1..n /\ (k + 1) - 1 = k
      BY <1>1, <2>2
    <3>2. iter[1..(k + 1)] = Listed(ids, iter[1..k], q[k + 1])
      BY <1>9, <3>1
    <3>3. iter[1..k] \in A /\ q[k + 1] \in Ids
      BY <1>1, <2>2, <3>1
    <3>4. k + 1 \in 0..n
      BY <1>1, <3>1
    <3>5. QED
      BY <3>2, <3>3, <3>4 DEF ListClosed
  <2>3. \A k \in 0..n : k \in S
    <3> HIDE DEF S
    <3>1. QED
      BY <1>1, <2>1, <2>2, UpTo
  <2>4. QED
    BY <2>3
<1>11. acc \in [0..n -> A] /\ acc[0] = a /\ acc[n] = iter[1..n]
  BY <1>1, <1>8, <1>10
<1>12. \A k \in 1..n : acc[k] = Listed(ids, acc[k - 1], q[k])
  <2>1. SUFFICES ASSUME NEW k \in 1..n PROVE acc[k] = Listed(ids, acc[k - 1], q[k])
    OBVIOUS
  <2>2. k \in 0..n /\ k - 1 \in 0..n
    BY <1>1, <2>1
  <2>3. acc[k] = iter[1..k] /\ acc[k - 1] = iter[1..(k - 1)]
    BY <2>2
  <2>4. QED
    BY <1>9, <2>1, <2>3
<1>13. ListRun(ids, a, q, acc)
  BY <1>1, <1>7, <1>11, <1>12 DEF ListRun
<1> HIDE DEF acc
<1>14. QED
  BY <1>11, <1>13
-----------------------------------------------------------------------------
(* The cache.                                                              *)
Entries == [id : Ids, blk : Blocks]
CacheType ==
  [cd : [Ids -> 0..Used], blk : [Ids -> Blocks \cup {0}],
   index : [Blocks -> Ids \cup {0}], la : Seq(Ids), lb : Seq(Ids), lc : Seq(Ids),
   load : Seq(Blocks), dma : Seq(Ids)]

Table(c) == \A b \in Blocks, i \in Ids : c.index[b] = i <=> c.blk[i] = b

OneList(q, n) == IsInjective(q) /\ \A k \in DOMAIN q : q[k] \in 1..n
Lists(c, n) == OneList(c.la, n) /\ OneList(c.lb, n) /\ OneList(c.lc, n)
Within(c) == Len(c.load) <= LoadCap /\ Len(c.dma) <= Budget

(* The tiles an id has once the DMA list is done: the last copy to it, of  *)
(* the blocks listed to the decoder, or what it has now.                   *)
At(dma, i) == {k \in DOMAIN dma : dma[k] = i}
LastAt(dma, i) == CHOOSE k \in At(dma, i) : \A j \in At(dma, i) : j <= k
TileOf(dma, from, i) ==
  IF At(dma, i) = {} THEN vram[i] ELSE from[LastAt(dma, i)]
Tiled(c, from) == \A i \in Ids : c.blk[i] # 0 => TileOf(c.dma, from, i) = c.blk[i]

(* An entry of this frame's table keeps its id and block to the frame's    *)
(* end.                                                                    *)
Kept(c, q) == \A k \in DOMAIN q : c.cd[q[k].id] = Used /\ c.blk[q[k].id] = q[k].blk

Good(c) ==
  /\ c \in CacheType /\ Table(c) /\ Lists(c, slots) /\ Within(c)
  /\ Len(c.dma) = Len(c.load) /\ Tiled(c, c.load)

(* d is c with shorter lists.                                              *)
Dropped(c, d) ==
  /\ d \in CacheType /\ Lists(d, slots)
  /\ d.cd = c.cd /\ d.blk = c.blk /\ d.index = c.index
  /\ d.load = c.load /\ d.dma = c.dma

LEMMA Sizes ==
  /\ SlotsMax \in Nat \ {0} /\ Used \in Nat /\ Used >= 2
  /\ LoadCap \in Nat /\ Budget \in Nat /\ Blocks \subseteq Nat \ {0}
  /\ 0 \notin Blocks /\ 0 \notin Ids /\ Ids \subseteq Nat
BY SpritesAssumption DEF Ids

(* What is passed by a search of a list is dropped, the rest stays.        *)
LEMMA CutList ==
  ASSUME NEW q \in Seq(Ids), NEW n, OneList(q, n), NEW k \in 1..Len(q)
  PROVE  SubSeq(q, 1, k - 1) \in Seq(Ids) /\ OneList(SubSeq(q, 1, k - 1), n)
<1> DEFINE p == SubSeq(q, 1, k - 1)
<1>1. p \in Seq(Ids) /\ DOMAIN p = 1..(k - 1) /\ \A j \in 1..(k - 1) : p[j] = q[j]
  OBVIOUS
<1>2. 1..(k - 1) \subseteq DOMAIN q
  OBVIOUS
<1> HIDE DEF p
<1>3. OneList(p, n)
  BY <1>1, <1>2 DEF OneList, IsInjective
<1>4. QED
  BY <1>1, <1>3 DEF p

LEMMA NoList == ASSUME NEW n PROVE <<>> \in Seq(Ids) /\ OneList(<<>>, n)
BY DEF OneList, IsInjective

LEMMA TakenIs ==
  ASSUME NEW c, c \in CacheType, Lists(c, slots), NEW list \in {"la", "lb", "lc"},
         NEW max
  PROVE  LET t == Taken(c, list, max) IN
           /\ Dropped(c, t.c)
           /\ t.id # 0 => t.id \in Ids /\ c.cd[t.id] <= max
<1> DEFINE fit == {k \in DOMAIN c[list] : c.cd[c[list][k]] <= max}
           j == CHOOSE k \in fit : \A m \in fit : m <= k
           t == Taken(c, list, max)
<1>1. /\ c.la = c["la"] /\ c.lb = c["lb"] /\ c.lc = c["lc"]
      /\ c[list] \in Seq(Ids) /\ OneList(c[list], slots)
  BY DEF CacheType, Lists
<1>2. ASSUME NEW q \in Seq(Ids), OneList(q, slots)
      PROVE  Dropped(c, [c EXCEPT ![list] = q])
  <2>1. CASE list = "la"
    BY <1>2, <2>1 DEF Dropped, CacheType, Lists
  <2>2. CASE list = "lb"
    BY <1>2, <2>2 DEF Dropped, CacheType, Lists
  <2>3. CASE list = "lc"
    BY <1>2, <2>3 DEF Dropped, CacheType, Lists
  <2>4. QED
    BY <2>1, <2>2, <2>3
<1>3. CASE fit = {}
  <2>1. t = [id |-> 0, c |-> [c EXCEPT ![list] = <<>>]]
    BY <1>3 DEF Taken
  <2>2. Dropped(c, [c EXCEPT ![list] = <<>>])
    BY <1>2, NoList
  <2> HIDE DEF t
  <2>3. QED
    BY <2>1, <2>2 DEF t
<1>4. CASE fit # {}
  <2>1. j \in fit
    <3>1. fit \in SUBSET (1..Len(c[list])) /\ Len(c[list]) \in Nat
      BY <1>1
    <3>2. \E k \in fit : \A m \in fit : m <= k
      <4> HIDE DEF fit
      <4>1. QED
        BY <1>4, <3>1, LastOf
    <3>3. QED
      BY <3>2
  <2>2. t = [id |-> c[list][j], c |-> [c EXCEPT ![list] = SubSeq(@, 1, j - 1)]]
    BY <1>4 DEF Taken
  <2>3. j \in 1..Len(c[list]) /\ c.cd[c[list][j]] <= max /\ c[list][j] \in Ids
    <3>1. j \in DOMAIN c[list] /\ c.cd[c[list][j]] <= max
      BY <2>1
    <3> HIDE DEF j
    <3>2. QED
      BY <1>1, <3>1
  <2> HIDE DEF j, t
  <2>4. [c EXCEPT ![list] = SubSeq(@, 1, j - 1)]
          = [c EXCEPT ![list] = SubSeq(c[list], 1, j - 1)]
    OBVIOUS
  <2>5. Dropped(c, [c EXCEPT ![list] = SubSeq(c[list], 1, j - 1)])
    BY <1>1, <1>2, <2>3, CutList
  <2>6. QED
    BY <2>2, <2>3, <2>4, <2>5 DEF t
<1>5. QED
  BY <1>3, <1>4

LEMMA DroppedTwice ==
  ASSUME NEW c, NEW d, NEW e, Dropped(c, d), Dropped(d, e) PROVE Dropped(c, e)
BY DEF Dropped

(* Whatever a claim takes was not used in this frame.                      *)
Spare(c, r) == /\ Dropped(c, r.c)
               /\ r.id # 0 => r.id \in Ids /\ c.cd[r.id] < Used

LEMMA ABSpare == ASSUME NEW c, c \in CacheType, Lists(c, slots) PROVE Spare(c, AB(c))
<1> DEFINE a == Taken(c, "la", 0)  b == Taken(a.c, "lb", Used - 1)
<1>1. Dropped(c, a.c) /\ (a.id # 0 => a.id \in Ids /\ c.cd[a.id] <= 0)
  BY TakenIs
<1>2. a.c \in CacheType /\ Lists(a.c, slots) /\ a.c.cd = c.cd
  BY <1>1 DEF Dropped
<1>3. Dropped(a.c, b.c) /\ (b.id # 0 => b.id \in Ids /\ a.c.cd[b.id] <= Used - 1)
  BY <1>2, TakenIs
<1>4. AB(c) = IF a.id # 0 THEN a ELSE b
  BY DEF AB
<1> HIDE DEF a, b
<1>5. \A i \in Ids : c.cd[i] \in Int
  BY Sizes DEF CacheType
<1>6. Spare(c, a)
  <2>1. \A x \in Int : x <= 0 => x < Used
    BY Sizes
  <2>2. QED
    BY <1>1, <1>5, <2>1 DEF Spare
<1>7. Spare(c, b)
  <2>1. \A x \in Int : x <= Used - 1 => x < Used
    BY Sizes
  <2>2. Dropped(c, b.c)
    BY <1>1, <1>3, DroppedTwice
  <2>3. QED
    BY <1>2, <1>3, <1>5, <2>1, <2>2 DEF Spare
<1>8. QED
  BY <1>4, <1>6, <1>7

LEMMA ABRCSpare ==
  ASSUME NEW c, c \in CacheType, Lists(c, slots), NEW b \in Blocks
  PROVE  Spare(c, ABRC(c, b))
<1> DEFINE ab == AB(c)  nb == Neighbour(ab.c, b)  lc == ListC(ab.c)
<1>1. Spare(c, ab)
  BY ABSpare
<1>2. ab.c \in CacheType /\ Lists(ab.c, slots) /\ ab.c.cd = c.cd
  BY <1>1 DEF Spare, Dropped
<1>3. ABRC(c, b) = IF ab.id # 0 THEN ab
                   ELSE IF nb # 0 THEN [id |-> nb, c |-> ab.c] ELSE lc
  BY DEF ABRC
<1>4. nb # 0 => nb \in Ids /\ c.cd[nb] < Used
  <2> HIDE DEF ab
  <2>1. QED
    BY <1>2 DEF Neighbour, CacheType
<1>5. Spare(c, lc)
  <2>1. Dropped(ab.c, lc.c) /\ (lc.id # 0 => lc.id \in Ids /\ ab.c.cd[lc.id] <= Used - 1)
    <3> HIDE DEF ab
    <3>1. QED
      BY <1>2, TakenIs DEF ListC
  <2> HIDE DEF ab, lc
  <2>2. \A i \in Ids : c.cd[i] \in Int
    BY Sizes DEF CacheType
  <2>3. \A x \in Int : x <= Used - 1 => x < Used
    BY Sizes
  <2>4. Dropped(c, lc.c)
    BY <1>1, <2>1, DroppedTwice DEF Spare
  <2>5. QED
    BY <1>2, <2>1, <2>2, <2>3, <2>4 DEF Spare
<1> HIDE DEF ab, nb, lc
<1>6. Spare(c, [id |-> nb, c |-> ab.c]) \/ nb = 0
  BY <1>1, <1>4 DEF Spare
<1>7. QED
  BY <1>1, <1>3, <1>5, <1>6

LEMMA DroppedGood ==
  ASSUME NEW c, Good(c), NEW d, Dropped(c, d)
  PROVE  Good(d) /\ \A q : Kept(c, q) => Kept(d, q)
BY DEF Good, Dropped, Table, Within, Tiled, Kept
-----------------------------------------------------------------------------
(* The fields that a use and a claim change.                               *)
LEMMA UseIs ==
  ASSUME NEW c \in CacheType, NEW i \in Ids
  PROVE  LET d == Use(c, i) IN
           /\ d \in CacheType /\ d.cd = [c.cd EXCEPT ![i] = Used]
           /\ d.blk = c.blk /\ d.index = c.index /\ d.load = c.load
           /\ d.dma = c.dma /\ d.la = c.la /\ d.lb = c.lb /\ d.lc = c.lc
<1> DEFINE f == [c.cd EXCEPT ![i] = Used]
<1>1. c.cd \in [Ids -> 0..Used] /\ Used \in 0..Used
  BY Sizes DEF CacheType
<1>2. f \in [Ids -> 0..Used]
  BY <1>1
<1>3. Use(c, i) = [c EXCEPT !.cd = f]
  BY DEF Use
<1> HIDE DEF f
<1>4. LET d == [c EXCEPT !.cd = f] IN
        /\ d \in CacheType /\ d.cd = f
        /\ d.blk = c.blk /\ d.index = c.index /\ d.load = c.load
        /\ d.dma = c.dma /\ d.la = c.la /\ d.lb = c.lb /\ d.lc = c.lc
  BY <1>2 DEF CacheType
<1>5. QED
  BY <1>3, <1>4 DEF f

LEMMA ClaimIs ==
  ASSUME NEW c \in CacheType, NEW i \in Ids, NEW b \in Blocks
  PROVE  LET d == Claim(c, i, b) IN
           /\ d \in CacheType /\ d.cd = c.cd /\ d.blk = [c.blk EXCEPT ![i] = b]
           /\ d.index = ClaimIndex(c, i, b)
           /\ d.load = Append(c.load, b) /\ d.dma = Append(c.dma, i)
           /\ d.la = c.la /\ d.lb = c.lb /\ d.lc = c.lc
<1> DEFINE f == [c.blk EXCEPT ![i] = b]  x == ClaimIndex(c, i, b)
           m == Append(c.dma, i)  l == Append(c.load, b)
<1>1. /\ c.blk \in [Ids -> Blocks \cup {0}] /\ c.index \in [Blocks -> Ids \cup {0}]
      /\ c.dma \in Seq(Ids) /\ c.load \in Seq(Blocks)
  BY DEF CacheType
<1>2. f \in [Ids -> Blocks \cup {0}] /\ m \in Seq(Ids) /\ l \in Seq(Blocks)
  BY <1>1
<1>3. x \in [Blocks -> Ids \cup {0}]
  BY <1>1 DEF ClaimIndex
<1>4. Claim(c, i, b) = [c EXCEPT !.index = x, !.blk = f, !.dma = m, !.load = l]
  BY DEF Claim
<1> HIDE DEF f, x, m, l
<1>5. LET d == [c EXCEPT !.index = x, !.blk = f, !.dma = m, !.load = l] IN
        /\ d \in CacheType /\ d.cd = c.cd /\ d.blk = f /\ d.index = x
        /\ d.load = l /\ d.dma = m /\ d.la = c.la /\ d.lb = c.lb /\ d.lc = c.lc
  BY <1>2, <1>3 DEF CacheType
<1>6. QED
  BY <1>4, <1>5 DEF f, x, m, l

(* A block that is in the cache is used where it is.                       *)
LEMMA HitGood ==
  ASSUME NEW c, Good(c), NEW b \in Blocks, c.index[b] # 0
  PROVE  LET i == c.index[b]  d == Use(c, i) IN
           /\ i \in Ids /\ Good(d) /\ d.cd[i] = Used /\ d.blk[i] = b
           /\ d.index = c.index
           /\ \A q \in Seq(Entries) : Kept(c, q) => Kept(d, q)
<1> DEFINE i == c.index[b]  d == Use(c, i)
<1>1. c \in CacheType /\ Table(c) /\ i \in Ids /\ c.blk[i] = b
  BY DEF Good, Table, CacheType
<1>2. /\ d \in CacheType /\ d.cd = [c.cd EXCEPT ![i] = Used]
      /\ d.blk = c.blk /\ d.index = c.index /\ d.load = c.load
      /\ d.dma = c.dma /\ d.la = c.la /\ d.lb = c.lb /\ d.lc = c.lc
  BY <1>1, UseIs
<1> HIDE DEF d, i
<1>3. d.cd[i] = Used /\ \A j \in Ids : j # i => d.cd[j] = c.cd[j]
  BY <1>1, <1>2 DEF CacheType
<1>4. Good(d)
  BY <1>2 DEF Good, Table, Lists, Within, Tiled
<1>5. \A q \in Seq(Entries) : Kept(c, q) => Kept(d, q)
  BY <1>1, <1>2, <1>3 DEF Kept, Entries
<1>6. QED
  BY <1>1, <1>2, <1>3, <1>4, <1>5 DEF d, i

(* One more copy: it is the last one to its id.                            *)
LEMMA OneMoreTile ==
  ASSUME NEW dma \in Seq(Ids), NEW from \in Seq(Blocks), Len(dma) = Len(from),
         NEW i \in Ids, NEW b \in Blocks, NEW j \in Ids
  PROVE  TileOf(Append(dma, i), Append(from, b), j) =
           IF j = i THEN b ELSE TileOf(dma, from, j)
<1> DEFINE n == Len(dma)  dma2 == Append(dma, i)  from2 == Append(from, b)
<1>1. /\ n \in Nat /\ DOMAIN dma = 1..n /\ DOMAIN dma2 = 1..(n + 1)
      /\ dma2[n + 1] = i /\ from2[n + 1] = b
      /\ \A k \in 1..n : dma2[k] = dma[k] /\ from2[k] = from[k]
  OBVIOUS
<1> HIDE DEF n, dma2, from2
<1>2. CASE j = i
  <2>1. n + 1 \in At(dma2, j) /\ At(dma2, j) \subseteq 1..(n + 1)
    BY <1>1, <1>2 DEF At
  <2>2. LastAt(dma2, j) = n + 1
    <3>1. \A k \in At(dma2, j) : k <= n + 1
      BY <1>1, <2>1
    <3>2. \A k \in At(dma2, j) : (\A m \in At(dma2, j) : m <= k) => k = n + 1
      BY <1>1, <2>1
    <3>3. QED
      BY <2>1, <3>1, <3>2 DEF LastAt
  <2>3. QED
    BY <1>1, <1>2, <2>1, <2>2 DEF TileOf, dma2, from2
<1>3. CASE j # i
  <2>1. At(dma2, j) = At(dma, j)
    BY <1>1, <1>3 DEF At
  <2>2. LastAt(dma2, j) = LastAt(dma, j)
    BY <2>1 DEF LastAt
  <2>3. At(dma, j) # {} => LastAt(dma, j) \in 1..n
    <3>1. SUFFICES ASSUME At(dma, j) # {} PROVE LastAt(dma, j) \in 1..n
      OBVIOUS
    <3>2. At(dma, j) \in SUBSET (1..n)
      BY <1>1 DEF At
    <3>3. \E k \in At(dma, j) : \A m \in At(dma, j) : m <= k
      BY <1>1, <3>1, <3>2, LastOf
    <3>4. LastAt(dma, j) \in At(dma, j)
      BY <3>3 DEF LastAt
    <3>5. QED
      BY <3>2, <3>4
  <2>4. QED
    BY <1>1, <1>3, <2>1, <2>2, <2>3 DEF TileOf, dma2, from2
<1>4. QED
  BY <1>2, <1>3

(* A claim of an id that this frame has not used, for a block that is in   *)
(* no id: the table finds exactly the id's new block, and every entry the  *)
(* frame has written stands.                                               *)
LEMMA ClaimGood ==
  ASSUME NEW c, Good(c), Gate(c), NEW b \in Blocks, c.index[b] = 0,
         NEW i \in Ids, c.cd[i] < Used
  PROVE  LET d == Use(Claim(c, i, b), i) IN
           /\ Good(d) /\ d.cd[i] = Used /\ d.blk[i] = b
           /\ \A q \in Seq(Entries) : Kept(c, q) => Kept(d, q)
<1> DEFINE e == Claim(c, i, b)  d == Use(e, i)
<1>1. /\ c \in CacheType /\ Table(c) /\ Lists(c, slots) /\ Within(c)
      /\ Len(c.dma) = Len(c.load) /\ Tiled(c, c.load)
  BY DEF Good
<1>2. /\ d.cd = [c.cd EXCEPT ![i] = Used] /\ d.blk = [c.blk EXCEPT ![i] = b]
      /\ d.index = ClaimIndex(c, i, b)
      /\ d.load = Append(c.load, b) /\ d.dma = Append(c.dma, i)
      /\ d.la = c.la /\ d.lb = c.lb /\ d.lc = c.lc
      /\ d \in CacheType
  <2>1. /\ e \in CacheType /\ e.cd = c.cd /\ e.blk = [c.blk EXCEPT ![i] = b]
        /\ e.index = ClaimIndex(c, i, b)
        /\ e.load = Append(c.load, b) /\ e.dma = Append(c.dma, i)
        /\ e.la = c.la /\ e.lb = c.lb /\ e.lc = c.lc
    BY <1>1, ClaimIs
  <2> HIDE DEF e
  <2> HIDE DEF d
  <2>2. /\ Use(e, i) \in CacheType /\ Use(e, i).cd = [e.cd EXCEPT ![i] = Used]
        /\ Use(e, i).blk = e.blk /\ Use(e, i).index = e.index
        /\ Use(e, i).load = e.load /\ Use(e, i).dma = e.dma
        /\ Use(e, i).la = e.la /\ Use(e, i).lb = e.lb /\ Use(e, i).lc = e.lc
    BY <2>1, UseIs
  <2>3. d = Use(e, i)
    BY DEF d
  <2>4. QED
    BY <2>1, <2>2, <2>3
<1> HIDE DEF d, e
<1>5. /\ d.cd[i] = Used /\ d.blk[i] = b
      /\ \A j \in Ids : j # i => d.cd[j] = c.cd[j] /\ d.blk[j] = c.blk[j]
  BY <1>1, <1>2 DEF CacheType
<1>6. Table(d)
  <2>1. \A x \in Blocks : d.index[x] = IF x = b THEN i ELSE IF x = c.blk[i] THEN 0
                                       ELSE c.index[x]
    BY <1>2 DEF ClaimIndex
  <2>2. \A j \in Ids : c.blk[j] # b
    BY <1>1, Sizes DEF Table
  <2>3. SUFFICES ASSUME NEW x \in Blocks, NEW j \in Ids
                 PROVE  d.index[x] = j <=> d.blk[j] = x
    BY DEF Table
  <2>4. c.index[x] = j <=> c.blk[j] = x
    BY <1>1 DEF Table
  <2>5. c.index[x] = i <=> c.blk[i] = x
    BY <1>1 DEF Table
  <2>6. QED
    BY <1>5, <2>1, <2>2, <2>4, <2>5, Sizes
<1>7. Lists(d, slots)
  BY <1>1, <1>2 DEF Lists
<1>8. Within(d) /\ Len(d.dma) = Len(d.load)
  <2>1. /\ Len(d.dma) = Len(c.dma) + 1 /\ Len(d.load) = Len(c.load) + 1
        /\ Len(c.dma) \in Nat /\ Len(c.load) \in Nat
    BY <1>1, <1>2 DEF CacheType
  <2>2. Budget > Len(c.dma) /\ Len(c.load) < LoadCap
    BY DEF Gate, UsedBudget
  <2>3. QED
    BY <1>1, <2>1, <2>2, Sizes DEF Within
<1>9. Tiled(d, d.load)
  <2>1. SUFFICES ASSUME NEW j \in Ids, d.blk[j] # 0
                 PROVE  TileOf(d.dma, d.load, j) = d.blk[j]
    BY DEF Tiled
  <2>2. TileOf(d.dma, d.load, j) = IF j = i THEN b ELSE TileOf(c.dma, c.load, j)
    <3>1. c.dma \in Seq(Ids) /\ c.load \in Seq(Blocks)
      BY <1>1 DEF CacheType
    <3>2. QED
      BY <1>1, <1>2, <3>1, OneMoreTile
  <2>3. QED
    BY <1>1, <1>5, <2>1, <2>2 DEF Tiled
<1>10. \A q \in Seq(Entries) : Kept(c, q) => Kept(d, q)
  <2>1. SUFFICES ASSUME NEW q \in Seq(Entries), Kept(c, q), NEW k \in DOMAIN q
                 PROVE  d.cd[q[k].id] = Used /\ d.blk[q[k].id] = q[k].blk
    BY DEF Kept
  <2>2. q[k].id \in Ids /\ c.cd[q[k].id] = Used /\ c.blk[q[k].id] = q[k].blk
    <3>1. q[k] \in Entries
      BY <2>1
    <3>2. QED
      BY <2>1, <3>1 DEF Kept, Entries
  <2>3. c.cd[i] # Used
    BY <1>1, Sizes DEF CacheType
  <2>4. QED
    BY <1>5, <2>2, <2>3
<1>11. QED
  BY <1>2, <1>5, <1>6, <1>7, <1>8, <1>9, <1>10 DEF Good, d, e

LEMMA OneMoreEntry ==
  ASSUME NEW c, NEW q \in Seq(Entries), Kept(c, q), NEW e \in Entries,
         c.cd[e.id] = Used, c.blk[e.id] = e.blk
  PROVE  Append(q, e) \in Seq(Entries) /\ Kept(c, Append(q, e))
<1>1. /\ Append(q, e) \in Seq(Entries) /\ Len(q) \in Nat
      /\ DOMAIN q = 1..Len(q) /\ DOMAIN Append(q, e) = 1..(Len(q) + 1)
      /\ Append(q, e)[Len(q) + 1] = e
      /\ \A k \in 1..Len(q) : Append(q, e)[k] = q[k]
  OBVIOUS
<1> DEFINE p == Append(q, e)
<1> HIDE DEF p
<1>2. \A k \in DOMAIN p : k \in DOMAIN q \/ k = Len(q) + 1
  BY <1>1 DEF p
<1>3. Kept(c, p)
  BY <1>1, <1>2 DEF Kept, p
<1>4. QED
  BY <1>1, <1>3 DEF p

(* A draw under way, over what the frame's table already holds.            *)
Drawing(old) ==
  {d \in [c : CacheType, sat : Seq(Entries)] :
     Good(d.c) /\ Kept(d.c, old) /\ Kept(d.c, d.sat)}
Loading(old) ==
  {d \in [c : CacheType, complete : BOOLEAN] : Good(d.c) /\ Kept(d.c, old)}

LEMMA DrawPieceGood ==
  ASSUME NEW old \in Seq(Entries), NEW d \in Drawing(old), NEW b \in Blocks
  PROVE  DrawPiece(d, b) \in Drawing(old)
<1> DEFINE hit == d.c.index[b]
           miss == IF Gate(d.c) THEN ABRC(d.c, b) ELSE [id |-> 0, c |-> d.c]
           cl == Use(Claim(miss.c, miss.id, b), miss.id)
<1>1. /\ d \in [c : CacheType, sat : Seq(Entries)] /\ d.c \in CacheType
      /\ d.sat \in Seq(Entries) /\ Good(d.c) /\ Kept(d.c, old) /\ Kept(d.c, d.sat)
  BY DEF Drawing
<1>2. CASE hit # 0
  <2> DEFINE u == Use(d.c, hit)
  <2>1. /\ hit \in Ids /\ Good(u) /\ u.cd[hit] = Used /\ u.blk[hit] = b
        /\ \A q \in Seq(Entries) : Kept(d.c, q) => Kept(u, q)
    BY <1>1, <1>2, HitGood
  <2>2. DrawPiece(d, b) = [d EXCEPT !.c = u, !.sat = Append(@, [id |-> hit, blk |-> b])]
    BY <1>2 DEF DrawPiece
  <2> HIDE DEF u, hit
  <2> DEFINE e == [id |-> hit, blk |-> b]
  <2>3. e \in Entries /\ e.id = hit /\ e.blk = b
    BY <2>1 DEF Entries
  <2> HIDE DEF e
  <2>4. Append(d.sat, e) \in Seq(Entries) /\ Kept(u, Append(d.sat, e))
    BY <1>1, <2>1, <2>3, OneMoreEntry
  <2>5. DrawPiece(d, b) = [c |-> u, sat |-> Append(d.sat, e)]
    BY <1>1, <2>2 DEF e
  <2>6. u \in CacheType
    BY <2>1 DEF Good
  <2>7. Kept(u, old)
    BY <1>1, <2>1
  <2> DEFINE s == Append(d.sat, e)  x == [c |-> u, sat |-> s]
  <2> HIDE DEF s
  <2>8. x \in [c : CacheType, sat : Seq(Entries)] /\ x.c = u /\ x.sat = s
    BY <2>4, <2>6 DEF s
  <2>9. x \in Drawing(old)
    BY <2>1, <2>4, <2>7, <2>8 DEF Drawing, s
  <2>10. QED
    BY <2>5, <2>9 DEF s
<1>3. Spare(d.c, miss)
  <2>1. Spare(d.c, ABRC(d.c, b))
    BY <1>1, ABRCSpare DEF Good
  <2>2. Spare(d.c, [id |-> 0, c |-> d.c])
    BY <1>1 DEF Spare, Dropped, Good
  <2>3. QED
    BY <2>1, <2>2
<1>4. /\ Good(miss.c) /\ \A q : Kept(d.c, q) => Kept(miss.c, q)
      /\ miss.c \in CacheType /\ miss.c.cd = d.c.cd /\ miss.c.index = d.c.index
      /\ (Gate(miss.c) <=> Gate(d.c))
  <2> HIDE DEF miss
  <2>1. Dropped(d.c, miss.c)
    BY <1>3 DEF Spare
  <2>2. QED
    BY <1>1, <2>1, DroppedGood DEF Dropped, Gate, UsedBudget
<1>5. CASE hit = 0 /\ miss.id = 0
  <2>1. DrawPiece(d, b) = [d EXCEPT !.c = miss.c]
    BY <1>5 DEF DrawPiece
  <2> HIDE DEF miss
  <2>2. DrawPiece(d, b) = [c |-> miss.c, sat |-> d.sat]
    BY <1>1, <2>1
  <2>3. QED
    BY <1>1, <1>4, <2>2 DEF Drawing
<1>6. CASE hit = 0 /\ miss.id # 0
  <2>1. DrawPiece(d, b) = [c |-> cl, sat |-> Append(d.sat, [id |-> miss.id, blk |-> b])]
    BY <1>6 DEF DrawPiece
  <2>2. Gate(d.c)
    BY <1>6
  <2> HIDE DEF miss
  <2>3. miss.id \in Ids /\ miss.c.cd[miss.id] < Used /\ miss.c.index[b] = 0
    BY <1>3, <1>4, <1>6 DEF Spare
  <2>4. /\ Good(cl) /\ cl.cd[miss.id] = Used /\ cl.blk[miss.id] = b
        /\ \A q \in Seq(Entries) : Kept(miss.c, q) => Kept(cl, q)
    BY <1>4, <2>2, <2>3, ClaimGood
  <2> HIDE DEF cl
  <2> DEFINE e == [id |-> miss.id, blk |-> b]
  <2>5. e \in Entries /\ e.id = miss.id /\ e.blk = b
    BY <2>3 DEF Entries
  <2>6. DrawPiece(d, b) = [c |-> cl, sat |-> Append(d.sat, e)]
    BY <2>1
  <2> HIDE DEF e
  <2>7. Append(d.sat, e) \in Seq(Entries) /\ Kept(cl, Append(d.sat, e))
    BY <1>1, <1>4, <2>4, <2>5, OneMoreEntry
  <2>8. cl \in CacheType
    BY <2>4 DEF Good
  <2>9. Kept(cl, old)
    BY <1>1, <1>4, <2>4
  <2> DEFINE s == Append(d.sat, e)  x == [c |-> cl, sat |-> s]
  <2> HIDE DEF s
  <2>10. x \in [c : CacheType, sat : Seq(Entries)] /\ x.c = cl /\ x.sat = s
    BY <2>7, <2>8 DEF s
  <2>11. x \in Drawing(old)
    BY <2>4, <2>7, <2>9, <2>10 DEF Drawing, s
  <2>12. QED
    BY <2>6, <2>11 DEF s
<1>7. QED
  BY <1>2, <1>5, <1>6

LEMMA LoadPieceGood ==
  ASSUME NEW old \in Seq(Entries), NEW d \in Loading(old), NEW b \in Blocks
  PROVE  LoadPiece(d, b) \in Loading(old)
<1> DEFINE hit == d.c.index[b]
           miss == AB(d.c)
           cl == Use(Claim(miss.c, miss.id, b), miss.id)
<1>1. /\ d \in [c : CacheType, complete : BOOLEAN] /\ d.c \in CacheType
      /\ d.complete \in BOOLEAN /\ Good(d.c) /\ Kept(d.c, old)
  BY DEF Loading
<1>2. CASE hit # 0
  <2> DEFINE u == Use(d.c, hit)
  <2>1. /\ Good(u) /\ \A q \in Seq(Entries) : Kept(d.c, q) => Kept(u, q)
    BY <1>1, <1>2, HitGood
  <2>2. LoadPiece(d, b) = [d EXCEPT !.c = u]
    BY <1>2 DEF LoadPiece
  <2> HIDE DEF u, hit
  <2>3. LoadPiece(d, b) = [c |-> u, complete |-> d.complete]
    BY <1>1, <2>2
  <2>4. u \in CacheType
    BY <2>1 DEF Good
  <2>5. QED
    BY <1>1, <2>1, <2>3, <2>4 DEF Loading
<1>3. Spare(d.c, miss)
  BY <1>1, ABSpare DEF Good
<1>4. /\ Good(miss.c) /\ \A q : Kept(d.c, q) => Kept(miss.c, q)
      /\ miss.c \in CacheType /\ miss.c.cd = d.c.cd /\ miss.c.index = d.c.index
      /\ (Gate(miss.c) <=> Gate(d.c))
  <2> HIDE DEF miss
  <2>1. Dropped(d.c, miss.c)
    BY <1>3 DEF Spare
  <2>2. QED
    BY <1>1, <2>1, DroppedGood DEF Dropped, Gate, UsedBudget
<1>5. CASE hit = 0 /\ ~Gate(d.c)
  <2>1. LoadPiece(d, b) = [d EXCEPT !.complete = FALSE]
    BY <1>5 DEF LoadPiece
  <2>2. LoadPiece(d, b) = [c |-> d.c, complete |-> FALSE]
    BY <1>1, <2>1
  <2>3. QED
    BY <1>1, <2>2 DEF Loading
<1>6. CASE hit = 0 /\ Gate(d.c) /\ miss.id = 0
  <2>1. LoadPiece(d, b) = [c |-> miss.c, complete |-> FALSE]
    BY <1>6 DEF LoadPiece
  <2> HIDE DEF miss
  <2>2. QED
    BY <1>1, <1>4, <2>1 DEF Loading
<1>7. CASE hit = 0 /\ Gate(d.c) /\ miss.id # 0
  <2>1. LoadPiece(d, b) = [c |-> cl, complete |-> FALSE]
    BY <1>7 DEF LoadPiece
  <2> HIDE DEF miss
  <2>2. miss.id \in Ids /\ miss.c.cd[miss.id] < Used /\ miss.c.index[b] = 0
    BY <1>3, <1>4, <1>7 DEF Spare
  <2>3. /\ Good(cl) /\ \A q \in Seq(Entries) : Kept(miss.c, q) => Kept(cl, q)
    BY <1>4, <1>7, <2>2, ClaimGood
  <2> HIDE DEF cl
  <2>4. cl \in CacheType
    BY <2>3 DEF Good
  <2>5. QED
    BY <1>1, <1>4, <2>1, <2>3, <2>4 DEF Loading
<1>8. QED
  BY <1>2, <1>5, <1>6, <1>7
-----------------------------------------------------------------------------
(* Whole poses.  A piece whose block is in the cache changes no index and  *)
(* writes its entry; the pre-load pass is complete only when every piece's *)
(* block was there.                                                        *)
LEMMA DrawHit ==
  ASSUME NEW old \in Seq(Entries), NEW d \in Drawing(old), NEW b \in Blocks,
         d.c.index[b] # 0
  PROVE  /\ DrawPiece(d, b).c.index = d.c.index
         /\ Len(DrawPiece(d, b).sat) = Len(d.sat) + 1
<1> DEFINE hit == d.c.index[b]  u == Use(d.c, hit)  e == [id |-> hit, blk |-> b]
<1>1. /\ d \in [c : CacheType, sat : Seq(Entries)] /\ d.c \in CacheType
      /\ d.sat \in Seq(Entries) /\ Good(d.c)
  BY DEF Drawing
<1>2. u.index = d.c.index /\ hit \in Ids
  BY <1>1, HitGood
<1>3. DrawPiece(d, b) = [d EXCEPT !.c = u, !.sat = Append(@, e)]
  BY DEF DrawPiece
<1>4. e \in Entries
  BY <1>2 DEF Entries
<1> HIDE DEF u, e, hit
<1>5. DrawPiece(d, b) = [c |-> u, sat |-> Append(d.sat, e)]
  BY <1>1, <1>3
<1>6. Len(Append(d.sat, e)) = Len(d.sat) + 1
  BY <1>1, <1>4
<1>7. QED
  BY <1>2, <1>5, <1>6

LEMMA DrawFold ==
  ASSUME NEW old \in Seq(Entries), NEW a \in Drawing(old), NEW q \in Seq(Blocks)
  PROVE  \E acc \in [0..Len(q) -> Drawing(old)] :
           /\ acc[0] = a
           /\ \A k \in 1..Len(q) : acc[k] = DrawPiece(acc[k - 1], q[k])
           /\ DrawAll(a, q) = acc[Len(q)]
<1>1. \A d \in Drawing(old), b \in Blocks : DrawPiece(d, b) \in Drawing(old)
  BY DrawPieceGood
<1>2. QED
  BY <1>1, DrawSteps

LEMMA DrawGood ==
  ASSUME NEW old \in Seq(Entries), NEW c, Good(c), Kept(c, old), NEW q \in Seq(Blocks)
  PROVE  LET d == DrawAll([c |-> c, sat |-> <<>>], q) IN
           /\ d \in Drawing(old)
           /\ (\A k \in DOMAIN q : c.index[q[k]] # 0) => Len(d.sat) = Len(q)
<1> DEFINE a == [c |-> c, sat |-> <<>>]  n == Len(q)
           fold == DrawAll(a, q)
<1>1. a \in Drawing(old) /\ a.c = c /\ a.sat = <<>>
  <2>1. c \in CacheType
    BY DEF Good
  <2>2. <<>> \in Seq(Entries) /\ Kept(c, <<>>)
    BY DEF Kept
  <2>3. a \in [c : CacheType, sat : Seq(Entries)] /\ a.c = c /\ a.sat = <<>>
    BY <2>1, <2>2
  <2> HIDE DEF a
  <2>4. QED
    BY <2>2, <2>3 DEF Drawing
<1>3. n \in Nat /\ DOMAIN q = 1..n /\ \A k \in 1..n : q[k] \in Blocks
  OBVIOUS
<1>4. PICK acc \in [0..n -> Drawing(old)] :
        /\ acc[0] = a
        /\ \A k \in 1..n : acc[k] = DrawPiece(acc[k - 1], q[k])
        /\ fold = acc[n]
  <2> HIDE DEF a, n, fold
  <2>1. QED
    BY <1>1, DrawFold DEF n, fold
<1> HIDE DEF a, fold
<1>5. fold \in Drawing(old)
  BY <1>3, <1>4
<1>6. ASSUME \A k \in DOMAIN q : c.index[q[k]] # 0 PROVE Len(fold.sat) = n
  <2> DEFINE S == {k \in 0..n : acc[k].c.index = c.index /\ Len(acc[k].sat) = k}
  <2>1. 0 \in S
    BY <1>1, <1>3, <1>4
  <2>2. ASSUME NEW k \in 0..(n - 1), k \in S PROVE k + 1 \in S
    <3>1. k + 1 \in 1..n /\ (k + 1) - 1 = k /\ k + 1 \in 0..n /\ k \in 0..n
      BY <1>3, <2>2
    <3>2. acc[k + 1] = DrawPiece(acc[k], q[k + 1])
      BY <1>4, <3>1
    <3>3. acc[k] \in Drawing(old) /\ q[k + 1] \in Blocks /\ c.index[q[k + 1]] # 0
      BY <1>3, <1>6, <3>1
    <3>4. acc[k].c.index = c.index /\ Len(acc[k].sat) = k
      BY <2>2
    <3>5. /\ DrawPiece(acc[k], q[k + 1]).c.index = acc[k].c.index
          /\ Len(DrawPiece(acc[k], q[k + 1]).sat) = Len(acc[k].sat) + 1
      BY <3>3, <3>4, DrawHit
    <3>6. QED
      BY <3>1, <3>2, <3>4, <3>5
  <2>3. \A k \in 0..n : k \in S
    <3> HIDE DEF S, n
    <3>1. QED
      BY <1>3, <2>1, <2>2, UpTo
  <2>4. n \in S
    BY <1>3, <2>3
  <2>5. QED
    BY <1>4, <2>4
<1>7. QED
  BY <1>5, <1>6 DEF fold, a

LEMMA LoadHit ==
  ASSUME NEW old \in Seq(Entries), NEW d \in Loading(old), NEW b \in Blocks,
         LoadPiece(d, b).complete
  PROVE  d.complete /\ d.c.index[b] # 0 /\ LoadPiece(d, b).c.index = d.c.index
<1> DEFINE hit == d.c.index[b]  u == Use(d.c, hit)  miss == AB(d.c)
           cl == Use(Claim(miss.c, miss.id, b), miss.id)
<1>1. /\ d \in [c : CacheType, complete : BOOLEAN] /\ d.c \in CacheType
      /\ d.complete \in BOOLEAN /\ Good(d.c)
  BY DEF Loading
<1>2. CASE hit = 0
  <2>1. \/ LoadPiece(d, b) = [d EXCEPT !.complete = FALSE]
        \/ LoadPiece(d, b) = [c |-> miss.c, complete |-> FALSE]
        \/ LoadPiece(d, b) = [c |-> cl, complete |-> FALSE]
    BY <1>2 DEF LoadPiece
  <2> HIDE DEF miss, cl
  <2>2. LoadPiece(d, b).complete = FALSE
    BY <1>1, <2>1
  <2>3. QED
    BY <2>2
<1>3. CASE hit # 0
  <2>1. LoadPiece(d, b) = [d EXCEPT !.c = u]
    BY <1>3 DEF LoadPiece
  <2>2. u.index = d.c.index
    BY <1>1, <1>3, HitGood
  <2> HIDE DEF u
  <2>3. LoadPiece(d, b).c = u /\ LoadPiece(d, b).complete = d.complete
    BY <1>1, <2>1
  <2>4. QED
    BY <1>3, <2>2, <2>3
<1>4. QED
  BY <1>2, <1>3

LEMMA LoadFold ==
  ASSUME NEW old \in Seq(Entries), NEW a \in Loading(old), NEW q \in Seq(Blocks)
  PROVE  \E acc \in [0..Len(q) -> Loading(old)] :
           /\ acc[0] = a
           /\ \A k \in 1..Len(q) : acc[k] = LoadPiece(acc[k - 1], q[k])
           /\ LoadAll(a, q) = acc[Len(q)]
<1>1. \A d \in Loading(old), b \in Blocks : LoadPiece(d, b) \in Loading(old)
  BY LoadPieceGood
<1>2. QED
  BY <1>1, LoadSteps

LEMMA LoadGood ==
  ASSUME NEW old \in Seq(Entries), NEW c, Good(c), Kept(c, old), NEW q \in Seq(Blocks)
  PROVE  LET d == LoadAll([c |-> c, complete |-> TRUE], q) IN
           /\ d \in Loading(old)
           /\ d.complete => \A k \in DOMAIN q : d.c.index[q[k]] # 0
<1> DEFINE a == [c |-> c, complete |-> TRUE]  n == Len(q)
           fold == LoadAll(a, q)
<1>1. a \in Loading(old)
  BY DEF Loading, Good
<1>3. n \in Nat /\ DOMAIN q = 1..n /\ \A k \in 1..n : q[k] \in Blocks
  OBVIOUS
<1>4. PICK acc \in [0..n -> Loading(old)] :
        /\ acc[0] = a
        /\ \A k \in 1..n : acc[k] = LoadPiece(acc[k - 1], q[k])
        /\ fold = acc[n]
  <2> HIDE DEF a, n, fold
  <2>1. QED
    BY <1>1, LoadFold DEF n, fold
<1> HIDE DEF a, fold
<1>5. fold \in Loading(old)
  BY <1>3, <1>4
<1>6. ASSUME fold.complete PROVE \A k \in DOMAIN q : fold.c.index[q[k]] # 0
  <2> DEFINE S == {k \in 0..n : acc[k].complete =>
                     \A j \in 1..k : acc[k].c.index[q[j]] # 0}
  <2>1. 0 \in S
    BY <1>3
  <2>2. ASSUME NEW k \in 0..(n - 1), k \in S PROVE k + 1 \in S
    <3>1. k + 1 \in 1..n /\ (k + 1) - 1 = k /\ k + 1 \in 0..n /\ k \in 0..n
      BY <1>3, <2>2
    <3>2. acc[k + 1] = LoadPiece(acc[k], q[k + 1])
      BY <1>4, <3>1
    <3>3. acc[k] \in Loading(old) /\ q[k + 1] \in Blocks
      BY <1>3, <3>1
    <3>4. SUFFICES ASSUME acc[k + 1].complete, NEW j \in 1..(k + 1)
                   PROVE  acc[k + 1].c.index[q[j]] # 0
      BY <3>1
    <3>5. /\ acc[k].complete /\ acc[k].c.index[q[k + 1]] # 0
          /\ acc[k + 1].c.index = acc[k].c.index
      BY <3>2, <3>3, <3>4, LoadHit
    <3>6. j \in 1..k => acc[k].c.index[q[j]] # 0
      BY <2>2, <3>5
    <3>7. j \in 1..k \/ j = k + 1
      BY <3>1
    <3>8. QED
      BY <3>5, <3>6, <3>7
  <2>3. \A k \in 0..n : k \in S
    <3> HIDE DEF S, n
    <3>1. QED
      BY <1>3, <2>1, <2>2, UpTo
  <2>4. n \in S
    BY <1>3, <2>3
  <2>5. QED
    BY <1>3, <1>4, <1>6, <2>4
<1>7. QED
  BY <1>5, <1>6 DEF fold, a
-----------------------------------------------------------------------------
(* The composer.                                                           *)
Handles == [cur : Frames \cup {0}, prev : Frames \cup {0},
            next : Frames \cup {0}, drawn : BOOLEAN]

LEMMA Anims ==
  /\ 0 \notin Frames /\ \A f \in Frames : Pose[f] \in Seq(Blocks)
  /\ NextOf \in [Frames -> Frames \cup {0}]
  /\ First \in Seq(Frames) /\ Range(First) \subseteq Frames
BY SpritesAssumption DEF Range

LEMMA AdvancedIs ==
  ASSUME NEW h \in Handles, h.cur \in Frames PROVE Advanced(h) \in Handles
<1> DEFINE p == IF h.next # 0 /\ NextOf[h.cur] <= h.cur THEN h.next ELSE NextOf[h.cur]
           n == IF NextOf[h.cur] <= h.cur THEN 0 ELSE h.next
<1>1. p \in Frames \cup {0} /\ n \in Frames \cup {0}
  BY Anims DEF Handles
<1>2. Advanced(h) = [h EXCEPT !.prev = h.cur, !.cur = p, !.next = n, !.drawn = TRUE]
  BY DEF Advanced
<1> HIDE DEF p, n
<1>3. QED
  BY <1>1, <1>2 DEF Handles

LEMMA AskedIs ==
  ASSUME NEW h \in Handles, NEW q \in Asked(h) PROVE q \in Handles
<1>1. \A g \in Restarted(h) : g \in Handles
  <2>0. SUFFICES ASSUME NEW g \in Restarted(h) PROVE g \in Handles
    OBVIOUS
  <2>1. PICK a \in DOMAIN First, p \in {h.prev, 0} :
          g = Restart(h, a, p)
    BY <2>0 DEF Restarted
  <2>2. First[a] \in Frames /\ p \in Frames \cup {0}
    BY Anims DEF Handles
  <2>3. QED
    BY <2>1, <2>2 DEF Handles, Restart
<1>2. \A g \in Handles, n \in {0} \cup Range(First) : [g EXCEPT !.next = n] \in Handles
  BY Anims DEF Handles
<1>3. QED
  BY <1>1, <1>2 DEF Asked

LEMMA BothKept ==
  ASSUME NEW c, NEW p \in Seq(Entries), NEW q \in Seq(Entries), Kept(c, p), Kept(c, q)
  PROVE  p \o q \in Seq(Entries) /\ Kept(c, p \o q)
<1> DEFINE r == p \o q
<1>1. /\ r \in Seq(Entries) /\ Len(p) \in Nat /\ Len(q) \in Nat
      /\ DOMAIN p = 1..Len(p) /\ DOMAIN q = 1..Len(q)
      /\ DOMAIN r = 1..(Len(p) + Len(q))
      /\ \A k \in 1..Len(p) : r[k] = p[k]
      /\ \A k \in (Len(p) + 1)..(Len(p) + Len(q)) : r[k] = q[k - Len(p)]
  OBVIOUS
<1> HIDE DEF r
<1>2. SUFFICES ASSUME NEW k \in DOMAIN r PROVE c.cd[r[k].id] = Used /\ c.blk[r[k].id] = r[k].blk
  BY <1>1 DEF Kept, r
<1>3. CASE k \in 1..Len(p)
  BY <1>1, <1>3 DEF Kept
<1>4. CASE k \in (Len(p) + 1)..(Len(p) + Len(q))
  <2>1. k - Len(p) \in DOMAIN q
    BY <1>1, <1>4
  <2>2. QED
    BY <1>1, <1>4, <2>1 DEF Kept
<1>5. QED
  BY <1>1, <1>2, <1>3, <1>4

(* A composed object: the cache stays good, the frame's table stands, and  *)
(* a pose the pre-load pass found complete is drawn with all its pieces.   *)
LEMMA ComposedGood ==
  ASSUME NEW old \in Seq(Entries), NEW c, Good(c), Kept(c, old),
         NEW h \in Handles, h.cur # 0
  PROVE  LET d == Composed(c, h) IN
           /\ Good(d.c) /\ d.sat \in Seq(Entries) /\ Kept(d.c, old)
           /\ Kept(d.c, d.sat) /\ d.h \in Handles /\ d.torn = FALSE
<1> DEFINE pre == Preload(c, h.cur)
           whole == Fits(c, h.cur)
           loaded == ~whole /\ Len(Pose[h.cur]) > Whole
           c1 == IF loaded THEN pre.c ELSE c
           go == whole \/ (loaded /\ pre.complete)
           f == IF go THEN h.cur ELSE h.prev
           d == IF f = 0 THEN [c |-> c1, sat |-> <<>>] ELSE Draw(c1, f)
           t == loaded /\ go /\ Len(d.sat) < Len(Pose[h.cur])
<1>1. Composed(c, h) = [c |-> d.c, sat |-> d.sat, h |-> IF go THEN Advanced(h) ELSE h,
                        torn |-> t]
  BY DEF Composed
<1>2. h.cur \in Frames /\ h.prev \in Frames \cup {0} /\ Advanced(h) \in Handles
  BY AdvancedIs DEF Handles
<1>3. /\ pre \in Loading(old)
      /\ pre.complete => \A k \in DOMAIN Pose[h.cur] : pre.c.index[Pose[h.cur][k]] # 0
  <2>1. Pose[h.cur] \in Seq(Blocks)
    BY <1>2, Anims
  <2>2. pre = LoadAll([c |-> c, complete |-> TRUE], Pose[h.cur])
    BY Zenon DEF Preload, LoadAll
  <2>3. QED
    BY <2>1, <2>2, LoadGood
<1>4. Good(c1) /\ Kept(c1, old)
  <2> HIDE DEF pre
  <2>1. QED
    BY <1>3 DEF Loading
<1> HIDE DEF c1
<1>5. /\ d.c \in CacheType /\ d.sat \in Seq(Entries) /\ Good(d.c)
      /\ Kept(d.c, old) /\ Kept(d.c, d.sat)
      /\ (f # 0 /\ \A k \in DOMAIN Pose[f] : c1.index[Pose[f][k]] # 0)
           => Len(d.sat) = Len(Pose[f])
  <2>1. CASE f = 0
    <3>1. d.c = c1 /\ d.sat = <<>>
      BY <2>1
    <3> HIDE DEF d, f
    <3>2. <<>> \in Seq(Entries) /\ Kept(c1, <<>>)
      BY DEF Kept
    <3>3. QED
      BY <1>4, <2>1, <3>1, <3>2 DEF Good
  <2>2. CASE f # 0
    <3>1. f \in Frames
      BY <1>2, <2>2
    <3>2. d = Draw(c1, f)
      BY <2>2
    <3> HIDE DEF f, d
    <3>3. Pose[f] \in Seq(Blocks)
      BY <3>1, Anims
    <3>4. d = DrawAll([c |-> c1, sat |-> <<>>], Pose[f])
      BY <3>2, Zenon DEF Draw, DrawAll
    <3>5. /\ d \in Drawing(old)
          /\ (\A k \in DOMAIN Pose[f] : c1.index[Pose[f][k]] # 0) => Len(d.sat) = Len(Pose[f])
      BY <1>4, <3>3, <3>4, DrawGood
    <3>6. QED
      BY <3>5 DEF Drawing
  <2>3. QED
    BY <2>1, <2>2
<1> HIDE DEF d
<1>6. t = FALSE
  <2>1. SUFFICES ASSUME loaded, go PROVE ~(Len(d.sat) < Len(Pose[h.cur]))
    OBVIOUS
  <2>2. pre.complete /\ c1 = pre.c
    BY <2>1 DEF c1
  <2>3. f = h.cur /\ f # 0
    BY <1>2, <2>1, Anims
  <2> HIDE DEF f, pre
  <2>4. \A k \in DOMAIN Pose[f] : c1.index[Pose[f][k]] # 0
    BY <1>3, <2>2, <2>3
  <2>5. Len(d.sat) = Len(Pose[h.cur])
    BY <1>5, <2>3, <2>4
  <2>6. Len(d.sat) \in Nat
    BY <1>5
  <2>7. QED
    BY <2>5, <2>6
<1> DEFINE g == IF go THEN Advanced(h) ELSE h
<1>7. g \in Handles
  BY <1>2
<1> HIDE DEF g, t, go
<1>8. Composed(c, h) = [c |-> d.c, sat |-> d.sat, h |-> g, torn |-> t]
  BY <1>1 DEF g
<1>9. QED
  BY <1>5, <1>6, <1>7, <1>8
-----------------------------------------------------------------------------
IdLists == Seq(Ids)

LEMMA ListFold ==
  ASSUME NEW ids, NEW a \in IdLists, NEW q \in Seq(Ids)
  PROVE  \E acc \in [0..Len(q) -> IdLists] : ListRun(ids, a, q, acc)
<1>1. ListClosed(ids, IdLists)
  BY DEF Listed, IdLists, ListClosed
<1>2. QED
  BY <1>1, ListSteps

(* A list built from slot n down holds no slot twice and none past n.      *)
LEMMA SlotListIs ==
  ASSUME NEW n \in 0..SlotsMax, NEW ids
  PROVE  SlotList(n, ids) \in Seq(Ids) /\ OneList(SlotList(n, ids), n)
<1> DEFINE q == [k \in 1..n |-> n + 1 - k]
           A == Seq(Ids)
<1>1. n \in Nat /\ SlotsMax \in Nat /\ n <= SlotsMax
  BY Sizes
<1>2. q \in Seq(Ids) /\ Len(q) = n /\ \A k \in 1..n : q[k] = n + 1 - k
  <2>1. \A k \in 1..n : n + 1 - k \in Ids
    BY <1>1 DEF Ids
  <2>2. QED
    BY <1>1, <2>1
<1>3. SlotList(n, ids) = ListAll(ids, <<>>, q)
  BY Zenon DEF SlotList, ListAll, Listed
<1> HIDE DEF q
<1>4. PICK acc \in [0..n -> IdLists] :
        /\ acc[0] = <<>>
        /\ \A k \in 1..n : acc[k] = Listed(ids, acc[k - 1], q[k])
        /\ ListAll(ids, <<>>, q) = acc[n]
  <2>1. <<>> \in IdLists
    BY <1>2 DEF IdLists
  <2>2. \E acc \in [0..Len(q) -> IdLists] : ListRun(ids, <<>>, q, acc)
    BY <1>2, <2>1, ListFold
  <2>3. QED
    BY <1>2, <2>2 DEF ListRun
<1> DEFINE Down(k) == /\ IsInjective(acc[k])
                      /\ \A j \in DOMAIN acc[k] : acc[k][j] \in (n + 1 - k)..n
           S == {k \in 0..n : Down(k)}
<1>5. 0 \in S
  BY <1>1, <1>4 DEF IsInjective
<1>6. ASSUME NEW k \in 0..(n - 1), k \in S PROVE k + 1 \in S
  <2>1. k + 1 \in 1..n /\ (k + 1) - 1 = k /\ k + 1 \in 0..n /\ k \in 0..n
    BY <1>1, <1>6
  <2>2. acc[k + 1] = Listed(ids, acc[k], n - k)
    <3>1. acc[k + 1] = Listed(ids, acc[(k + 1) - 1], q[k + 1])
      BY <1>4, <2>1
    <3>2. q[k + 1] = n + 1 - (k + 1)
      BY <1>2, <2>1
    <3>3. n + 1 - (k + 1) = n - k
      BY <1>1, <2>1
    <3>4. QED
      BY <2>1, <3>1, <3>2, <3>3
  <2> DEFINE p == acc[k]  m == Len(p)
  <2>3. p \in Seq(Ids) /\ m \in Nat /\ DOMAIN p = 1..m
    BY <2>1, <1>4 DEF IdLists
  <2>4. IsInjective(p) /\ \A j \in 1..m : p[j] \in (n + 1 - k)..n
    BY <1>6, <2>3
  <2>5. CASE n - k \notin ids
    <3>1. acc[k + 1] = p
      BY <2>2, <2>5 DEF Listed
    <3>2. \A x \in (n + 1 - k)..n : x \in (n + 1 - (k + 1))..n
      BY <1>1, <2>1
    <3> HIDE DEF p
    <3>3. QED
      BY <2>1, <2>3, <2>4, <3>1, <3>2
  <2>6. CASE n - k \in ids
    <3> DEFINE r == Append(p, n - k)
    <3>1. acc[k + 1] = r
      BY <2>2, <2>6 DEF Listed
    <3>2. /\ DOMAIN r = 1..(m + 1) /\ r[m + 1] = n - k
          /\ \A j \in 1..m : r[j] = p[j]
      <4> HIDE DEF p
      <4>1. n - k \in Nat
        BY <1>1, <2>1
      <4>2. QED
        BY <2>3, <4>1
    <3> HIDE DEF p, r, m
    <3>3. \A j \in 1..m : p[j] \in Int /\ p[j] > n - k /\ p[j] \in (n + 1 - (k + 1))..n
      <4>1. \A x \in (n + 1 - k)..n : x \in Int /\ x > n - k /\ x \in (n + 1 - (k + 1))..n
        BY <1>1, <2>1
      <4>2. QED
        BY <2>4, <4>1
    <3>4. \A j \in DOMAIN r : j \in 1..m \/ j = m + 1
      BY <2>3, <3>2 DEF m
    <3>5. n - k \in (n + 1 - (k + 1))..n /\ n - k \in Int
      BY <1>1, <2>1
    <3>6. \A j \in DOMAIN r : r[j] \in (n + 1 - (k + 1))..n
      BY <3>2, <3>3, <3>4, <3>5
    <3>7. IsInjective(r)
      <4>1. SUFFICES ASSUME NEW i \in DOMAIN r, NEW j \in DOMAIN r, r[i] = r[j]
                     PROVE  i = j
        BY DEF IsInjective
      <4>2. CASE i \in 1..m /\ j \in 1..m
        BY <2>3, <2>4, <3>2, <4>1, <4>2 DEF IsInjective
      <4>3. CASE i = m + 1 /\ j \in 1..m
        BY <3>2, <3>3, <3>5, <4>1, <4>3
      <4>4. CASE j = m + 1 /\ i \in 1..m
        BY <3>2, <3>3, <3>5, <4>1, <4>4
      <4>5. QED
        BY <3>4, <4>2, <4>3, <4>4
    <3>8. QED
      BY <2>1, <3>1, <3>6, <3>7
  <2>7. QED
    BY <2>5, <2>6
<1>7. \A k \in 0..n : k \in S
  <2> HIDE DEF S
  <2>1. QED
    BY <1>1, <1>5, <1>6, UpTo
<1>8. Down(n)
  <2>1. n \in 0..n
    BY <1>1
  <2>2. QED
    BY <1>7, <2>1
<1> DEFINE l == acc[n]
<1>9. l \in Seq(Ids) /\ IsInjective(l) /\ \A j \in DOMAIN l : l[j] \in 1..n /\ l[j] \in Ids
  <2>1. l \in Seq(Ids) /\ IsInjective(l) /\ \A j \in DOMAIN l : l[j] \in (n + 1 - n)..n
    <3>1. n \in 0..n
      BY <1>1
    <3>2. QED
      BY <1>4, <1>8, <3>1 DEF IdLists
  <2>2. \A x \in (n + 1 - n)..n : x \in 1..n /\ x \in Ids
    BY <1>1 DEF Ids
  <2> HIDE DEF l
  <2>3. QED
    BY <2>1, <2>2
<1> HIDE DEF l
<1>10. l \in Seq(Ids)
  BY <1>9
<1>11. SlotList(n, ids) = l
  BY <1>3, <1>4 DEF l
<1>12. QED
  BY <1>9, <1>10, <1>11 DEF OneList

LEMMA RebuiltIs ==
  ASSUME NEW c \in CacheType, NEW n \in 0..SlotsMax
  PROVE  LET d == Rebuilt(c, n) IN
           /\ d \in CacheType /\ Lists(d, n) /\ d.cd = c.cd /\ d.blk = c.blk
           /\ d.index = c.index /\ d.load = c.load /\ d.dma = c.dma
<1> DEFINE a == SlotList(n, {i \in Ids : c.cd[i] = 0})
           b == SlotList(n, {i \in Ids : c.cd[i] \notin {0, Used - 1}})
           g == SlotList(n, {i \in Ids : c.cd[i] = Used - 1})
<1>1. /\ a \in Seq(Ids) /\ OneList(a, n) /\ b \in Seq(Ids) /\ OneList(b, n)
      /\ g \in Seq(Ids) /\ OneList(g, n)
  BY SlotListIs
<1>2. Rebuilt(c, n) = [c EXCEPT !.la = a, !.lb = b, !.lc = g]
  BY DEF Rebuilt
<1> HIDE DEF a, b, g
<1>3. QED
  BY <1>1, <1>2 DEF CacheType, Lists
-----------------------------------------------------------------------------
(* The inductive invariant: the types, the cache's rules, and what each    *)
(* phase of the frame owes VRAM and the table.                             *)
Typed ==
  /\ slots \in 0..SlotsMax /\ cache \in CacheType /\ handle \in [Objects -> Handles]
  /\ phase \in {"closed", "open", "vblank"} /\ todo \subseteq Objects
  /\ decoded \in Seq(Blocks) /\ sat \in Seq(Entries)
Ruled == Table(cache) /\ Lists(cache, slots) /\ Within(cache)
Phased ==
  /\ phase = "closed" => /\ cache.dma = <<>> /\ cache.load = <<>>
                         /\ Tiled(cache, <<>>)
  /\ phase = "open" => /\ Len(cache.dma) = Len(cache.load)
                       /\ Tiled(cache, cache.load) /\ Kept(cache, sat)
  /\ phase = "vblank" => /\ Len(cache.dma) = Len(decoded) /\ cache.load = <<>>
                         /\ Tiled(cache, decoded) /\ Kept(cache, sat)
SpriteInv == Typed /\ Ruled /\ Phased /\ TilesRight /\ WholeShown

LEMMA NoDma ==
  ASSUME NEW c, c.dma = <<>>, NEW from, NEW i
  PROVE  TileOf(c.dma, from, i) = vram[i]
BY DEF TileOf, At

LEMMA StartInv == ASSUME SpritesInit PROVE SpriteInv
<1> USE DEF SpritesInit
<1>1. cache \in CacheType /\ cache = EmptyCache
  BY Sizes DEF EmptyCache, NoBlocks, CacheType
<1>2. Typed
  <2>1. NoHandle \in Handles
    BY DEF NoHandle, Handles
  <2>2. 0 \in 0..SlotsMax
    BY Sizes
  <2>3. QED
    BY <1>1, <2>1, <2>2 DEF Typed
<1>3. Ruled
  <2>1. Table(cache)
    BY Sizes DEF Table, EmptyCache, NoBlocks
  <2>2. Lists(cache, slots)
    BY NoList DEF Lists, EmptyCache
  <2>3. Within(cache)
    BY Sizes DEF Within, EmptyCache
  <2>4. QED
    BY <2>1, <2>2, <2>3 DEF Ruled
<1>4. Phased
  BY DEF Phased, Tiled, EmptyCache, NoBlocks
<1>5. QED
  BY <1>2, <1>3, <1>4 DEF SpriteInv, TilesRight, WholeShown

LEMMA ListsGrow ==
  ASSUME NEW c, NEW m \in Nat, NEW n \in Nat, m <= n, Lists(c, m) PROVE Lists(c, n)
<1>1. \A x \in 1..m : x \in 1..n
  OBVIOUS
<1>2. QED
  BY <1>1 DEF Lists, OneList

LEMMA ECInv == ASSUME SpriteInv, EC PROVE SpriteInv'
<1> USE DEF SpriteInv
<1>1. PICK n \in 1..SlotsMax :
        /\ phase = "closed" /\ n # slots /\ slots' = n
        /\ cache' = IF slots <= n THEN cache
              ELSE LET gone == {i \in n..slots : cache.blk[i] # 0} IN
                   Rebuilt([cache EXCEPT
                     !.index = [b \in Blocks |->
                                  IF \E i \in gone : cache.blk[i] = b THEN 0
                                  ELSE @[b]],
                     !.blk = [i \in Ids |-> IF i \in gone THEN 0 ELSE @[i]],
                     !.cd = [i \in Ids |-> IF i \in gone THEN 0 ELSE @[i]]], n)
  BY DEF EC
<1>2. UNCHANGED <<handle, phase, todo, decoded, sat, vram, shown, torn>>
  BY DEF EC
<1>3. /\ n \in Nat /\ slots \in Nat /\ n \in 0..SlotsMax /\ cache \in CacheType
      /\ Table(cache) /\ Lists(cache, slots) /\ Within(cache)
      /\ cache.dma = <<>> /\ cache.load = <<>> /\ Tiled(cache, <<>>)
  BY <1>1, Sizes DEF Typed, Ruled, Phased
<1>4. /\ cache' \in CacheType /\ Lists(cache', n) /\ Table(cache') /\ Within(cache')
      /\ cache'.dma = <<>> /\ cache'.load = <<>> /\ Tiled(cache', <<>>)
  <2>1. CASE slots <= n
    BY <1>1, <1>3, <2>1, ListsGrow
  <2>2. CASE ~(slots <= n)
    <3> DEFINE gone == {i \in n..slots : cache.blk[i] # 0}
               x == [b \in Blocks |-> IF \E i \in gone : cache.blk[i] = b THEN 0
                                      ELSE cache.index[b]]
               k == [i \in Ids |-> IF i \in gone THEN 0 ELSE cache.blk[i]]
               t == [i \in Ids |-> IF i \in gone THEN 0 ELSE cache.cd[i]]
               c == [cache EXCEPT !.index = x, !.blk = k, !.cd = t]
    <3>1. cache' = Rebuilt(c, n)
      BY <1>1, <2>2
    <3>2. /\ x \in [Blocks -> Ids \cup {0}] /\ k \in [Ids -> Blocks \cup {0}]
          /\ t \in [Ids -> 0..Used]
      BY <1>3, Sizes DEF CacheType
    <3>3. \A i \in gone : i \in Ids
      <4>1. slots \in 0..SlotsMax /\ n \in 1..SlotsMax /\ SlotsMax \in Nat
        BY <1>1, Sizes DEF Typed
      <4>2. \A i \in n..slots : i \in Ids
        BY <4>1 DEF Ids
      <4>3. QED
        BY <4>2
    <3>4. /\ \A b \in Blocks, i \in Ids : x[b] = i <=> k[i] = b
          /\ \A i \in Ids : k[i] # 0 => k[i] = cache.blk[i]
      <4> HIDE DEF gone
      <4>1. \A b \in Blocks, i \in Ids : cache.index[b] = i <=> cache.blk[i] = b
        BY <1>3 DEF Table
      <4>2. SUFFICES ASSUME NEW b \in Blocks, NEW i \in Ids
                     PROVE  x[b] = i <=> k[i] = b
        OBVIOUS
      <4>3. CASE \E j \in gone : cache.blk[j] = b
        <5>1. PICK j \in gone : cache.blk[j] = b
          BY <4>3
        <5>2. j \in Ids /\ cache.index[b] = j
          BY <3>3, <4>1, <5>1
        <5>3. x[b] = 0 /\ i # 0 /\ b # 0
          BY <4>3, Sizes
        <5>4. k[i] # b
          <6>1. cache.blk[i] = b => i = j
            BY <4>1, <5>2
          <6>2. QED
            BY <5>1, <5>3, <6>1
        <5>5. QED
          BY <5>3, <5>4
      <4>4. CASE ~\E j \in gone : cache.blk[j] = b
        <5>1. x[b] = cache.index[b] /\ b # 0
          BY <4>4, Sizes
        <5>2. k[i] = b <=> cache.blk[i] = b
          BY <4>4, <5>1
        <5>3. QED
          BY <4>1, <5>1, <5>2
      <4>5. QED
        BY <4>3, <4>4
    <3> HIDE DEF x, k, t
    <3>5. /\ c \in CacheType /\ c.index = x /\ c.blk = k /\ c.cd = t
          /\ c.load = cache.load /\ c.dma = cache.dma
      BY <1>3, <3>2 DEF CacheType
    <3> HIDE DEF c
    <3>6. /\ cache' \in CacheType /\ Lists(cache', n) /\ cache'.cd = c.cd
          /\ cache'.blk = c.blk /\ cache'.index = c.index
          /\ cache'.load = c.load /\ cache'.dma = c.dma
      BY <1>3, <3>1, <3>5, RebuiltIs
    <3>7. Table(cache')
      BY <3>4, <3>5, <3>6 DEF Table
    <3>8. Within(cache')
      BY <1>3, <3>5, <3>6 DEF Within
    <3>9. Tiled(cache', <<>>)
      BY <1>3, <3>4, <3>5, <3>6 DEF Tiled
    <3>10. QED
      BY <1>3, <3>5, <3>6, <3>7, <3>8, <3>9
  <2>3. QED
    BY <2>1, <2>2
<1>5. Typed' /\ Ruled'
  BY <1>1, <1>2, <1>3, <1>4 DEF Typed, Ruled
<1>6. Phased'
  <2>1. Tiled(cache, <<>>)'
    BY <1>2, <1>4 DEF Tiled, TileOf
  <2>2. phase' = "closed"
    BY <1>1, <1>2
  <2>3. QED
    BY <1>4, <2>1, <2>2 DEF Phased
<1>7. QED
  BY <1>2, <1>5, <1>6 DEF TilesRight, WholeShown

LEMMA Emptied ==
  ASSUME NEW c \in CacheType
  PROVE  LET d == [c EXCEPT !.load = <<>>]  e == [c EXCEPT !.dma = <<>>] IN
           /\ d \in CacheType /\ d.cd = c.cd /\ d.blk = c.blk /\ d.index = c.index
           /\ d.dma = c.dma /\ d.load = <<>>
           /\ d.la = c.la /\ d.lb = c.lb /\ d.lc = c.lc
           /\ e \in CacheType /\ e.cd = c.cd /\ e.blk = c.blk /\ e.index = c.index
           /\ e.dma = <<>> /\ e.load = c.load
           /\ e.la = c.la /\ e.lb = c.lb /\ e.lc = c.lc
<1>1. <<>> \in Seq(Blocks) /\ <<>> \in Seq(Ids)
  OBVIOUS
<1>2. QED
  BY <1>1 DEF CacheType

LEMMA B0Inv == ASSUME SpriteInv, B0 PROVE SpriteInv'
<1> USE DEF SpriteInv
<1>1. /\ phase = "closed" /\ slots' = 0 /\ cache' = [EmptyCache EXCEPT !.dma = cache.dma]
      /\ handle' = [o \in Objects |-> NoHandle]
      /\ UNCHANGED <<phase, todo, decoded, sat, vram, shown, torn>>
  BY DEF B0
<1>2. cache' = EmptyCache
  BY <1>1 DEF Phased, EmptyCache
<1>3. cache' \in CacheType
  BY <1>2, Sizes DEF EmptyCache, NoBlocks, CacheType
<1>4. Typed'
  <2>1. NoHandle \in Handles
    BY DEF NoHandle, Handles
  <2>2. 0 \in 0..SlotsMax
    BY Sizes
  <2>3. QED
    BY <1>1, <1>3, <2>1, <2>2 DEF Typed
<1>5. Ruled'
  <2>1. Table(cache')
    BY <1>2, Sizes DEF Table, EmptyCache, NoBlocks
  <2>2. Lists(cache', slots')
    BY <1>2, NoList DEF Lists, EmptyCache
  <2>3. Within(cache')
    BY <1>2, Sizes DEF Within, EmptyCache
  <2>4. QED
    BY <2>1, <2>2, <2>3 DEF Ruled
<1>6. Phased'
  BY <1>1, <1>2 DEF Phased, Tiled, EmptyCache, NoBlocks
<1>7. QED
  BY <1>1, <1>4, <1>5, <1>6 DEF TilesRight, WholeShown

LEMMA AEInv == ASSUME SpriteInv, AE PROVE SpriteInv'
<1> USE DEF SpriteInv
<1> DEFINE t == [i \in Ids |-> IF i > slots THEN cache.cd[i]
                               ELSE IF cache.cd[i] <= 1 THEN 0 ELSE cache.cd[i] - 1]
           c == [cache EXCEPT !.cd = t]  d == Rebuilt(c, slots)
<1>1. /\ phase = "closed" /\ phase' = "open" /\ todo' = Objects /\ sat' = <<>>
      /\ cache' = [d EXCEPT !.load = <<>>]
      /\ UNCHANGED <<slots, handle, decoded, vram, shown, torn, left>>
  BY DEF AE, Aged
<1>2. /\ slots \in 0..SlotsMax /\ cache \in CacheType /\ Table(cache) /\ Within(cache)
      /\ cache.dma = <<>> /\ cache.load = <<>> /\ Tiled(cache, <<>>)
  BY <1>1 DEF Typed, Ruled, Phased
<1>3. t \in [Ids -> 0..Used]
  <2>1. \A x \in 0..Used : IF x <= 1 THEN 0 \in 0..Used ELSE x - 1 \in 0..Used
    BY Sizes
  <2>2. \A i \in Ids : cache.cd[i] \in 0..Used
    BY <1>2 DEF CacheType
  <2>3. QED
    BY <2>1, <2>2
<1> HIDE DEF t
<1>4. /\ c \in CacheType /\ c.index = cache.index /\ c.blk = cache.blk
      /\ c.dma = cache.dma
  BY <1>2, <1>3 DEF CacheType
<1> HIDE DEF c
<1>5. /\ d \in CacheType /\ Lists(d, slots) /\ d.index = c.index /\ d.blk = c.blk
      /\ d.dma = c.dma
  BY <1>2, <1>4, RebuiltIs
<1> HIDE DEF d
<1>6. /\ cache' \in CacheType /\ Lists(cache', slots) /\ cache'.index = cache.index
      /\ cache'.blk = cache.blk /\ cache'.dma = <<>> /\ cache'.load = <<>>
  BY <1>1, <1>2, <1>4, <1>5 DEF CacheType, Lists
<1>7. Typed'
  <2>1. <<>> \in Seq(Entries)
    OBVIOUS
  <2>2. QED
    BY <1>1, <1>6, <2>1 DEF Typed
<1>8. Ruled'
  BY <1>1, <1>2, <1>6, Sizes DEF Ruled, Table, Within
<1>9. Phased'
  <2>1. Tiled(cache, <<>>)'
    BY <1>1, <1>2, <1>6 DEF Tiled, TileOf
  <2>2. Kept(cache', sat')
    BY <1>1 DEF Kept
  <2>3. QED
    BY <1>1, <1>6, <2>1, <2>2 DEF Phased
<1>10. QED
  BY <1>1, <1>7, <1>8, <1>9 DEF TilesRight, WholeShown

LEMMA ADInv == ASSUME SpriteInv, NEW o \in Objects, AD(o) PROVE SpriteInv'
<1> USE DEF SpriteInv
<1>1. PICK q \in Asked(handle[o]) :
        /\ phase = "open" /\ todo' = todo \ {o}
        /\ IF q.cur = 0
           THEN /\ handle' = [handle EXCEPT ![o] = [q EXCEPT !.drawn = TRUE]]
                /\ UNCHANGED <<cache, sat, torn>>
           ELSE LET d == Composed(cache, q) IN
                /\ cache' = d.c /\ sat' = sat \o d.sat
                /\ handle' = [handle EXCEPT ![o] = d.h] /\ torn' = (torn \/ d.torn)
        /\ UNCHANGED <<slots, phase, decoded, vram, shown>>
  BY DEF AD
<1>2. /\ Good(cache) /\ Kept(cache, sat) /\ sat \in Seq(Entries)
      /\ q \in Handles /\ handle \in [Objects -> Handles]
  <2>1. handle[o] \in Handles
    BY DEF Typed
  <2>2. q \in Handles
    BY <1>1, <2>1, AskedIs
  <2>3. QED
    BY <1>1, <2>2 DEF Typed, Ruled, Phased, Good
<1>3. CASE q.cur = 0
  <2>1. [q EXCEPT !.drawn = TRUE] \in Handles
    BY <1>2 DEF Handles
  <2>2. handle' \in [Objects -> Handles]
    BY <1>1, <1>2, <1>3, <2>1
  <2>3. Typed'
    BY <1>1, <1>3, <2>2 DEF Typed
  <2>4. Ruled'
    BY <1>1, <1>3 DEF Ruled
  <2>5. Phased'
    BY <1>1, <1>3 DEF Phased, Tiled, TileOf
  <2>6. QED
    BY <1>1, <1>3, <2>3, <2>4, <2>5 DEF TilesRight, WholeShown
<1>4. CASE q.cur # 0
  <2> DEFINE d == Composed(cache, q)
  <2>1. /\ Good(d.c) /\ d.sat \in Seq(Entries) /\ Kept(d.c, sat) /\ Kept(d.c, d.sat)
        /\ d.h \in Handles /\ d.torn = FALSE
    BY <1>2, <1>4, ComposedGood
  <2>2. /\ cache' = d.c /\ sat' = sat \o d.sat
        /\ handle' = [handle EXCEPT ![o] = d.h] /\ torn' = (torn \/ d.torn)
    BY <1>1, <1>4
  <2> HIDE DEF d
  <2>3. /\ d.c \in CacheType /\ Table(d.c) /\ Lists(d.c, slots) /\ Within(d.c)
        /\ Len(d.c.dma) = Len(d.c.load) /\ Tiled(d.c, d.c.load)
    BY <2>1 DEF Good
  <2>4. sat' \in Seq(Entries) /\ Kept(cache', sat')
    BY <1>2, <2>1, <2>2, BothKept
  <2>5. handle' \in [Objects -> Handles]
    BY <1>2, <2>1, <2>2
  <2>6. Typed'
    BY <1>1, <2>2, <2>3, <2>4, <2>5 DEF Typed
  <2>7. Ruled'
    BY <1>1, <2>2, <2>3 DEF Ruled
  <2>8. Tiled(cache', cache'.load) /\ Tiled(cache, cache.load)'
    BY <1>1, <2>2, <2>3 DEF Tiled, TileOf
  <2>9. Phased'
    BY <1>1, <2>2, <2>3, <2>4, <2>8 DEF Phased
  <2>10. torn' = FALSE
    BY <2>1, <2>2 DEF WholeShown
  <2>11. QED
    BY <1>1, <2>6, <2>7, <2>9, <2>10 DEF TilesRight, WholeShown
<1>5. QED
  BY <1>3, <1>4

LEMMA AFInv == ASSUME SpriteInv, AF PROVE SpriteInv'
<1> USE DEF SpriteInv
<1>1. /\ phase = "open" /\ phase' = "vblank" /\ decoded' = cache.load
      /\ cache' = [cache EXCEPT !.load = <<>>]
      /\ UNCHANGED <<slots, handle, todo, sat, vram, shown, torn, left>>
  BY DEF AF
<1>2. /\ cache \in CacheType /\ Table(cache) /\ Lists(cache, slots) /\ Within(cache)
      /\ Len(cache.dma) = Len(cache.load) /\ Tiled(cache, cache.load)
      /\ Kept(cache, sat)
  BY <1>1 DEF Typed, Ruled, Phased
<1>3. /\ cache' \in CacheType /\ cache'.cd = cache.cd /\ cache'.blk = cache.blk
      /\ cache'.index = cache.index /\ cache'.dma = cache.dma /\ cache'.load = <<>>
      /\ cache'.la = cache.la /\ cache'.lb = cache.lb /\ cache'.lc = cache.lc
  BY <1>1, <1>2, Emptied
<1>4. Typed'
  BY <1>1, <1>2, <1>3 DEF Typed, CacheType
<1>5. Ruled'
  BY <1>1, <1>2, <1>3, Sizes DEF Ruled, Table, Lists, Within
<1>6. Phased'
  <2>1. Tiled(cache, decoded)'
    BY <1>1, <1>2, <1>3 DEF Tiled, TileOf
  <2>2. Kept(cache', sat')
    BY <1>1, <1>2, <1>3 DEF Kept
  <2>3. QED
    BY <1>1, <1>2, <1>3, <2>1, <2>2 DEF Phased
<1>7. QED
  BY <1>1, <1>4, <1>5, <1>6 DEF TilesRight, WholeShown

(* The VBlank does what Tiled foretold: the last copy to each id.          *)
LEMMA VBlankInv == ASSUME SpriteInv, VBlank PROVE SpriteInv'
<1> USE DEF SpriteInv
<1> DEFINE copied == [i \in Ids |->
             LET ks == {k \in DOMAIN cache.dma : cache.dma[k] = i} IN
             IF ks = {} THEN vram[i]
             ELSE LET k == CHOOSE k \in ks : \A j \in ks : j <= k IN
                  IF k \in DOMAIN decoded THEN decoded[k] ELSE 0]
<1>1. /\ phase = "vblank" /\ phase' = "closed" /\ shown' = sat
      /\ vram' = copied /\ cache' = [cache EXCEPT !.dma = <<>>]
      /\ UNCHANGED <<slots, handle, todo, decoded, sat, torn, left>>
  BY DEF VBlank
<1>2. /\ cache \in CacheType /\ Table(cache) /\ Lists(cache, slots) /\ Within(cache)
      /\ Len(cache.dma) = Len(decoded) /\ cache.load = <<>>
      /\ Tiled(cache, decoded) /\ Kept(cache, sat)
      /\ sat \in Seq(Entries) /\ decoded \in Seq(Blocks)
  BY <1>1 DEF Typed, Ruled, Phased
<1>3. /\ cache' \in CacheType /\ cache'.cd = cache.cd /\ cache'.blk = cache.blk
      /\ cache'.index = cache.index /\ cache'.dma = <<>> /\ cache'.load = <<>>
      /\ cache'.la = cache.la /\ cache'.lb = cache.lb /\ cache'.lc = cache.lc
  BY <1>1, <1>2, Emptied
<1>4. \A i \in Ids : copied[i] = TileOf(cache.dma, decoded, i)
  <2>1. SUFFICES ASSUME NEW i \in Ids PROVE copied[i] = TileOf(cache.dma, decoded, i)
    OBVIOUS
  <2>2. copied[i] = IF At(cache.dma, i) = {} THEN vram[i]
                    ELSE IF LastAt(cache.dma, i) \in DOMAIN decoded
                         THEN decoded[LastAt(cache.dma, i)] ELSE 0
    BY DEF At, LastAt
  <2> HIDE DEF copied
  <2>3. At(cache.dma, i) # {} => LastAt(cache.dma, i) \in DOMAIN decoded
    <3>1. SUFFICES ASSUME At(cache.dma, i) # {}
                   PROVE  LastAt(cache.dma, i) \in DOMAIN decoded
      OBVIOUS
    <3>2. /\ Len(decoded) \in Nat /\ DOMAIN decoded = 1..Len(decoded)
          /\ cache.dma \in Seq(Ids)
      BY <1>2 DEF CacheType
    <3>3. At(cache.dma, i) \in SUBSET (1..Len(decoded))
      BY <1>2, <3>2 DEF At
    <3>4. \E k \in At(cache.dma, i) : \A m \in At(cache.dma, i) : m <= k
      BY <3>1, <3>2, <3>3, LastOf
    <3>5. LastAt(cache.dma, i) \in At(cache.dma, i)
      BY <3>4 DEF LastAt
    <3>6. QED
      BY <3>2, <3>3, <3>5
  <2>4. QED
    BY <2>2, <2>3 DEF TileOf
<1> HIDE DEF copied
<1>5. \A i \in Ids : cache.blk[i] # 0 => vram'[i] = cache.blk[i]
  BY <1>1, <1>2, <1>4 DEF Tiled
<1>6. Typed'
  BY <1>1, <1>3 DEF Typed
<1>7. Ruled'
  BY <1>1, <1>2, <1>3, Sizes DEF Ruled, Table, Lists, Within
<1>8. Phased'
  <2>1. Tiled(cache, <<>>)'
    <3>1. \A i \in Ids : TileOf(cache.dma, <<>>, i)' = vram'[i]
      BY <1>3 DEF TileOf, At
    <3>2. QED
      BY <1>3, <1>5, <3>1 DEF Tiled
  <2>2. QED
    BY <1>1, <1>3, <2>1 DEF Phased
<1>9. TilesRight'
  <2>1. SUFFICES ASSUME NEW k \in DOMAIN sat PROVE vram'[sat[k].id] = sat[k].blk
    BY <1>1 DEF TilesRight
  <2>2. sat[k] \in Entries
    BY <1>2, <2>1
  <2>3. sat[k].id \in Ids /\ sat[k].blk # 0 /\ cache.blk[sat[k].id] = sat[k].blk
    BY <1>2, <2>1, <2>2, Sizes DEF Kept, Entries
  <2>4. QED
    BY <1>5, <2>3
<1>10. QED
  BY <1>1, <1>6, <1>7, <1>8, <1>9 DEF WholeShown

LEMMA StillInv == ASSUME SpriteInv, UNCHANGED spritesVars PROVE SpriteInv'
BY DEF spritesVars, SpriteInv, Typed, Ruled, Phased, Tiled, TileOf, Kept,
       Lists, Table, Within, TilesRight, WholeShown

LEMMA SpritesHold == SpritesSpec => []SpriteInv
<1>1. SpritesInit => SpriteInv
  BY StartInv
<1>2. SpriteInv /\ [SpritesNext]_spritesVars => SpriteInv'
  <2>1. SUFFICES ASSUME SpriteInv, [SpritesNext]_spritesVars PROVE SpriteInv'
    OBVIOUS
  <2>2. QED
    BY <2>1, ECInv, B0Inv, AEInv, ADInv, AFInv, VBlankInv, StillInv DEF SpritesNext
<1>3. QED
  BY <1>1, <1>2, PTL DEF SpritesSpec

(* The sprite cache keeps every countdown, list and count in its range.    *)
THEOREM SpritesTyped == SpritesSpec => []SpritesTypeOK
<1>1. SpriteInv => SpritesTypeOK
  <2>1. SUFFICES ASSUME SpriteInv PROVE SpritesTypeOK
    OBVIOUS
  <2>2. /\ slots \in 0..SlotsMax /\ cache \in CacheType /\ Lists(cache, slots)
        /\ Within(cache)
    BY <2>1 DEF SpriteInv, Typed, Ruled
  <2>3. cache.la = cache["la"] /\ cache.lb = cache["lb"] /\ cache.lc = cache["lc"]
    OBVIOUS
  <2>4. \A i \in Ids : cache.cd[i] \in 0..Used /\ cache.blk[i] \in Blocks \cup {0}
    BY <2>2 DEF CacheType
  <2>5. QED
    BY <2>2, <2>3, <2>4 DEF SpritesTypeOK, Lists, OneList, Within, UsedBudget
<1>2. QED
  BY <1>1, SpritesHold, PTL

(* The sparse index and the ids' blocks say the same.                      *)
THEOREM IndexIsRight == SpritesSpec => []IndexIsTable
<1>1. SpriteInv => IndexIsTable
  BY DEF SpriteInv, Ruled, Table, IndexIsTable
<1>2. QED
  BY <1>1, SpritesHold, PTL

(* What is shown is what was asked for.                                    *)
THEOREM ShownIsAsked == SpritesSpec => []TilesRight
<1>1. SpriteInv => TilesRight
  BY DEF SpriteInv
<1>2. QED
  BY <1>1, SpritesHold, PTL

(* A pre-loaded pose is shown whole.                                       *)
THEOREM PoseIsWhole == SpritesSpec => []WholeShown
<1>1. SpriteInv => WholeShown
  BY DEF SpriteInv
<1>2. QED
  BY <1>1, SpritesHold, PTL
-----------------------------------------------------------------------------
Kinds == {"level", "tone", "tl", "volume", "hard", "soft", "note", "legato", "program"}
Size(k) ==
  IF k \in {"hard", "soft"} THEN 2
  ELSE IF k = "program" THEN 3 ELSE IF k = "volume" THEN 5 ELSE 4
Msgs == {m \in [k : Kinds, v : Nat, n : Nat, x : Nat] :
           m.n = Size(m.k) /\ (m.k = "program" => m.v \in Fm)}
Chips == [Fm -> Nat]
Queues == [q : Seq(Msgs), len : Nat, stale : {<<"", 0>>}, cost : Nat, budget : Nat,
           frame : Nat, below : {FALSE}]
Packed(z) == z \in Queues /\ z.len = Bytes(z.q) /\ z.len < QBytes
\* What the Z80 will have been told is the same after z's messages.
Keeps(y, z) == Packed(z) /\ \A c \in Chips : Sent(z.q, c) = Sent(y.q, c)

Players(c) ==
  {p \in [z : Queues, voice : [Fm -> [prog : Nat, sent : Nat]]] :
     /\ Packed(p.z)
     /\ \A v \in Fm : p.voice[v].prog \in {0, None, Sent(p.z.q, c)[v]}}

Summed(n, m) == n + m.n

(* The fold of the program changes: its values along the sequence. *)
LEMMA SentSteps ==
  ASSUME NEW A, NEW a \in A, NEW q \in Seq(Msgs),
         \A d \in A, x \in Msgs : Told(d, x) \in A
  PROVE  \E acc \in [0..Len(q) -> A] :
           /\ acc[0] = a
           /\ \A k \in 1..Len(q) : acc[k] = Told(acc[k - 1], q[k])
           /\ Sent(q, a) = acc[Len(q)]
<1> DEFINE n == Len(q)
           F == [x \in A \X Msgs |-> Told(x[1], x[2])]
           Step(it, s) == IF s = {} THEN a ELSE Told(it[s \ {Max(s)}], q[Max(s)])
           iter == CHOOSE it : it = [s \in SUBSET DOMAIN q |-> Step(it, s)]
           H == [s \in SUBSET (1..n) |-> Step(iter, s)]
<1>1. n \in Nat /\ DOMAIN q = 1..n /\ q \in [1..n -> Msgs]
  OBVIOUS
<1>2. F \in [A \X Msgs -> A]
  OBVIOUS
<1>3. PICK it \in [SUBSET (1..n) -> A] : Folds(it, F, a, n, q)
  <2> HIDE DEF F, n
  <2>1. QED
    BY <1>1, <1>2, FoldExists
<1>4. ASSUME NEW s \in SUBSET (1..n), s # {}, NEW i, i[s \ {Max(s)}] \in A
      PROVE  Step(i, s) = F[<<i[s \ {Max(s)}], q[Max(s)]>>]
  <2>1. Max(s) \in 1..n
    BY <1>1, <1>4, LastOf
  <2>2. q[Max(s)] \in Msgs
    BY <1>1, <2>1
  <2>3. QED
    BY <1>4, <2>2
<1>5. \A s \in SUBSET (1..n) : it[s] = Step(it, s)
  <2>1. SUFFICES ASSUME NEW s \in SUBSET (1..n), s # {} PROVE it[s] = Step(it, s)
    BY <1>3 DEF Folds
  <2>2. s \ {Max(s)} \in SUBSET (1..n) /\ it[s \ {Max(s)}] \in A
    BY <1>3
  <2> HIDE DEF Step, F
  <2>3. QED
    BY <1>3, <1>4, <2>1, <2>2 DEF Folds
<1>6. iter = [s \in SUBSET DOMAIN q |-> Step(iter, s)]
  <2> HIDE DEF Step, n, F
  <2>1. it = [s \in SUBSET DOMAIN q |-> Step(it, s)]
    BY <1>1, <1>3, <1>5
  <2>2. QED
    BY <2>1
<1>7. Sent(q, a) = iter[DOMAIN q]
  BY Zenon DEF FoldLeft, MapThenFoldSet, Sent
<1> HIDE DEF iter
<1>8. Recurs(iter, H, a, n)
  BY <1>1, <1>6 DEF Recurs
<1>9. Agrees(iter, H, F, A, n, q)
  <2> HIDE DEF F, Step
  <2>1. QED
    BY <1>4 DEF H, Agrees
<1>10. PICK acc \in [0..n -> A] : Walk(acc, F, a, n, q) /\ iter[1..n] = acc[n]
  <2> HIDE DEF F, H, n
  <2>1. Walked(iter, F, A, a, n, q)
    BY <1>1, <1>2, <1>8, <1>9, PrefixValues
  <2>2. QED
    BY <2>1 DEF Walked
<1>11. \A k \in 1..n : acc[k] = Told(acc[k - 1], q[k])
  <2>1. SUFFICES ASSUME NEW k \in 1..n PROVE acc[k] = Told(acc[k - 1], q[k])
    OBVIOUS
  <2>2. acc[k - 1] \in A /\ q[k] \in Msgs
    BY <1>1, <1>10
  <2>3. QED
    BY <1>10, <2>2 DEF Walk
<1>12. QED
  BY <1>1, <1>7, <1>10, <1>11 DEF Walk

(* The fold of the bytes: its values along the sequence. *)
LEMMA BytesSteps ==
  ASSUME NEW A, 0 \in A, NEW q \in Seq(Msgs),
         \A d \in A, x \in Msgs : Summed(d, x) \in A
  PROVE  \E acc \in [0..Len(q) -> A] :
           /\ acc[0] = 0
           /\ \A k \in 1..Len(q) : acc[k] = Summed(acc[k - 1], q[k])
           /\ Bytes(q) = acc[Len(q)]
<1> DEFINE n == Len(q)
           F == [x \in A \X Msgs |-> Summed(x[1], x[2])]
           Step(it, s) == IF s = {} THEN 0 ELSE Summed(it[s \ {Max(s)}], q[Max(s)])
           iter == CHOOSE it : it = [s \in SUBSET DOMAIN q |-> Step(it, s)]
           H == [s \in SUBSET (1..n) |-> Step(iter, s)]
<1>1. n \in Nat /\ DOMAIN q = 1..n /\ q \in [1..n -> Msgs]
  OBVIOUS
<1>2. F \in [A \X Msgs -> A]
  OBVIOUS
<1>3. PICK it \in [SUBSET (1..n) -> A] : Folds(it, F, 0, n, q)
  <2> HIDE DEF F, n
  <2>1. QED
    BY <1>1, <1>2, FoldExists
<1>4. ASSUME NEW s \in SUBSET (1..n), s # {}, NEW i, i[s \ {Max(s)}] \in A
      PROVE  Step(i, s) = F[<<i[s \ {Max(s)}], q[Max(s)]>>]
  <2>1. Max(s) \in 1..n
    BY <1>1, <1>4, LastOf
  <2>2. q[Max(s)] \in Msgs
    BY <1>1, <2>1
  <2>3. QED
    BY <1>4, <2>2
<1>5. \A s \in SUBSET (1..n) : it[s] = Step(it, s)
  <2>1. SUFFICES ASSUME NEW s \in SUBSET (1..n), s # {} PROVE it[s] = Step(it, s)
    BY <1>3 DEF Folds
  <2>2. s \ {Max(s)} \in SUBSET (1..n) /\ it[s \ {Max(s)}] \in A
    BY <1>3
  <2> HIDE DEF Step, F
  <2>3. QED
    BY <1>3, <1>4, <2>1, <2>2 DEF Folds
<1>6. iter = [s \in SUBSET DOMAIN q |-> Step(iter, s)]
  <2> HIDE DEF Step, n, F
  <2>1. it = [s \in SUBSET DOMAIN q |-> Step(it, s)]
    BY <1>1, <1>3, <1>5
  <2>2. QED
    BY <2>1
<1>7. Bytes(q) = iter[DOMAIN q]
  BY Zenon DEF FoldLeft, MapThenFoldSet, Bytes, Summed
<1> HIDE DEF iter
<1>8. Recurs(iter, H, 0, n)
  BY <1>1, <1>6 DEF Recurs
<1>9. Agrees(iter, H, F, A, n, q)
  <2> HIDE DEF F, Step
  <2>1. QED
    BY <1>4 DEF H, Agrees
<1>10. PICK acc \in [0..n -> A] : Walk(acc, F, 0, n, q) /\ iter[1..n] = acc[n]
  <2> HIDE DEF F, H, n
  <2>1. Walked(iter, F, A, 0, n, q)
    BY <1>1, <1>2, <1>8, <1>9, PrefixValues
  <2>2. QED
    BY <2>1 DEF Walked
<1>11. \A k \in 1..n : acc[k] = Summed(acc[k - 1], q[k])
  <2>1. SUFFICES ASSUME NEW k \in 1..n PROVE acc[k] = Summed(acc[k - 1], q[k])
    OBVIOUS
  <2>2. acc[k - 1] \in A /\ q[k] \in Msgs
    BY <1>1, <1>10
  <2>3. QED
    BY <1>10, <2>2 DEF Walk
<1>12. QED
  BY <1>1, <1>7, <1>10, <1>11 DEF Walk

LEMMA OrderIs == Order \in Seq(0..25) /\ Order # <<>> /\ Order[1] \in 10..25
  BY SongAssumption

LEMMA FmIs == Fm \subseteq 0..5 /\ Psg \subseteq 6..9 /\ Voices \subseteq 0..25
<1>1. \A x \in DOMAIN Order : Order[x] \in 0..25
  BY OrderIs
<1>2. QED
  BY <1>1 DEF Fm, Psg, Voices, Range

LEMMA ToldIs == ASSUME NEW c \in Chips, NEW m \in Msgs PROVE Told(c, m) \in Chips
  BY DEF Told, Chips, Msgs

LEMMA SentWalk ==
  ASSUME NEW q \in Seq(Msgs), NEW c \in Chips
  PROVE  \E f \in [0..Len(q) -> Chips] :
           /\ f[0] = c
           /\ \A k \in 1..Len(q) : f[k] = Told(f[k - 1], q[k])
           /\ Sent(q, c) = f[Len(q)]
<1>1. \A d \in Chips, x \in Msgs : Told(d, x) \in Chips
  BY ToldIs
<1>2. QED
  BY <1>1, SentSteps

LEMMA SentIs == ASSUME NEW q \in Seq(Msgs), NEW c \in Chips PROVE Sent(q, c) \in Chips
<1>1. PICK acc \in [0..Len(q) -> Chips] : Sent(q, c) = acc[Len(q)]
  BY ToldIs, SentSteps
<1>2. QED
  BY <1>1

LEMMA BytesIs == ASSUME NEW q \in Seq(Msgs) PROVE Bytes(q) \in Nat
<1>1. \A d \in Nat, x \in Msgs : Summed(d, x) \in Nat
  BY DEF Summed, Msgs
<1>2. PICK acc \in [0..Len(q) -> Nat] : Bytes(q) = acc[Len(q)]
  BY <1>1, BytesSteps
<1>3. QED
  BY <1>2

LEMMA NoBytes == Bytes(<<>>) = 0
<1>1. \A d \in Nat, x \in Msgs : Summed(d, x) \in Nat
  BY DEF Summed, Msgs
<1> DEFINE q == <<>>
<1>2. q \in Seq(Msgs) /\ Len(q) = 0
  OBVIOUS
<1> HIDE DEF q
<1>3. PICK acc \in [0..Len(q) -> Nat] : acc[0] = 0 /\ Bytes(q) = acc[Len(q)]
  BY <1>1, <1>2, BytesSteps
<1>4. QED
  BY <1>2, <1>3 DEF q

LEMMA AppendKeeps ==
  ASSUME NEW E, NEW q \in Seq(E), NEW m \in E
  PROVE  /\ Append(q, m) \in Seq(E) /\ Len(Append(q, m)) = Len(q) + 1
         /\ Append(q, m)[Len(q) + 1] = m
         /\ \A k \in 1..Len(q) : Append(q, m)[k] = q[k]
  OBVIOUS

\* A message behind the others comes last.
LEMMA SentAppend ==
  ASSUME NEW q \in Seq(Msgs), NEW m \in Msgs, NEW c \in Chips
  PROVE  Sent(Append(q, m), c) = Told(Sent(q, c), m)
<1> DEFINE r == Append(q, m)  n == Len(q)
<1>1. /\ r \in Seq(Msgs) /\ n \in Nat /\ Len(r) = n + 1 /\ r[n + 1] = m
      /\ \A k \in 1..n : r[k] = q[k]
  BY AppendKeeps
<1> HIDE DEF r
<1>2. PICK f \in [0..n -> Chips] :
        /\ f[0] = c
        /\ \A k \in 1..n : f[k] = Told(f[k - 1], q[k])
        /\ Sent(q, c) = f[n]
  BY SentWalk
<1>3. PICK h \in [0..Len(r) -> Chips] :
        /\ h[0] = c
        /\ \A k \in 1..Len(r) : h[k] = Told(h[k - 1], r[k])
        /\ Sent(r, c) = h[Len(r)]
  BY <1>1, SentWalk
<1> DEFINE S == {k \in 0..n : f[k] = h[k]}
<1>4. \A k \in 0..n : k \in S
  <2>1. 0 \in S
    BY <1>1, <1>2, <1>3
  <2>2. ASSUME NEW k \in 0..(n - 1), k \in S PROVE k + 1 \in S
    <3>1. k + 1 \in 1..n /\ k + 1 \in 1..Len(r) /\ (k + 1) - 1 = k /\ k + 1 \in 0..n
      BY <1>1, <2>2
    <3>2. f[k + 1] = Told(f[k], q[k + 1]) /\ h[k + 1] = Told(h[k], r[k + 1])
      BY <1>2, <1>3, <3>1
    <3>3. QED
      BY <1>1, <2>2, <3>1, <3>2
  <2> HIDE DEF S
  <2>3. QED
    BY <1>1, <2>1, <2>2, UpTo
<1>5. f[n] = h[n]
  BY <1>1, <1>4
<1>6. h[n + 1] = Told(h[n], r[n + 1])
  <2>1. n + 1 \in 1..Len(r) /\ (n + 1) - 1 = n
    BY <1>1
  <2>2. QED
    BY <1>3, <2>1
<1>7. QED
  BY <1>1, <1>2, <1>3, <1>5, <1>6 DEF r

LEMMA BytesAppend ==
  ASSUME NEW q \in Seq(Msgs), NEW m \in Msgs
  PROVE  Bytes(Append(q, m)) = Bytes(q) + m.n
<1> DEFINE r == Append(q, m)  n == Len(q)
<1>1. /\ r \in Seq(Msgs) /\ n \in Nat /\ Len(r) = n + 1 /\ r[n + 1] = m
      /\ \A k \in 1..n : r[k] = q[k]
  BY AppendKeeps
<1> HIDE DEF r
<1>0. \A d \in Nat, x \in Msgs : Summed(d, x) \in Nat
  BY DEF Summed, Msgs
<1>2. PICK f \in [0..n -> Nat] :
        /\ f[0] = 0
        /\ \A k \in 1..n : f[k] = Summed(f[k - 1], q[k])
        /\ Bytes(q) = f[n]
  BY <1>0, BytesSteps
<1>3. PICK h \in [0..Len(r) -> Nat] :
        /\ h[0] = 0
        /\ \A k \in 1..Len(r) : h[k] = Summed(h[k - 1], r[k])
        /\ Bytes(r) = h[Len(r)]
  BY <1>0, <1>1, BytesSteps
<1> DEFINE S == {k \in 0..n : f[k] = h[k]}
<1>4. \A k \in 0..n : k \in S
  <2>1. 0 \in S
    BY <1>1, <1>2, <1>3
  <2>2. ASSUME NEW k \in 0..(n - 1), k \in S PROVE k + 1 \in S
    <3>1. k + 1 \in 1..n /\ k + 1 \in 1..Len(r) /\ (k + 1) - 1 = k /\ k + 1 \in 0..n
      BY <1>1, <2>2
    <3>2. f[k + 1] = Summed(f[k], q[k + 1]) /\ h[k + 1] = Summed(h[k], r[k + 1])
      BY <1>2, <1>3, <3>1
    <3>3. QED
      BY <1>1, <2>2, <3>1, <3>2
  <2> HIDE DEF S
  <2>3. QED
    BY <1>1, <2>1, <2>2, UpTo
<1>5. f[n] = h[n]
  BY <1>1, <1>4
<1>6. h[n + 1] = Summed(h[n], r[n + 1])
  <2>1. n + 1 \in 1..Len(r) /\ (n + 1) - 1 = n
    BY <1>1
  <2>2. QED
    BY <1>3, <2>1
<1>7. QED
  BY <1>1, <1>2, <1>3, <1>5, <1>6 DEF r, Summed

LEMMA MsgIs ==
  ASSUME NEW k \in Kinds \ {"program"}, NEW v \in Nat
  PROVE  Msg(k, v, Size(k), 0) \in Msgs
  BY DEF Msg, Msgs, Kinds, Size

\* A message put, or nothing when it does not fit.
LEMMA PutFits ==
  ASSUME NEW z, Packed(z), NEW m \in Msgs, NEW cost \in Nat
  PROVE  /\ Packed(Put(z, m, cost))
         /\ Put(z, m, cost) # z => Put(z, m, cost).q = Append(z.q, m)
<1>1. z \in Queues /\ z.q \in Seq(Msgs) /\ z.len \in Nat /\ z.cost \in Nat /\ m.n \in Nat
  BY DEF Packed, Queues, Msgs
<1>2. CASE z.len + m.n >= QBytes
  BY <1>2 DEF Put
<1>3. CASE ~(z.len + m.n >= QBytes)
  <2> DEFINE y == [z EXCEPT !.q = Append(z.q, m), !.len = z.len + m.n,
                            !.cost = z.cost + cost]
  <2>1. Put(z, m, cost) = y
    BY <1>3 DEF Put
  <2>2. Append(z.q, m) \in Seq(Msgs) /\ z.len + m.n \in Nat /\ z.cost + cost \in Nat
    BY <1>1
  <2>3. y \in Queues /\ y.q = Append(z.q, m) /\ y.len = z.len + m.n
    BY <1>1, <2>2 DEF Queues
  <2>4. Bytes(Append(z.q, m)) = Bytes(z.q) + m.n
    BY <1>1, BytesAppend
  <2>5. z.len + m.n < QBytes
    BY <1>1, <1>3, SongAssumption
  <2> HIDE DEF y
  <2>6. QED
    BY <2>1, <2>3, <2>4, <2>5 DEF Packed
<1>4. QED
  BY <1>2, <1>3

LEMMA KeepsSelf == ASSUME NEW z, Packed(z) PROVE Keeps(z, z)
  BY DEF Keeps

LEMMA PutKeeps ==
  ASSUME NEW z, Packed(z), NEW m \in Msgs, m.k # "program", NEW cost \in Nat
  PROVE  Keeps(z, Put(z, m, cost))
<1>1. Packed(Put(z, m, cost))
  BY PutFits
<1>2. CASE Put(z, m, cost) = z
  BY <1>2, KeepsSelf
<1>3. CASE Put(z, m, cost) # z
  <2>1. Put(z, m, cost).q = Append(z.q, m) /\ z.q \in Seq(Msgs)
    BY <1>3, PutFits DEF Packed, Queues
  <2>2. ASSUME NEW c \in Chips PROVE Sent(Append(z.q, m), c) = Sent(z.q, c)
    BY <2>1, SentAppend DEF Told
  <2>3. QED
    BY <1>1, <2>1, <2>2 DEF Keeps
<1>4. QED
  BY <1>2, <1>3

LEMMA SameSeq ==
  ASSUME NEW E, NEW q \in Seq(E), NEW r \in Seq(E), Len(q) = Len(r),
         \A i \in 1..Len(q) : q[i] = r[i]
  PROVE  q = r
<1>1. q \in [1..Len(q) -> E] /\ r \in [1..Len(q) -> E]
  OBVIOUS
<1>2. QED
  BY <1>1

LEMMA PrefixIs ==
  ASSUME NEW E, NEW q \in Seq(E), NEW k \in 0..Len(q)
  PROVE  /\ SubSeq(q, 1, k) \in Seq(E) /\ Len(SubSeq(q, 1, k)) = k
         /\ \A i \in 1..k : SubSeq(q, 1, k)[i] = q[i]
<1> DEFINE p == SubSeq(q, 1, k)
<1>1. p \in Seq(E) /\ DOMAIN p = 1..k /\ \A i \in 1..k : p[i] = q[i]
  OBVIOUS
<1> HIDE DEF p
<1>2. Len(p) = k
  BY <1>1
<1>3. QED
  BY <1>1, <1>2 DEF p

LEMMA FrontIs ==
  ASSUME NEW q \in Seq(Msgs), q # <<>>
  PROVE  /\ Len(q) \in Nat \ {0} /\ q[Len(q)] \in Msgs
         /\ Front(q) \in Seq(Msgs) /\ Len(Front(q)) = Len(q) - 1
         /\ \A i \in 1..(Len(q) - 1) : Front(q)[i] = q[i]
<1>1. Len(q) \in Nat \ {0} /\ \A i \in 1..Len(q) : q[i] \in Msgs
  OBVIOUS
<1>2. Front(q) = SubSeq(q, 1, Len(q) - 1)
  BY DEF Front
<1>3. Front(q) \in Seq(Msgs) /\ Len(Front(q)) = Len(q) - 1
  <2>1. Len(q) - 1 \in 0..Len(q)
    BY <1>1
  <2>2. QED
    BY <1>2, <2>1, PrefixIs
<1>4. \A i \in 1..(Len(q) - 1) : Front(q)[i] = q[i]
  BY <1>1, <1>2
<1>5. Len(q) \in 1..Len(q)
  BY <1>1
<1>6. q[Len(q)] \in Msgs
  BY <1>1, <1>5
<1>7. QED
  BY <1>1, <1>3, <1>4, <1>6

LEMMA FrontAndLast ==
  ASSUME NEW q \in Seq(Msgs), q # <<>>, NEW m \in Msgs
  PROVE  /\ q = Append(Front(q), q[Len(q)])
         /\ [q EXCEPT ![Len(q)] = m] = Append(Front(q), m)
<1> DEFINE f == Front(q)  n == Len(q)  x0 == q[n]  o == [q EXCEPT ![n] = m]
<1>1. /\ n \in Nat \ {0} /\ x0 \in Msgs /\ f \in Seq(Msgs) /\ Len(f) = n - 1
      /\ \A i \in 1..(n - 1) : f[i] = q[i]
  BY FrontIs
<1>2. o \in Seq(Msgs) /\ Len(o) = n /\ o[n] = m /\ \A i \in 1..(n - 1) : o[i] = q[i]
  BY <1>1
<1> HIDE DEF f, o
<1>3. ASSUME NEW x \in Msgs
      PROVE  /\ Append(f, x) \in Seq(Msgs) /\ Len(Append(f, x)) = n
             /\ Append(f, x)[n] = x /\ \A i \in 1..(n - 1) : Append(f, x)[i] = q[i]
  BY <1>1
<1>4. q = Append(f, x0)
  <2>1. \A i \in 1..n : q[i] = Append(f, x0)[i]
    BY <1>1, <1>3
  <2>2. QED
    BY <1>1, <1>3, <2>1, SameSeq
<1>5. o = Append(f, m)
  <2>1. \A i \in 1..n : o[i] = Append(f, m)[i]
    BY <1>1, <1>2, <1>3
  <2>2. QED
    BY <1>1, <1>2, <1>3, <2>1, SameSeq
<1>6. QED
  BY <1>4, <1>5 DEF f, o

\* The message behind the last: the tag of no message is that of an empty queue.
LEMMA LastIs ==
  ASSUME NEW z, Packed(z), NEW k \in Kinds, NEW v, LastTag(z) = <<k, v>>
  PROVE  /\ z.q # <<>> /\ z.q[Len(z.q)] \in Msgs
         /\ z.q[Len(z.q)].k = k /\ z.q[Len(z.q)].n = Size(k)
<1>1. z.q \in Seq(Msgs) /\ z.stale = <<"", 0>>
  BY DEF Packed, Queues
<1>2. z.q # <<>>
  <2>1. SUFFICES ASSUME z.q = <<>> PROVE FALSE
    OBVIOUS
  <2>2. <<"", 0>> = <<k, v>>
    BY <1>1, <2>1 DEF LastTag
  <2>3. k = ""
    BY <2>2
  <2>4. QED
    BY <2>3 DEF Kinds
<1>3. z.q[Len(z.q)] \in Msgs
  BY <1>1, <1>2, FrontIs DEF Packed
<1>4. <<z.q[Len(z.q)].k, z.q[Len(z.q)].v>> = <<k, v>>
  BY <1>2 DEF LastTag, Tag
<1>5. z.q[Len(z.q)].k = k
  BY <1>4
<1>6. QED
  BY <1>2, <1>3, <1>5 DEF Msgs

LEMMA OverKeeps ==
  ASSUME NEW z, Packed(z), NEW k \in Kinds \ {"program"}, NEW v, LastTag(z) = <<k, v>>,
         NEW m \in Msgs, m.n = Size(k), m.k # "program"
  PROVE  Keeps(z, Over(z, m)) /\ Over(z, m).cost = z.cost
<1>1. z \in Queues /\ z.q \in Seq(Msgs) /\ z.q # <<>>
  BY LastIs DEF Packed, Queues
<1>2. /\ z.q[Len(z.q)] \in Msgs /\ z.q[Len(z.q)].n = m.n
      /\ z.q[Len(z.q)].k # "program"
  BY LastIs
<1> DEFINE old == z.q[Len(z.q)]  f == Front(z.q)
<1>0. z.q = Append(f, old) /\ [z.q EXCEPT ![Len(z.q)] = m] = Append(f, m)
  BY <1>1, FrontAndLast
<1>3. f \in Seq(Msgs)
  BY <1>1, FrontIs
<1> HIDE DEF f
<1> DEFINE y == [z EXCEPT !.q = Append(f, m)]
<1>4. Over(z, m) = y
  BY <1>0, <1>1 DEF Over, Queues
<1>5. Append(f, m) \in Seq(Msgs)
  BY <1>3
<1>6. y \in Queues /\ y.q = Append(f, m) /\ y.len = z.len /\ y.cost = z.cost
  BY <1>1, <1>5 DEF Queues
<1>7. Bytes(Append(f, m)) = Bytes(z.q)
  <2>1. Bytes(Append(f, m)) = Bytes(f) + m.n /\ Bytes(Append(f, old)) = Bytes(f) + old.n
    BY <1>2, <1>3, BytesAppend
  <2> HIDE DEF old
  <2>2. QED
    BY <1>0, <1>2, <2>1 DEF old
<1>8. ASSUME NEW c \in Chips PROVE Sent(Append(f, m), c) = Sent(z.q, c)
  <2>1. /\ Sent(Append(f, m), c) = Told(Sent(f, c), m)
        /\ Sent(Append(f, old), c) = Told(Sent(f, c), old)
    BY <1>2, <1>3, SentAppend
  <2>2. Told(Sent(f, c), m) = Sent(f, c) /\ Told(Sent(f, c), old) = Sent(f, c)
    BY <1>2 DEF Told
  <2> HIDE DEF old
  <2>3. QED
    BY <1>0, <2>1, <2>2
<1> HIDE DEF y, old
<1>9. QED
  BY <1>4, <1>6, <1>7, <1>8 DEF Keeps, Packed

LEMMA Costlier ==
  ASSUME NEW y, NEW z, Keeps(y, z), NEW cost \in Nat
  PROVE  Keeps(y, [z EXCEPT !.cost = cost])
<1> DEFINE x == [z EXCEPT !.cost = cost]
<1>1. z \in Queues
  BY DEF Keeps, Packed
<1>2. x \in Queues /\ x.q = z.q /\ x.len = z.len
  BY <1>1 DEF Queues
<1> HIDE DEF x
<1>3. Keeps(y, x)
  BY <1>2 DEF Keeps, Packed
<1>4. QED
  BY <1>3 DEF x

LEMMA Sized ==
  /\ \A k \in {"level", "tone", "tl", "note", "legato"}, v \in Nat :
       Msg(k, v, 4, 0) \in Msgs
  /\ \A k \in {"hard", "soft"}, v \in Nat : Msg(k, v, 2, 0) \in Msgs
  /\ Msg("volume", 0, 5, 0) \in Msgs
  BY DEF Msg, Msgs, Kinds, Size

LEMMA SizesAre ==
  /\ Size("level") = 4 /\ Size("tone") = 4 /\ Size("note") = 4 /\ Size("legato") = 4
  /\ Size("hard") = 2
  BY DEF Size

LEMMA LevelKeeps ==
  ASSUME NEW z, Packed(z), NEW v \in Nat
  PROVE  Keeps(z, LevelMsg(z, v))
<1> DEFINE m == Msg("level", v, 4, 0)
<1>1. m \in Msgs /\ m.k = "level" /\ m.n = 4
  BY Sized DEF Msg
<1> HIDE DEF m
<1>2. Keeps(z, Put(z, m, 22))
  BY <1>1, PutKeeps
<1>3. LastTag(z) = <<"level", v>> => Keeps(z, Over(z, m))
  BY <1>1, OverKeeps, SizesAre DEF Kinds
<1>4. QED
  BY <1>2, <1>3 DEF LevelMsg, m

LEMMA ToneKeeps ==
  ASSUME NEW z, Packed(z), NEW v \in 6..9
  PROVE  Keeps(z, ToneMsg(z, v))
<1> DEFINE m == Msg("tone", v - 6, 4, 0)
<1>1. m \in Msgs /\ m.k = "tone" /\ m.n = 4
  BY Sized DEF Msg
<1> HIDE DEF m
<1>2. Keeps(z, Put(z, m, 4))
  BY <1>1, PutKeeps
<1>3. LastTag(z) = <<"tone", v>> => Keeps(z, Over(z, m))
  BY <1>1, OverKeeps, SizesAre DEF Kinds
<1>4. QED
  BY <1>2, <1>3 DEF ToneMsg, m

LEMMA TlKeeps ==
  ASSUME NEW z, Packed(z), NEW v \in Nat
  PROVE  Keeps(z, TlMsg(z, v))
  BY Sized, PutKeeps DEF TlMsg, Msg

LEMMA VolumeKeeps ==
  ASSUME NEW z, Packed(z)
  PROVE  Keeps(z, VolumeMsg(z))
  BY Sized, PutKeeps DEF VolumeMsg, Msg

LEMMA KeyOffKeeps ==
  ASSUME NEW z, Packed(z), NEW v \in Nat, NEW hard \in BOOLEAN
  PROVE  Keeps(z, KeyOffMsg(z, v, hard))
<1> DEFINE m == Msg(IF hard THEN "hard" ELSE "soft", v, 2, 0)
<1>1. m \in Msgs /\ m.k # "program" /\ m.n = 2
  BY Sized DEF Msg
<1> HIDE DEF m
<1>2. Keeps(z, Put(z, m, 9)) /\ Keeps(z, Put(z, m, 4)) /\ Keeps(z, z)
  BY <1>1, PutKeeps, KeepsSelf
<1>3. LastTag(z) = <<"hard", v>> => Keeps(z, Over(z, m))
  BY <1>1, OverKeeps, SizesAre DEF Kinds
<1>4. CASE z.len + 2 >= QBytes
  BY <1>2, <1>4 DEF KeyOffMsg
<1>5. CASE ~(z.len + 2 >= QBytes) /\ hard
  <2>1. KeyOffMsg(z, v, hard) =
          IF LastTag(z) = <<"hard", v>> THEN Over(z, m) ELSE Put(z, m, 9)
    BY <1>5 DEF KeyOffMsg, m
  <2>2. QED
    BY <1>2, <1>3, <2>1
<1>6. CASE ~(z.len + 2 >= QBytes) /\ ~hard
  <2>1. KeyOffMsg(z, v, hard) =
          IF LastTag(z) \in {<<"soft", v>>, <<"hard", v>>} THEN z ELSE Put(z, m, 4)
    BY <1>6 DEF KeyOffMsg, m
  <2>2. QED
    BY <1>2, <2>1
<1>7. QED
  BY <1>4, <1>5, <1>6

LEMMA LegatoKeeps ==
  ASSUME NEW z, Packed(z), NEW v \in Nat
  PROVE  Keeps(z, LegatoMsg(z, v))
<1> DEFINE m == Msg("legato", v, 4, 0)
<1>1. m \in Msgs /\ m.k = "legato" /\ m.n = 4
  BY Sized DEF Msg
<1> HIDE DEF m
<1>2. Keeps(z, Put(z, m, 5)) /\ Keeps(z, z)
  BY <1>1, PutKeeps, KeepsSelf
<1>3. LastTag(z) = <<"legato", v>> => Keeps(z, Over(z, m))
  BY <1>1, OverKeeps, SizesAre DEF Kinds
<1>4. QED
  BY <1>2, <1>3 DEF LegatoMsg, m

LEMMA NoteKeeps ==
  ASSUME NEW z, Packed(z), NEW v \in Nat
  PROVE  Keeps(z, NoteMsg(z, v))
<1> DEFINE m == Msg("note", v, 4, 0)
<1>1. m \in Msgs /\ m.k = "note" /\ m.n = 4
  BY Sized DEF Msg
<1> HIDE DEF m
<1>2. Keeps(z, Put(z, m, 11)) /\ Keeps(z, z)
  BY <1>1, PutKeeps, KeepsSelf
<1>3. LastTag(z) = <<"note", v>> => Keeps(z, Over(z, m))
  BY <1>1, OverKeeps, SizesAre DEF Kinds
<1>4. LastTag(z) = <<"legato", v>> => Keeps(z, [Over(z, m) EXCEPT !.cost = @ + 6])
  <2>1. SUFFICES ASSUME LastTag(z) = <<"legato", v>>
                 PROVE  Keeps(z, [Over(z, m) EXCEPT !.cost = @ + 6])
    OBVIOUS
  <2>2. Keeps(z, Over(z, m)) /\ Over(z, m).cost = z.cost
    BY <1>1, <2>1, OverKeeps, SizesAre DEF Kinds
  <2>3. z.cost + 6 \in Nat
    <3>1. z \in Queues
      BY DEF Packed
    <3>2. z.cost \in Nat
      BY <3>1 DEF Queues
    <3>3. QED
      BY <3>2
  <2> DEFINE y == Over(z, m)  d == z.cost + 6
  <2>4. [y EXCEPT !.cost = @ + 6] = [y EXCEPT !.cost = d]
    BY <2>2
  <2> HIDE DEF y, d
  <2>5. Keeps(z, [y EXCEPT !.cost = d])
    BY <2>2, <2>3, Costlier DEF y, d
  <2>6. QED
    BY <2>4, <2>5 DEF y
<1>5. QED
  BY <1>2, <1>3, <1>4 DEF NoteMsg, m

\* A player with other messages that tell no program.
LEMMA PlayerWith ==
  ASSUME NEW c \in Chips, NEW p \in Players(c), NEW z, Keeps(p.z, z)
  PROVE  [p EXCEPT !.z = z] \in Players(c)
<1> DEFINE y == [p EXCEPT !.z = z]
<1>1. z \in Queues /\ Sent(z.q, c) = Sent(p.z.q, c)
  BY DEF Keeps, Packed
<1>2. y \in [z : Queues, voice : [Fm -> [prog : Nat, sent : Nat]]] /\ y.z = z /\ y.voice = p.voice
  BY <1>1 DEF Players
<1> HIDE DEF y
<1>3. y \in Players(c)
  BY <1>1, <1>2 DEF Players, Keeps
<1>4. QED
  BY <1>3 DEF y

LEMMA PlayerIs ==
  ASSUME NEW c, NEW p \in Players(c)
  PROVE  /\ Packed(p.z) /\ p.z \in Queues /\ p = [z |-> p.z, voice |-> p.voice]
         /\ p.voice \in [Fm -> [prog : Nat, sent : Nat]]
  BY DEF Players

LEMMA KeyOffPlays ==
  ASSUME NEW c \in Chips, NEW p \in Players(c), NEW v \in 0..25, NEW hard \in BOOLEAN
  PROVE  KeyOff(p, v, hard) \in Players(c)
<1>0. Packed(p.z) /\ v \in Nat
  BY PlayerIs
<1>1. Keeps(p.z, KeyOffMsg(p.z, v, hard))
  BY <1>0, KeyOffKeeps
<1>2. QED
  BY <1>1, PlayerWith DEF KeyOff

LEMMA NoteOnPlays ==
  ASSUME NEW c \in Chips, NEW p \in Players(c), NEW v \in 0..25
  PROVE  NoteOn(p, v) \in Players(c)
<1>0. Packed(p.z) /\ v \in Nat /\ (v \in Psg => v \in 6..9)
  BY PlayerIs, FmIs
<1>1. Keeps(p.z, NoteMsg(p.z, v))
  BY <1>0, NoteKeeps
<1>2. v \in Psg => Keeps(p.z, ToneMsg(p.z, v))
  BY <1>0, ToneKeeps
<1>3. QED
  BY <1>1, <1>2, PlayerWith DEF NoteOn

LEMMA SlidePlays ==
  ASSUME NEW c \in Chips, NEW p \in Players(c), NEW v \in Fm \cup Psg,
         NEW kind \in {"none", "slide", "strike"}
  PROVE  Effect(p, v, kind) \in Players(c)
<1>1. v \in 0..25
  BY FmIs
<1>2. CASE kind = "none"
  BY <1>2 DEF Effect
<1>3. CASE kind = "slide"
  <2>1. Keeps(p.z, IF v \in Fm THEN LegatoMsg(p.z, v) ELSE ToneMsg(p.z, v))
    BY <1>1, LegatoKeeps, ToneKeeps, PlayerIs, FmIs
  <2>2. QED
    BY <1>3, <2>1, PlayerWith DEF Effect
<1>4. CASE kind = "strike"
  <2>1. KeyOff(p, v, TRUE) \in Players(c)
    BY <1>1, KeyOffPlays
  <2>2. QED
    BY <1>1, <1>4, <2>1, NoteOnPlays DEF Effect
<1>5. QED
  BY <1>2, <1>3, <1>4

LEMMA RefreshPlays ==
  ASSUME NEW c \in Chips, NEW p \in Players(c), NEW v \in 0..25, NEW level \in Nat
  PROVE  LevelRefresh(p, v, level) \in Players(c)
<1> DEFINE z == LevelMsg(p.z, v)
           y == [z |-> z, voice |-> [p.voice EXCEPT ![v].sent = level]]
<1>1. SUFFICES ASSUME v \in Fm PROVE y \in Players(c)
  BY DEF LevelRefresh
<1>2. Keeps(p.z, z)
  BY LevelKeeps, PlayerIs
<1> DEFINE o == [p EXCEPT !.z = z]
<1>3. o \in Players(c) /\ o.z = z /\ o.voice = p.voice
  BY <1>2, PlayerWith, PlayerIs
<1> HIDE DEF z, o
<1>4. /\ y.voice \in [Fm -> [prog : Nat, sent : Nat]]
      /\ \A w \in Fm : y.voice[w].prog = o.voice[w].prog
  BY <1>1, <1>3, PlayerIs
<1>5. y \in [z : Queues, voice : [Fm -> [prog : Nat, sent : Nat]]] /\ y.z = o.z
  BY <1>3, <1>4, PlayerIs
<1> HIDE DEF y
<1>6. QED
  BY <1>3, <1>4, <1>5 DEF Players

\* A program is the voice's once it is told.
LEMMA ProgramPlays ==
  ASSUME NEW c \in Chips, NEW p \in Players(c), NEW v \in Fm, NEW prog \in Nat
  PROVE  ProgramMsg(p, v, prog) \in Players(c)
<1> DEFINE m == Msg("program", v, 3, prog)  z == Put(p.z, m, 45)
           y == [z |-> z, voice |-> [p.voice EXCEPT ![v].prog = prog]]
<1>1. SUFFICES ASSUME z # p.z PROVE y \in Players(c)
  BY DEF ProgramMsg
<1>2. m \in Msgs /\ m.k = "program" /\ m.v = v /\ m.x = prog
  BY FmIs DEF Msg, Msgs, Kinds, Size
<1>3. Packed(p.z) /\ p.z.q \in Seq(Msgs) /\ p.voice \in [Fm -> [prog : Nat, sent : Nat]]
  BY PlayerIs DEF Queues
<1> HIDE DEF m
<1>4. Packed(z) /\ z.q = Append(p.z.q, m)
  BY <1>1, <1>2, <1>3, PutFits
<1> HIDE DEF z
<1>5. Sent(z.q, c) = [Sent(p.z.q, c) EXCEPT ![v] = prog]
  BY <1>2, <1>3, <1>4, SentAppend DEF Told
<1>6. Sent(p.z.q, c) \in Chips
  BY <1>3, SentIs
<1>7. y.voice \in [Fm -> [prog : Nat, sent : Nat]]
  BY <1>3
<1>8. ASSUME NEW w \in Fm
      PROVE  y.voice[w].prog \in {0, None, Sent(z.q, c)[w]}
  <2>1. CASE w = v
    BY <1>3, <1>5, <1>6, <2>1 DEF Chips
  <2>2. CASE w # v
    <3>1. y.voice[w].prog = p.voice[w].prog /\ Sent(z.q, c)[w] = Sent(p.z.q, c)[w]
      BY <1>3, <1>5, <1>6, <2>2 DEF Chips
    <3>2. QED
      BY <3>1 DEF Players
  <2>3. QED
    BY <2>1, <2>2
<1>9. y.z = z /\ z \in Queues /\ y \in [z : Queues, voice : [Fm -> [prog : Nat, sent : Nat]]]
  BY <1>4, <1>7 DEF Packed
<1> HIDE DEF y
<1>10. QED
  BY <1>4, <1>8, <1>9 DEF Players

LEMMA PlayedPlays ==
  ASSUME NEW c \in Chips, NEW p \in Players(c), NEW v \in 0..25, NEW x \in Commands
  PROVE  Played(p, v, x) \in Players(c)
<1>1. x[2] \in Nat
  BY DEF Commands
<1>2. v \in Fm => ProgramMsg(p, v, x[2]) \in Players(c)
  BY <1>1, ProgramPlays
<1>3. Keeps(p.z, TlMsg(p.z, v))
  BY TlKeeps, PlayerIs
<1>4. [p EXCEPT !.z = TlMsg(@, v)] \in Players(c)
  BY <1>3, PlayerWith
<1>5. QED
  BY <1>2, <1>4 DEF Played

Numbers == 0..25

\* The loops over the voices, step by step.
RefreshAll(a, q, level) == FoldLeft(LAMBDA b, v : LevelRefresh(b, v, level), a, q)
Moved(a, v, e) == IF v \in (Fm \cup Psg) \cap DOMAIN e THEN Effect(a, v, e[v]) ELSE a
MoveAll(a, q, e) == FoldLeft(LAMBDA b, v : Moved(b, v, e), a, q)
Silenced(z, v) == IF v \in Fm THEN KeyOffMsg(z, v, TRUE) ELSE z
SilenceAll(a, q) == FoldLeft(Silenced, a, q)

(* The fold of a cell's commands over the player stays in a set that its step keeps. *)
LEMMA PlayedStays ==
  ASSUME NEW A, NEW a \in A, NEW v, NEW q \in Seq(Commands),
         \A d \in A, x \in Commands : Played(d, v, x) \in A
  PROVE  PlayedAll(a, v, q) \in A
<1> DEFINE n == Len(q)
           F == [x \in A \X Commands |-> Played(x[1], v, x[2])]
           Step(it, s) == IF s = {} THEN a ELSE Played(it[s \ {Max(s)}], v, q[Max(s)])
           iter == CHOOSE it : it = [s \in SUBSET DOMAIN q |-> Step(it, s)]
           H == [s \in SUBSET (1..n) |-> Step(iter, s)]
<1>1. n \in Nat /\ DOMAIN q = 1..n /\ q \in [1..n -> Commands]
  OBVIOUS
<1>2. F \in [A \X Commands -> A]
  OBVIOUS
<1>3. PICK it \in [SUBSET (1..n) -> A] : Folds(it, F, a, n, q)
  <2> HIDE DEF F, n
  <2>1. QED
    BY <1>1, <1>2, FoldExists
<1>4. ASSUME NEW s \in SUBSET (1..n), s # {}, NEW i, i[s \ {Max(s)}] \in A
      PROVE  Step(i, s) = F[<<i[s \ {Max(s)}], q[Max(s)]>>]
  <2>1. Max(s) \in 1..n
    BY <1>1, <1>4, LastOf
  <2>2. q[Max(s)] \in Commands
    BY <1>1, <2>1
  <2>3. QED
    BY <1>4, <2>2
<1>5. \A s \in SUBSET (1..n) : it[s] = Step(it, s)
  <2>1. SUFFICES ASSUME NEW s \in SUBSET (1..n), s # {} PROVE it[s] = Step(it, s)
    BY <1>3 DEF Folds
  <2>2. s \ {Max(s)} \in SUBSET (1..n) /\ it[s \ {Max(s)}] \in A
    BY <1>3
  <2> HIDE DEF Step, F
  <2>3. QED
    BY <1>3, <1>4, <2>1, <2>2 DEF Folds
<1>6. iter = [s \in SUBSET DOMAIN q |-> Step(iter, s)]
  <2> HIDE DEF Step, n, F
  <2>1. it = [s \in SUBSET DOMAIN q |-> Step(it, s)]
    BY <1>1, <1>3, <1>5
  <2>2. QED
    BY <2>1
<1>7. PlayedAll(a, v, q) = iter[DOMAIN q]
  BY Zenon DEF FoldLeft, MapThenFoldSet, PlayedAll
<1> HIDE DEF iter
<1>8. Recurs(iter, H, a, n)
  BY <1>1, <1>6 DEF Recurs
<1>9. Agrees(iter, H, F, A, n, q)
  <2> HIDE DEF F, Step
  <2>1. QED
    BY <1>4 DEF H, Agrees
<1>10. PICK acc \in [0..n -> A] : Walk(acc, F, a, n, q) /\ iter[1..n] = acc[n]
  <2> HIDE DEF F, H, n
  <2>1. Walked(iter, F, A, a, n, q)
    BY <1>1, <1>2, <1>8, <1>9, PrefixValues
  <2>2. QED
    BY <2>1 DEF Walked
<1>11. acc[n] \in A
  <2> HIDE DEF n, F, H
  <2>1. n \in 0..n
    BY <1>1
  <2>2. QED
    BY <1>10, <2>1
<1>12. QED
  <2> HIDE DEF n, F, H
  <2>1. QED
    BY <1>1, <1>7, <1>10, <1>11

(* The fold of the levels sent again stays in a set that its step keeps. *)
LEMMA RefreshStays ==
  ASSUME NEW A, NEW a \in A, NEW level, NEW q \in Seq(Numbers),
         \A d \in A, x \in Numbers : LevelRefresh(d, x, level) \in A
  PROVE  RefreshAll(a, q, level) \in A
<1> DEFINE n == Len(q)
           F == [x \in A \X Numbers |-> LevelRefresh(x[1], x[2], level)]
           Step(it, s) == IF s = {} THEN a ELSE LevelRefresh(it[s \ {Max(s)}], q[Max(s)], level)
           iter == CHOOSE it : it = [s \in SUBSET DOMAIN q |-> Step(it, s)]
           H == [s \in SUBSET (1..n) |-> Step(iter, s)]
<1>1. n \in Nat /\ DOMAIN q = 1..n /\ q \in [1..n -> Numbers]
  OBVIOUS
<1>2. F \in [A \X Numbers -> A]
  OBVIOUS
<1>3. PICK it \in [SUBSET (1..n) -> A] : Folds(it, F, a, n, q)
  <2> HIDE DEF F, n
  <2>1. QED
    BY <1>1, <1>2, FoldExists
<1>4. ASSUME NEW s \in SUBSET (1..n), s # {}, NEW i, i[s \ {Max(s)}] \in A
      PROVE  Step(i, s) = F[<<i[s \ {Max(s)}], q[Max(s)]>>]
  <2>1. Max(s) \in 1..n
    BY <1>1, <1>4, LastOf
  <2>2. q[Max(s)] \in Numbers
    BY <1>1, <2>1
  <2>3. QED
    BY <1>4, <2>2
<1>5. \A s \in SUBSET (1..n) : it[s] = Step(it, s)
  <2>1. SUFFICES ASSUME NEW s \in SUBSET (1..n), s # {} PROVE it[s] = Step(it, s)
    BY <1>3 DEF Folds
  <2>2. s \ {Max(s)} \in SUBSET (1..n) /\ it[s \ {Max(s)}] \in A
    BY <1>3
  <2> HIDE DEF Step, F
  <2>3. QED
    BY <1>3, <1>4, <2>1, <2>2 DEF Folds
<1>6. iter = [s \in SUBSET DOMAIN q |-> Step(iter, s)]
  <2> HIDE DEF Step, n, F
  <2>1. it = [s \in SUBSET DOMAIN q |-> Step(it, s)]
    BY <1>1, <1>3, <1>5
  <2>2. QED
    BY <2>1
<1>7. RefreshAll(a, q, level) = iter[DOMAIN q]
  BY Zenon DEF FoldLeft, MapThenFoldSet, RefreshAll
<1> HIDE DEF iter
<1>8. Recurs(iter, H, a, n)
  BY <1>1, <1>6 DEF Recurs
<1>9. Agrees(iter, H, F, A, n, q)
  <2> HIDE DEF F, Step
  <2>1. QED
    BY <1>4 DEF H, Agrees
<1>10. PICK acc \in [0..n -> A] : Walk(acc, F, a, n, q) /\ iter[1..n] = acc[n]
  <2> HIDE DEF F, H, n
  <2>1. Walked(iter, F, A, a, n, q)
    BY <1>1, <1>2, <1>8, <1>9, PrefixValues
  <2>2. QED
    BY <2>1 DEF Walked
<1>11. acc[n] \in A
  <2> HIDE DEF n, F, H
  <2>1. n \in 0..n
    BY <1>1
  <2>2. QED
    BY <1>10, <2>1
<1>12. QED
  <2> HIDE DEF n, F, H
  <2>1. QED
    BY <1>1, <1>7, <1>10, <1>11

(* The fold of the voices' effects stays in a set that its step keeps. *)
LEMMA MoveStays ==
  ASSUME NEW A, NEW a \in A, NEW e, NEW q \in Seq(Numbers),
         \A d \in A, x \in Numbers : Moved(d, x, e) \in A
  PROVE  MoveAll(a, q, e) \in A
<1> DEFINE n == Len(q)
           F == [x \in A \X Numbers |-> Moved(x[1], x[2], e)]
           Step(it, s) == IF s = {} THEN a ELSE Moved(it[s \ {Max(s)}], q[Max(s)], e)
           iter == CHOOSE it : it = [s \in SUBSET DOMAIN q |-> Step(it, s)]
           H == [s \in SUBSET (1..n) |-> Step(iter, s)]
<1>1. n \in Nat /\ DOMAIN q = 1..n /\ q \in [1..n -> Numbers]
  OBVIOUS
<1>2. F \in [A \X Numbers -> A]
  OBVIOUS
<1>3. PICK it \in [SUBSET (1..n) -> A] : Folds(it, F, a, n, q)
  <2> HIDE DEF F, n
  <2>1. QED
    BY <1>1, <1>2, FoldExists
<1>4. ASSUME NEW s \in SUBSET (1..n), s # {}, NEW i, i[s \ {Max(s)}] \in A
      PROVE  Step(i, s) = F[<<i[s \ {Max(s)}], q[Max(s)]>>]
  <2>1. Max(s) \in 1..n
    BY <1>1, <1>4, LastOf
  <2>2. q[Max(s)] \in Numbers
    BY <1>1, <2>1
  <2>3. QED
    BY <1>4, <2>2
<1>5. \A s \in SUBSET (1..n) : it[s] = Step(it, s)
  <2>1. SUFFICES ASSUME NEW s \in SUBSET (1..n), s # {} PROVE it[s] = Step(it, s)
    BY <1>3 DEF Folds
  <2>2. s \ {Max(s)} \in SUBSET (1..n) /\ it[s \ {Max(s)}] \in A
    BY <1>3
  <2> HIDE DEF Step, F
  <2>3. QED
    BY <1>3, <1>4, <2>1, <2>2 DEF Folds
<1>6. iter = [s \in SUBSET DOMAIN q |-> Step(iter, s)]
  <2> HIDE DEF Step, n, F
  <2>1. it = [s \in SUBSET DOMAIN q |-> Step(it, s)]
    BY <1>1, <1>3, <1>5
  <2>2. QED
    BY <2>1
<1>7. MoveAll(a, q, e) = iter[DOMAIN q]
  BY Zenon DEF FoldLeft, MapThenFoldSet, MoveAll
<1> HIDE DEF iter
<1>8. Recurs(iter, H, a, n)
  BY <1>1, <1>6 DEF Recurs
<1>9. Agrees(iter, H, F, A, n, q)
  <2> HIDE DEF F, Step
  <2>1. QED
    BY <1>4 DEF H, Agrees
<1>10. PICK acc \in [0..n -> A] : Walk(acc, F, a, n, q) /\ iter[1..n] = acc[n]
  <2> HIDE DEF F, H, n
  <2>1. Walked(iter, F, A, a, n, q)
    BY <1>1, <1>2, <1>8, <1>9, PrefixValues
  <2>2. QED
    BY <2>1 DEF Walked
<1>11. acc[n] \in A
  <2> HIDE DEF n, F, H
  <2>1. n \in 0..n
    BY <1>1
  <2>2. QED
    BY <1>10, <2>1
<1>12. QED
  <2> HIDE DEF n, F, H
  <2>1. QED
    BY <1>1, <1>7, <1>10, <1>11

(* The fold of the start's key-offs stays in a set that its step keeps. *)
LEMMA SilenceStays ==
  ASSUME NEW A, NEW a \in A, NEW q \in Seq(Numbers),
         \A d \in A, x \in Numbers : Silenced(d, x) \in A
  PROVE  SilenceAll(a, q) \in A
<1> DEFINE n == Len(q)
           F == [x \in A \X Numbers |-> Silenced(x[1], x[2])]
           Step(it, s) == IF s = {} THEN a ELSE Silenced(it[s \ {Max(s)}], q[Max(s)])
           iter == CHOOSE it : it = [s \in SUBSET DOMAIN q |-> Step(it, s)]
           H == [s \in SUBSET (1..n) |-> Step(iter, s)]
<1>1. n \in Nat /\ DOMAIN q = 1..n /\ q \in [1..n -> Numbers]
  OBVIOUS
<1>2. F \in [A \X Numbers -> A]
  OBVIOUS
<1>3. PICK it \in [SUBSET (1..n) -> A] : Folds(it, F, a, n, q)
  <2> HIDE DEF F, n
  <2>1. QED
    BY <1>1, <1>2, FoldExists
<1>4. ASSUME NEW s \in SUBSET (1..n), s # {}, NEW i, i[s \ {Max(s)}] \in A
      PROVE  Step(i, s) = F[<<i[s \ {Max(s)}], q[Max(s)]>>]
  <2>1. Max(s) \in 1..n
    BY <1>1, <1>4, LastOf
  <2>2. q[Max(s)] \in Numbers
    BY <1>1, <2>1
  <2>3. QED
    BY <1>4, <2>2
<1>5. \A s \in SUBSET (1..n) : it[s] = Step(it, s)
  <2>1. SUFFICES ASSUME NEW s \in SUBSET (1..n), s # {} PROVE it[s] = Step(it, s)
    BY <1>3 DEF Folds
  <2>2. s \ {Max(s)} \in SUBSET (1..n) /\ it[s \ {Max(s)}] \in A
    BY <1>3
  <2> HIDE DEF Step, F
  <2>3. QED
    BY <1>3, <1>4, <2>1, <2>2 DEF Folds
<1>6. iter = [s \in SUBSET DOMAIN q |-> Step(iter, s)]
  <2> HIDE DEF Step, n, F
  <2>1. it = [s \in SUBSET DOMAIN q |-> Step(it, s)]
    BY <1>1, <1>3, <1>5
  <2>2. QED
    BY <2>1
<1>7. SilenceAll(a, q) = iter[DOMAIN q]
  BY Zenon DEF FoldLeft, MapThenFoldSet, SilenceAll
<1> HIDE DEF iter
<1>8. Recurs(iter, H, a, n)
  BY <1>1, <1>6 DEF Recurs
<1>9. Agrees(iter, H, F, A, n, q)
  <2> HIDE DEF F, Step
  <2>1. QED
    BY <1>4 DEF H, Agrees
<1>10. PICK acc \in [0..n -> A] : Walk(acc, F, a, n, q) /\ iter[1..n] = acc[n]
  <2> HIDE DEF F, H, n
  <2>1. Walked(iter, F, A, a, n, q)
    BY <1>1, <1>2, <1>8, <1>9, PrefixValues
  <2>2. QED
    BY <2>1 DEF Walked
<1>11. acc[n] \in A
  <2> HIDE DEF n, F, H
  <2>1. n \in 0..n
    BY <1>1
  <2>2. QED
    BY <1>10, <2>1
<1>12. QED
  <2> HIDE DEF n, F, H
  <2>1. QED
    BY <1>1, <1>7, <1>10, <1>11

LEMMA FirstVoicesAre ==
  FirstVoices(6) \in Seq(Numbers) /\ FirstVoices(10) \in Seq(Numbers)
  BY DEF FirstVoices, Numbers

LEMMA AllPlayed ==
  ASSUME NEW c \in Chips, NEW p \in Players(c), NEW v \in Numbers, NEW q \in Seq(Commands)
  PROVE  PlayedAll(p, v, q) \in Players(c)
<1>1. \A d \in Players(c), x \in Commands : Played(d, v, x) \in Players(c)
  BY PlayedPlays DEF Numbers
<1>2. QED
  BY <1>1, PlayedStays

LEMMA AllRefreshed ==
  ASSUME NEW c \in Chips, NEW p \in Players(c), NEW level \in Nat
  PROVE  Refreshed(p, level) \in Players(c)
<1> DEFINE q == FirstVoices(6)
<1>1. \A d \in Players(c), x \in Numbers : LevelRefresh(d, x, level) \in Players(c)
  BY RefreshPlays DEF Numbers
<1>2. q \in Seq(Numbers) /\ Refreshed(p, level) = RefreshAll(p, q, level)
  BY FirstVoicesAre DEF Refreshed, RefreshAll
<1> HIDE DEF q
<1>3. RefreshAll(p, q, level) \in Players(c)
  BY <1>1, <1>2, RefreshStays
<1>4. QED
  BY <1>2, <1>3

Moves == [Sliding -> {"none", "slide", "strike"}]
LEMMA AllMoved ==
  ASSUME NEW c \in Chips, NEW p \in Players(c), NEW e \in Moves
  PROVE  Effects(p, e) \in Players(c)
<1> DEFINE q == FirstVoices(10)
<1>1. \A d \in Players(c), x \in Numbers : Moved(d, x, e) \in Players(c)
  BY SlidePlays DEF Moved, Moves
<1>2. q \in Seq(Numbers) /\ Effects(p, e) = MoveAll(p, q, e)
  BY FirstVoicesAre DEF Effects, MoveAll, Moved
<1> HIDE DEF q
<1>3. MoveAll(p, q, e) \in Players(c)
  BY <1>1, <1>2, MoveStays
<1>4. QED
  BY <1>2, <1>3

LEMMA StartFits ==
  ASSUME NEW z, Packed(z)
  PROVE  Packed(StartQueue(z))
<1> DEFINE q == FirstVoices(6)  y == [z EXCEPT !.q = <<>>, !.len = 0, !.stale = <<"", 0>>]
           A == {x \in Queues : Packed(x)}
<1>1. y \in A
  <2>0. <<>> \in Seq(Msgs) /\ z \in Queues
    BY DEF Packed
  <2>1. y \in Queues /\ y.q = <<>> /\ y.len = 0
    BY <2>0 DEF Queues
  <2>2. Bytes(<<>>) = 0
    BY NoBytes
  <2> HIDE DEF y
  <2>3. QED
    BY <2>1, <2>2, SongAssumption DEF Packed
<1>2. \A d \in A, x \in Numbers : Silenced(d, x) \in A
  <2>1. ASSUME NEW d, Packed(d), NEW x \in Numbers PROVE Packed(Silenced(d, x))
    <3>1. Keeps(d, KeyOffMsg(d, x, TRUE))
      <4>1. x \in Nat /\ TRUE \in BOOLEAN
        BY DEF Numbers
      <4>2. QED
        BY <2>1, <4>1, KeyOffKeeps
    <3>2. QED
      BY <2>1, <3>1 DEF Silenced, Keeps
  <2>2. QED
    BY <2>1 DEF Packed
<1>3. q \in Seq(Numbers) /\ StartQueue(z) = SilenceAll(y, q)
  BY FirstVoicesAre DEF StartQueue, SilenceAll, Silenced
<1> HIDE DEF q, y, A
<1>4. SilenceAll(y, q) \in A
  BY <1>1, <1>2, <1>3, SilenceStays
<1>5. QED
  BY <1>3, <1>4 DEF A

Songs == [mod : {0} \cup Tracks, track : {0} \cup Tracks,
          playing : BOOLEAN, loading : BOOLEAN, waitFlush : BOOLEAN,
          order : Nat, row : Nat, tick : Nat, resume : 0..Len(Order), speed : Nat,
          loop : BOOLEAN, level : Nat, target : Nat, step : Nat,
          stopAtZero : BOOLEAN, jumpOrder : Nat, jumpRow : Nat]
\* The next row to read is the module's, and so is the one a command asks for.
Placed(q) ==
  q.mod # 0 =>
    /\ q.order < Mods[q.mod].npos /\ q.row < RowsOf(q.mod)
    /\ q.jumpOrder = NoJump \/ q.jumpOrder < Mods[q.mod].npos
    /\ q.jumpRow = NoJump \/ q.jumpRow < RowsOf(q.mod)
Playable(q) == q \in Songs /\ Placed(q) /\ (q.playing => q.mod # 0)

\* What a row's commands may make of the sequencer, and what they may be.
Jumps(q) ==
  {y \in Songs : /\ Placed(y)
                 /\ y = [q EXCEPT !.jumpOrder = y.jumpOrder, !.jumpRow = y.jumpRow,
                                  !.speed = y.speed]}
Legal(q) == {x \in Commands : Mods[q.mod].rows = 0 => Inside(x, q.row + 1)}
Readings(q, c) == [s : Jumps(q), p : Players(c), cut : BOOLEAN, read : Seq(Numbers)]
ReadAll(a, q) == FoldLeft(ReadVoice, a, q)

(* The fold of a cell's commands over the song stays in a set that its step keeps. *)
LEMMA JumpedStays ==
  ASSUME NEW A, NEW a \in A, NEW o, NEW q \in Seq(Legal(o)),
         \A d \in A, x \in Legal(o) : Jumped(d, x) \in A
  PROVE  JumpedAll(a, q) \in A
<1> DEFINE n == Len(q)
           F == [x \in A \X Legal(o) |-> Jumped(x[1], x[2])]
           Step(it, s) == IF s = {} THEN a ELSE Jumped(it[s \ {Max(s)}], q[Max(s)])
           iter == CHOOSE it : it = [s \in SUBSET DOMAIN q |-> Step(it, s)]
           H == [s \in SUBSET (1..n) |-> Step(iter, s)]
<1>1. n \in Nat /\ DOMAIN q = 1..n /\ q \in [1..n -> Legal(o)]
  OBVIOUS
<1>2. F \in [A \X Legal(o) -> A]
  OBVIOUS
<1>3. PICK it \in [SUBSET (1..n) -> A] : Folds(it, F, a, n, q)
  <2> HIDE DEF F, n
  <2>1. QED
    BY <1>1, <1>2, FoldExists
<1>4. ASSUME NEW s \in SUBSET (1..n), s # {}, NEW i, i[s \ {Max(s)}] \in A
      PROVE  Step(i, s) = F[<<i[s \ {Max(s)}], q[Max(s)]>>]
  <2>1. Max(s) \in 1..n
    BY <1>1, <1>4, LastOf
  <2>2. q[Max(s)] \in Legal(o)
    BY <1>1, <2>1
  <2>3. QED
    BY <1>4, <2>2
<1>5. \A s \in SUBSET (1..n) : it[s] = Step(it, s)
  <2>1. SUFFICES ASSUME NEW s \in SUBSET (1..n), s # {} PROVE it[s] = Step(it, s)
    BY <1>3 DEF Folds
  <2>2. s \ {Max(s)} \in SUBSET (1..n) /\ it[s \ {Max(s)}] \in A
    BY <1>3
  <2> HIDE DEF Step, F
  <2>3. QED
    BY <1>3, <1>4, <2>1, <2>2 DEF Folds
<1>6. iter = [s \in SUBSET DOMAIN q |-> Step(iter, s)]
  <2> HIDE DEF Step, n, F
  <2>1. it = [s \in SUBSET DOMAIN q |-> Step(it, s)]
    BY <1>1, <1>3, <1>5
  <2>2. QED
    BY <2>1
<1>7. JumpedAll(a, q) = iter[DOMAIN q]
  BY Zenon DEF FoldLeft, MapThenFoldSet, JumpedAll
<1> HIDE DEF iter
<1>8. Recurs(iter, H, a, n)
  BY <1>1, <1>6 DEF Recurs
<1>9. Agrees(iter, H, F, A, n, q)
  <2> HIDE DEF F, Step
  <2>1. QED
    BY <1>4 DEF H, Agrees
<1>10. PICK acc \in [0..n -> A] : Walk(acc, F, a, n, q) /\ iter[1..n] = acc[n]
  <2> HIDE DEF F, H, n
  <2>1. Walked(iter, F, A, a, n, q)
    BY <1>1, <1>2, <1>8, <1>9, PrefixValues
  <2>2. QED
    BY <2>1 DEF Walked
<1>11. acc[n] \in A
  <2> HIDE DEF n, F, H
  <2>1. n \in 0..n
    BY <1>1
  <2>2. QED
    BY <1>10, <2>1
<1>12. QED
  <2> HIDE DEF n, F, H
  <2>1. QED
    BY <1>1, <1>7, <1>10, <1>11

(* The fold of a row: its values along the sequence. *)
LEMMA ReadSteps ==
  ASSUME NEW A, NEW a \in A, NEW q \in Seq(Voices),
         \A d \in A, x \in Voices : ReadVoice(d, x) \in A
  PROVE  \E acc \in [0..Len(q) -> A] :
           /\ acc[0] = a
           /\ \A k \in 1..Len(q) : acc[k] = ReadVoice(acc[k - 1], q[k])
           /\ ReadAll(a, q) = acc[Len(q)]
<1> DEFINE n == Len(q)
           F == [x \in A \X Voices |-> ReadVoice(x[1], x[2])]
           Step(it, s) == IF s = {} THEN a ELSE ReadVoice(it[s \ {Max(s)}], q[Max(s)])
           iter == CHOOSE it : it = [s \in SUBSET DOMAIN q |-> Step(it, s)]
           H == [s \in SUBSET (1..n) |-> Step(iter, s)]
<1>1. n \in Nat /\ DOMAIN q = 1..n /\ q \in [1..n -> Voices]
  OBVIOUS
<1>2. F \in [A \X Voices -> A]
  OBVIOUS
<1>3. PICK it \in [SUBSET (1..n) -> A] : Folds(it, F, a, n, q)
  <2> HIDE DEF F, n
  <2>1. QED
    BY <1>1, <1>2, FoldExists
<1>4. ASSUME NEW s \in SUBSET (1..n), s # {}, NEW i, i[s \ {Max(s)}] \in A
      PROVE  Step(i, s) = F[<<i[s \ {Max(s)}], q[Max(s)]>>]
  <2>1. Max(s) \in 1..n
    BY <1>1, <1>4, LastOf
  <2>2. q[Max(s)] \in Voices
    BY <1>1, <2>1
  <2>3. QED
    BY <1>4, <2>2
<1>5. \A s \in SUBSET (1..n) : it[s] = Step(it, s)
  <2>1. SUFFICES ASSUME NEW s \in SUBSET (1..n), s # {} PROVE it[s] = Step(it, s)
    BY <1>3 DEF Folds
  <2>2. s \ {Max(s)} \in SUBSET (1..n) /\ it[s \ {Max(s)}] \in A
    BY <1>3
  <2> HIDE DEF Step, F
  <2>3. QED
    BY <1>3, <1>4, <2>1, <2>2 DEF Folds
<1>6. iter = [s \in SUBSET DOMAIN q |-> Step(iter, s)]
  <2> HIDE DEF Step, n, F
  <2>1. it = [s \in SUBSET DOMAIN q |-> Step(it, s)]
    BY <1>1, <1>3, <1>5
  <2>2. QED
    BY <2>1
<1>7. ReadAll(a, q) = iter[DOMAIN q]
  BY Zenon DEF FoldLeft, MapThenFoldSet, ReadAll
<1> HIDE DEF iter
<1>8. Recurs(iter, H, a, n)
  BY <1>1, <1>6 DEF Recurs
<1>9. Agrees(iter, H, F, A, n, q)
  <2> HIDE DEF F, Step
  <2>1. QED
    BY <1>4 DEF H, Agrees
<1>10. PICK acc \in [0..n -> A] : Walk(acc, F, a, n, q) /\ iter[1..n] = acc[n]
  <2> HIDE DEF F, H, n
  <2>1. Walked(iter, F, A, a, n, q)
    BY <1>1, <1>2, <1>8, <1>9, PrefixValues
  <2>2. QED
    BY <2>1 DEF Walked
<1>11. \A k \in 1..n : acc[k] = ReadVoice(acc[k - 1], q[k])
  <2>1. SUFFICES ASSUME NEW k \in 1..n PROVE acc[k] = ReadVoice(acc[k - 1], q[k])
    OBVIOUS
  <2>2. acc[k - 1] \in A /\ q[k] \in Voices
    BY <1>1, <1>10
  <2>3. QED
    BY <1>10, <2>2 DEF Walk
<1>12. QED
  BY <1>1, <1>7, <1>10, <1>11 DEF Walk

LEMMA ModuleIs ==
  ASSUME NEW t \in Tracks
  PROVE  /\ t \in Nat /\ t # 0 /\ Mods[t].npos \in Nat \ {0} /\ Mods[t].rows \in Nat
         /\ RowsOf(t) \in Nat \ {0} /\ Mods[t].loop \in Nat /\ Mods[t].loop < Mods[t].npos
         /\ Mods[t].speed \in Nat \ {0} /\ RowsAll \in Nat
  BY SongAssumption DEF RowsOf

LEMMA CellIs ==
  ASSUME NEW q \in Songs, q.mod # 0, Placed(q), NEW v \in Voices
  PROVE  LET row == Mods[q.mod].cell[q.order + 1][q.row + 1][v] IN
         row \in Cells /\ row.cmds \in Seq(Legal(q))
<1> DEFINE t == q.mod  row == Mods[t].cell[q.order + 1][q.row + 1][v]
<1>1. t \in Tracks /\ q.order \in Nat /\ q.row \in Nat
  BY DEF Songs
<1>2. q.order + 1 \in 1..Mods[t].npos /\ q.row + 1 \in 1..RowsOf(t)
  BY <1>1, ModuleIs DEF Placed
<1>3. row \in Cells /\ (Mods[t].rows = 0 =>
                          \A k \in DOMAIN row.cmds : Inside(row.cmds[k], q.row + 1))
  BY <1>1, <1>2, SongAssumption
<1> HIDE DEF row
<1>4. row.cmds \in Seq(Commands)
  BY <1>3 DEF Cells
<1>5. \A k \in 1..Len(row.cmds) : row.cmds[k] \in Legal(q)
  BY <1>3, <1>4 DEF Legal
<1>6. row.cmds \in Seq(Legal(q))
  BY <1>4, <1>5
<1>7. QED
  BY <1>3, <1>6 DEF row

LEMMA JumpsIs ==
  ASSUME NEW q \in Songs, NEW y \in Jumps(q)
  PROVE  /\ y \in Songs /\ Placed(y)
         /\ y.mod = q.mod /\ y.order = q.order /\ y.row = q.row /\ y.tick = q.tick
         /\ y.resume = q.resume /\ y.playing = q.playing /\ y.level = q.level
  BY DEF Jumps, Songs

LEMMA JumpsSelf == ASSUME NEW q \in Songs, Placed(q) PROVE q \in Jumps(q)
  BY DEF Jumps, Songs

LEMMA JumpsTo ==
  ASSUME NEW q \in Songs, NEW y \in Jumps(q), NEW o \in Nat, NEW r \in Nat, NEW sp \in Nat,
         q.mod # 0 => /\ o = NoJump \/ o < Mods[q.mod].npos
                      /\ r = NoJump \/ r < RowsOf(q.mod)
  PROVE  [y EXCEPT !.jumpOrder = o, !.jumpRow = r, !.speed = sp] \in Jumps(q)
<1> DEFINE z == [y EXCEPT !.jumpOrder = o, !.jumpRow = r, !.speed = sp]
<1>1. y \in Songs
  BY JumpsIs
<1>2. /\ z \in Songs /\ z.mod = y.mod /\ z.order = y.order /\ z.row = y.row
      /\ z.jumpOrder = o /\ z.jumpRow = r /\ z.speed = sp
  BY <1>1 DEF Songs
<1>3. z = [q EXCEPT !.jumpOrder = o, !.jumpRow = r, !.speed = sp]
  BY <1>1 DEF Jumps, Songs
<1> HIDE DEF z
<1>4. Placed(z)
  BY <1>2, JumpsIs DEF Placed
<1>5. z \in Jumps(q)
  BY <1>2, <1>3, <1>4 DEF Jumps
<1>6. QED
  BY <1>5 DEF z

LEMMA JumpedIs ==
  ASSUME NEW q \in Songs, q.mod # 0, NEW y \in Jumps(q), NEW x \in Legal(q)
  PROVE  Jumped(y, x) \in Jumps(q)
<1> DEFINE m == Mods[q.mod]  op == x[2]
<1>1. /\ y \in Songs /\ y.mod = q.mod /\ y.order = q.order /\ y.row = q.row
      /\ y.jumpOrder \in Nat /\ y.jumpRow \in Nat /\ y.speed \in Nat
      /\ (y.jumpOrder = NoJump \/ y.jumpOrder < m.npos)
      /\ (y.jumpRow = NoJump \/ y.jumpRow < RowsOf(q.mod))
  BY JumpsIs DEF Songs, Placed
<1>2. q.mod \in Tracks /\ op \in Nat /\ y.row \in Nat /\ y.order \in Nat
  BY <1>1 DEF Songs, Legal, Commands
<1>3. m.npos \in Nat \ {0} /\ m.rows \in Nat /\ RowsOf(q.mod) \in Nat \ {0} /\ RowsAll \in Nat
  BY <1>2, ModuleIs
<1>4. RowsOf(q.mod) = IF m.rows = 0 THEN RowsAll ELSE m.rows
  BY DEF RowsOf
<1>5. m.rows = 0 => /\ x[1] = "FB" => op < RowsAll
                    /\ x[1] = "FC" => y.row + op < RowsAll
  BY <1>1, <1>2, <1>3 DEF Legal, Inside
<1>6. ASSUME NEW o \in Nat, NEW r \in Nat, NEW sp \in Nat,
             o = NoJump \/ o < m.npos, r = NoJump \/ r < RowsOf(q.mod)
      PROVE  [y EXCEPT !.jumpOrder = o, !.jumpRow = r, !.speed = sp] \in Jumps(q)
  BY <1>6, JumpsTo
<1> HIDE DEF m, op
<1>7. Jumped(y, x) =
        IF x[1] = "FB" /\ y.order + 1 < m.npos /\ (m.rows = 0 \/ op < m.rows)
        THEN [y EXCEPT !.jumpOrder = y.order + 1, !.jumpRow = op]
        ELSE IF x[1] = "FC" /\ (m.rows = 0 \/ y.row + op < m.rows)
        THEN [y EXCEPT !.jumpRow = y.row + op]
        ELSE IF x[1] = "FD"
        THEN [y EXCEPT !.jumpOrder = IF op < m.npos THEN op ELSE 0, !.jumpRow = 0]
        ELSE IF x[1] = "FE" THEN [y EXCEPT !.speed = op] ELSE y
  BY <1>1 DEF Jumped, m, op
<1>8. CASE x[1] = "FB" /\ y.order + 1 < m.npos /\ (m.rows = 0 \/ op < m.rows)
  <2>1. op < RowsOf(q.mod) /\ y.order + 1 \in Nat
    BY <1>2, <1>3, <1>4, <1>5, <1>8
  <2>2. [y EXCEPT !.jumpOrder = y.order + 1, !.jumpRow = op, !.speed = y.speed] \in Jumps(q)
    BY <1>1, <1>2, <1>6, <1>8, <2>1
  <2>3. [y EXCEPT !.jumpOrder = y.order + 1, !.jumpRow = op]
          = [y EXCEPT !.jumpOrder = y.order + 1, !.jumpRow = op, !.speed = y.speed]
    BY <1>1 DEF Songs
  <2>4. QED
    BY <1>7, <1>8, <2>2, <2>3
<1>9. CASE x[1] = "FC" /\ (m.rows = 0 \/ y.row + op < m.rows)
  <2>1. y.row + op < RowsOf(q.mod) /\ y.row + op \in Nat
    BY <1>2, <1>3, <1>4, <1>5, <1>9
  <2>2. [y EXCEPT !.jumpOrder = y.jumpOrder, !.jumpRow = y.row + op, !.speed = y.speed]
          \in Jumps(q)
    BY <1>1, <1>6, <2>1
  <2>3. [y EXCEPT !.jumpRow = y.row + op]
          = [y EXCEPT !.jumpOrder = y.jumpOrder, !.jumpRow = y.row + op, !.speed = y.speed]
    BY <1>1 DEF Songs
  <2>4. x[1] # "FB"
    BY <1>9
  <2>5. QED
    BY <1>7, <1>9, <2>2, <2>3, <2>4
<1>10. CASE x[1] = "FD"
  <2> DEFINE o == IF op < m.npos THEN op ELSE 0
  <2>1. o \in Nat /\ o < m.npos /\ 0 < RowsOf(q.mod)
    BY <1>2, <1>3
  <2>2. Jumped(y, x) = [y EXCEPT !.jumpOrder = o, !.jumpRow = 0]
    BY <1>7, <1>10
  <2> HIDE DEF o
  <2>3. [y EXCEPT !.jumpOrder = o, !.jumpRow = 0, !.speed = y.speed] \in Jumps(q)
    BY <1>1, <1>6, <2>1
  <2>4. [y EXCEPT !.jumpOrder = o, !.jumpRow = 0]
          = [y EXCEPT !.jumpOrder = o, !.jumpRow = 0, !.speed = y.speed]
    BY <1>1 DEF Songs
  <2>5. QED
    BY <2>2, <2>3, <2>4
<1>11. CASE x[1] = "FE"
  <2>1. [y EXCEPT !.jumpOrder = y.jumpOrder, !.jumpRow = y.jumpRow, !.speed = op] \in Jumps(q)
    BY <1>1, <1>2, <1>6
  <2>2. [y EXCEPT !.speed = op]
          = [y EXCEPT !.jumpOrder = y.jumpOrder, !.jumpRow = y.jumpRow, !.speed = op]
    BY <1>1 DEF Songs
  <2>3. Jumped(y, x) = [y EXCEPT !.speed = op]
    BY <1>7, <1>11
  <2>4. QED
    BY <2>1, <2>2, <2>3
<1>12. QED
  BY <1>7, <1>8, <1>9, <1>10, <1>11

LEMMA AllJumped ==
  ASSUME NEW q \in Songs, q.mod # 0, NEW y \in Jumps(q), NEW cmds \in Seq(Legal(q))
  PROVE  JumpedAll(y, cmds) \in Jumps(q)
<1>1. \A d \in Jumps(q), x \in Legal(q) : Jumped(d, x) \in Jumps(q)
  BY JumpedIs
<1>2. QED
  BY <1>1, JumpedStays

\* A cell that is read leaves the song and the player in their sets.
LEMMA ParsedIs ==
  ASSUME NEW q \in Songs, q.mod # 0, NEW c \in Chips, NEW a \in Readings(q, c),
         NEW v \in Numbers, NEW row \in Cells, row.cmds \in Seq(Legal(q))
  PROVE  /\ RowParse(a, v, row) \in Readings(q, c)
         /\ RowParse(a, v, row).cut = a.cut /\ RowParse(a, v, row).read = a.read
<1>1. /\ a.s \in Jumps(q) /\ a.p \in Players(c) /\ a.s.level \in Nat
      /\ row.cmds \in Seq(Commands)
  BY JumpsIs DEF Readings, Songs, Cells
<1> DEFINE off == IF row.note \in {"hard", "soft"}
                  THEN KeyOff(a.p, v, row.note = "hard") ELSE a.p
           played == PlayedAll(off, v, row.cmds)
           lev == LevelRefresh(played, v, a.s.level)
           p == IF row.note = "on" THEN NoteOn(lev, v) ELSE lev
           y == JumpedAll(a.s, row.cmds)
<1>2. off \in Players(c)
  BY <1>1, KeyOffPlays DEF Numbers
<1> HIDE DEF off
<1>3. played \in Players(c)
  BY <1>1, <1>2, AllPlayed DEF Numbers
<1> HIDE DEF played
<1>4. lev \in Players(c)
  BY <1>1, <1>3, RefreshPlays DEF Numbers
<1> HIDE DEF lev
<1>5. p \in Players(c)
  BY <1>4, NoteOnPlays DEF Numbers
<1>6. y \in Jumps(q)
  BY <1>1, AllJumped
<1>7. RowParse(a, v, row) = [a EXCEPT !.s = y, !.p = p]
  BY DEF RowParse, off, played, lev
<1> HIDE DEF y, p
<1>8. QED
  BY <1>5, <1>6, <1>7 DEF Readings

LEMMA VoiceIs ==
  ASSUME NEW q \in Songs, q.mod # 0, Placed(q), NEW c \in Chips,
         NEW a \in Readings(q, c), NEW v \in Voices
  PROVE  LET b == ReadVoice(a, v) IN
         /\ b \in Readings(q, c)
         /\ a.cut => b = a
         /\ ~a.cut => \/ b.cut /\ b.read = a.read /\ v < 10
                      \/ ~b.cut /\ b.read = Append(a.read, v)
<1> DEFINE row == Mods[q.mod].cell[q.order + 1][q.row + 1][v]
           over == v < 10 /\ a.p.z.budget < a.p.z.cost + Cost(a.p, v, row)
           skip == [a EXCEPT !.p = LevelRefresh(@, v, a.s.level), !.read = Append(@, v)]
           stop == [a EXCEPT !.cut = TRUE]
           parsed == RowParse(a, v, row)
           done == [parsed EXCEPT !.read = Append(@, v)]
<1>1. a.s \in Jumps(q) /\ a.p \in Players(c) /\ a.cut \in BOOLEAN /\ a.read \in Seq(Numbers)
  BY DEF Readings
<1>2. a.s.mod = q.mod /\ a.s.order = q.order /\ a.s.row = q.row /\ a.s.level \in Nat
  BY <1>1, JumpsIs DEF Songs
<1>3. row \in Cells /\ row.cmds \in Seq(Legal(q))
  BY CellIs
<1>4. v \in Numbers
  BY FmIs DEF Numbers
<1> HIDE DEF row
<1>5. ReadVoice(a, v) = IF a.cut THEN a ELSE IF ~row.on THEN skip
                        ELSE IF over THEN stop ELSE done
  BY <1>2 DEF ReadVoice, row
<1>6. /\ skip \in Readings(q, c) /\ skip.read = Append(a.read, v) /\ skip.cut = a.cut
  <2>1. LevelRefresh(a.p, v, a.s.level) \in Players(c)
    BY <1>1, <1>2, <1>4, RefreshPlays DEF Numbers
  <2>2. Append(a.read, v) \in Seq(Numbers)
    BY <1>1, <1>4
  <2>3. QED
    BY <2>1, <2>2 DEF Readings
<1>7. stop \in Readings(q, c) /\ stop.cut /\ stop.read = a.read
  BY DEF Readings
<1>8. done \in Readings(q, c) /\ done.read = Append(a.read, v) /\ done.cut = a.cut
  <2>1. parsed \in Readings(q, c) /\ parsed.cut = a.cut /\ parsed.read = a.read
    BY <1>3, <1>4, ParsedIs
  <2>2. Append(a.read, v) \in Seq(Numbers)
    BY <1>1, <1>4
  <2> HIDE DEF parsed
  <2>3. QED
    BY <2>1, <2>2 DEF Readings
<1> HIDE DEF skip, stop, done
<1>9. over => v < 10
  OBVIOUS
<1> HIDE DEF over
<1>10. QED
  BY <1>1, <1>5, <1>6, <1>7, <1>8, <1>9

LEMMA RestIs ==
  ASSUME NEW from \in 0..(Len(Order) - 1)
  PROVE  LET rest == SubSeq(Order, from + 1, Len(Order)) IN
         /\ rest \in Seq(Voices) /\ Len(rest) = Len(Order) - from
         /\ \A k \in 1..(Len(Order) - from) : rest[k] = Order[from + k]
<1> DEFINE n == Len(Order)  rest == SubSeq(Order, from + 1, n)
<1>1. n \in Nat /\ Order \in Seq(Voices)
  <2>1. \A i \in 1..Len(Order) : Order[i] \in Voices
    BY OrderIs DEF Voices, Range
  <2>2. QED
    BY <2>1, OrderIs
<1>2. rest \in Seq(Voices) /\ Len(rest) = n - from /\ \A k \in 1..(n - from) : rest[k] = Order[from + k]
  BY <1>1
<1>3. QED
  BY <1>2

Walks(A, a, q) ==
  \E acc \in [0..Len(q) -> A] :
    /\ acc[0] = a
    /\ \A k \in 1..Len(q) : acc[k] = ReadVoice(acc[k - 1], q[k])
    /\ ReadAll(a, q) = acc[Len(q)]

LEMMA ReadWalks ==
  ASSUME NEW A, NEW a \in A, NEW q \in Seq(Voices),
         \A d \in A, x \in Voices : ReadVoice(d, x) \in A
  PROVE  Walks(A, a, q)
  BY ReadSteps DEF Walks

\* How far a row has been read after k voices.
Reads(a, rest, k) ==
  /\ Len(a.read) \in 0..k /\ \A i \in 1..Len(a.read) : a.read[i] = rest[i]
  /\ ~a.cut => Len(a.read) = k
  /\ a.cut => Len(a.read) < k /\ rest[Len(a.read) + 1] < 10

LEMMA RowRead ==
  ASSUME NEW q \in Songs, q.mod # 0, Placed(q), NEW c \in Chips, NEW p \in Players(c),
         NEW from \in 0..(Len(Order) - 1)
  PROVE  LET r == ReadRow(q, p, from)  rest == SubSeq(Order, from + 1, Len(Order)) IN
         r \in Readings(q, c) /\ Reads(r, rest, Len(Order) - from)
<1> DEFINE n == Len(Order) - from
           rest == SubSeq(Order, from + 1, Len(Order))
           a == [s |-> q, p |-> p, cut |-> FALSE, read |-> <<>>]
<1>1. rest \in Seq(Voices) /\ Len(rest) = n /\ n \in Nat
  BY RestIs, OrderIs
<1> HIDE DEF rest
<1>2. a \in Readings(q, c) /\ ~a.cut /\ a.read = <<>>
  <2>1. q \in Jumps(q) /\ <<>> \in Seq(Numbers)
    BY JumpsSelf
  <2>2. QED
    BY <2>1 DEF Readings
<1>3. ReadRow(q, p, from) = ReadAll(a, rest)
  BY DEF ReadRow, ReadAll, rest
<1> HIDE DEF a
<1> DEFINE A == Readings(q, c)
<1>4. a \in A /\ \A d \in A, x \in Voices : ReadVoice(d, x) \in A
  BY <1>2, VoiceIs
<1>5. \A d \in A, x \in Voices :
        LET b == ReadVoice(d, x) IN
        /\ d.cut => b = d
        /\ ~d.cut => \/ b.cut /\ b.read = d.read /\ x < 10
                     \/ ~b.cut /\ b.read = Append(d.read, x)
  BY VoiceIs
<1>6. \A d \in A : d.cut \in BOOLEAN /\ d.read \in Seq(Numbers)
  BY DEF Readings
<1> HIDE DEF A
<1>0. Walks(A, a, rest)
  BY <1>1, <1>4, ReadWalks
<1>7. PICK acc \in [0..Len(rest) -> A] :
        /\ acc[0] = a
        /\ \A k \in 1..Len(rest) : acc[k] = ReadVoice(acc[k - 1], rest[k])
        /\ ReadAll(a, rest) = acc[Len(rest)]
  BY <1>0 DEF Walks
<1> HIDE DEF n
<1> DEFINE S == {k \in 0..n : Reads(acc[k], rest, k)}
<1>8. \A k \in 0..n : k \in S
  <2>1. 0 \in S
    BY <1>1, <1>2, <1>7 DEF Reads
  <2>2. ASSUME NEW k \in 0..(n - 1), k \in S PROVE k + 1 \in S
    <3> DEFINE d == acc[k]  b == acc[k + 1]  x == rest[k + 1]
    <3>1. k \in 0..n /\ k + 1 \in 1..n /\ (k + 1) - 1 = k /\ k + 1 \in 0..n
      BY <1>1, <2>2
    <3>2. d \in A /\ b \in A /\ x \in Voices /\ b = ReadVoice(d, x) /\ Reads(d, rest, k)
      BY <1>1, <1>7, <2>2, <3>1
    <3> HIDE DEF d, b, x
    <3>3. x \in Int /\ d.read \in Seq(Numbers) /\ d.cut \in BOOLEAN /\ b.cut \in BOOLEAN
      BY <1>6, <3>2, FmIs
    <3>4. /\ d.cut => b = d
          /\ ~d.cut => \/ b.cut /\ b.read = d.read /\ x < 10
                       \/ ~b.cut /\ b.read = Append(d.read, x)
      BY <1>5, <3>2
    <3>7. x = rest[k + 1]
      BY DEF x
    <3>5. Reads(b, rest, k + 1)
      <4>1. CASE d.cut
        BY <3>1, <3>2, <3>3, <3>4, <4>1 DEF Reads
      <4>2. CASE ~d.cut /\ b.cut
        BY <3>1, <3>2, <3>3, <3>4, <3>7, <4>2 DEF Reads
      <4>3. CASE ~d.cut /\ ~b.cut
        <5>1. b.read = Append(d.read, x) /\ Len(d.read) = k
          BY <3>2, <3>4, <4>3 DEF Reads
        <5>0. x \in Numbers
          BY <3>2, FmIs DEF Numbers
        <5>4. /\ Len(b.read) = k + 1 /\ b.read[k + 1] = x
              /\ \A i \in 1..k : b.read[i] = d.read[i]
          BY <3>3, <5>0, <5>1, AppendKeeps
        <5>5. \A i \in 1..k : d.read[i] = rest[i]
          BY <3>2, <5>1 DEF Reads
        <5>2. Len(b.read) = k + 1 /\ \A i \in 1..(k + 1) : b.read[i] = rest[i]
          BY <3>1, <3>7, <5>4, <5>5
        <5>3. QED
          BY <3>1, <4>3, <5>2 DEF Reads
      <4>4. QED
        BY <4>1, <4>2, <4>3
    <3>6. QED
      BY <3>1, <3>5 DEF b
  <2> HIDE DEF S
  <2>3. QED
    BY <1>1, <2>1, <2>2, UpTo
<1>9. Reads(acc[n], rest, n) /\ acc[n] \in A
  BY <1>1, <1>7, <1>8
<1>10. QED
  BY <1>1, <1>3, <1>7, <1>9 DEF rest, n, A

LEMMA AdvanceIs ==
  ASSUME NEW q, Playable(q), q.mod # 0
  PROVE  LET y == Advance(q) IN
         Playable(y) /\ y.tick = q.tick /\ y.resume = q.resume /\ y.speed = q.speed
<1> DEFINE m == Mods[q.mod]
<1>1. /\ q \in Songs /\ q.mod \in Tracks /\ q.order \in Nat /\ q.row \in Nat
      /\ q.jumpOrder \in Nat /\ q.jumpRow \in Nat
  BY DEF Playable, Songs
<1>2. /\ q.order < m.npos /\ q.row < RowsOf(q.mod)
      /\ q.jumpOrder = NoJump \/ q.jumpOrder < m.npos
      /\ q.jumpRow = NoJump \/ q.jumpRow < RowsOf(q.mod)
  BY DEF Playable, Placed
<1>3. m.npos \in Nat /\ m.loop \in Nat /\ m.loop < m.npos /\ RowsOf(q.mod) \in Nat \ {0}
  BY <1>1, ModuleIs
<1>4. NoJump \in Nat
  BY DEF NoJump
<1> HIDE DEF m
<1> DEFINE To(o, r, jo, jr, on) ==
             [q EXCEPT !.order = o, !.row = r, !.jumpOrder = jo, !.jumpRow = jr,
                       !.playing = on]
           Fair(y) == Playable(y) /\ y.tick = q.tick /\ y.resume = q.resume
                        /\ y.speed = q.speed
\* The song at order o and row r, with no other row asked for.
<1>5. ASSUME NEW o \in Nat, o < m.npos, NEW r \in Nat, r < RowsOf(q.mod),
             NEW on \in BOOLEAN, on => q.playing,
             NEW jo \in Nat, jo = NoJump \/ jo < m.npos,
             NEW jr \in Nat, jr = NoJump \/ jr < RowsOf(q.mod)
      PROVE  Fair(To(o, r, jo, jr, on))
  <2> DEFINE y == To(o, r, jo, jr, on)
  <2>1. /\ y \in Songs /\ y.mod = q.mod /\ y.order = o /\ y.row = r /\ y.jumpOrder = jo
        /\ y.jumpRow = jr /\ y.playing = on /\ y.tick = q.tick /\ y.resume = q.resume
        /\ y.speed = q.speed
    BY <1>1 DEF Songs
  <2> HIDE DEF y
  <2>2. Placed(y)
    BY <1>5, <2>1 DEF Placed, m
  <2>3. Fair(y)
    BY <1>5, <2>1, <2>2 DEF Playable
  <2>4. QED
    BY <2>3 DEF y
<1>6. q.playing \in BOOLEAN
  BY <1>1 DEF Songs
<1>7. Fair(Advance(q))
  <2>1. CASE q.jumpOrder = NoJump /\ q.jumpRow = NoJump
    <3>1. Advance(q) =
            IF q.row < RowsOf(q.mod) - 1 THEN [q EXCEPT !.row = q.row + 1]
            ELSE IF q.order < m.npos - 1
            THEN [q EXCEPT !.row = 0, !.order = q.order + 1]
            ELSE IF q.loop THEN [q EXCEPT !.row = 0, !.order = m.loop]
            ELSE [q EXCEPT !.row = 0, !.playing = FALSE]
      BY <2>1 DEF Advance, m
    <3>2. /\ [q EXCEPT !.row = q.row + 1]
               = To(q.order, q.row + 1, q.jumpOrder, q.jumpRow, q.playing)
          /\ [q EXCEPT !.row = 0, !.order = q.order + 1]
               = To(q.order + 1, 0, q.jumpOrder, q.jumpRow, q.playing)
          /\ [q EXCEPT !.row = 0, !.order = m.loop]
               = To(m.loop, 0, q.jumpOrder, q.jumpRow, q.playing)
          /\ [q EXCEPT !.row = 0, !.playing = FALSE]
               = To(q.order, 0, q.jumpOrder, q.jumpRow, FALSE)
      BY <1>1 DEF Songs
    <3> HIDE DEF To, Fair
    <3>3. CASE q.row < RowsOf(q.mod) - 1
      <4>1. q.row + 1 \in Nat /\ q.row + 1 < RowsOf(q.mod)
        BY <1>1, <1>3, <3>3
      <4>2. Fair(To(q.order, q.row + 1, q.jumpOrder, q.jumpRow, q.playing))
        BY <1>1, <1>2, <1>5, <1>6, <4>1
      <4>3. QED
        BY <3>1, <3>2, <3>3, <4>2
    <3>4. 0 \in Nat /\ 0 < RowsOf(q.mod)
      BY <1>3
    <3>5. CASE ~(q.row < RowsOf(q.mod) - 1) /\ q.order < m.npos - 1
      <4>1. q.order + 1 \in Nat /\ q.order + 1 < m.npos
        BY <1>1, <1>3, <3>5
      <4>2. Fair(To(q.order + 1, 0, q.jumpOrder, q.jumpRow, q.playing))
        BY <1>1, <1>2, <1>5, <1>6, <3>4, <4>1
      <4>3. QED
        BY <3>1, <3>2, <3>5, <4>2
    <3>6. CASE ~(q.row < RowsOf(q.mod) - 1) /\ ~(q.order < m.npos - 1) /\ q.loop
      <4>1. Fair(To(m.loop, 0, q.jumpOrder, q.jumpRow, q.playing))
        BY <1>1, <1>2, <1>3, <1>5, <1>6, <3>4
      <4>2. QED
        BY <3>1, <3>2, <3>6, <4>1
    <3>7. CASE ~(q.row < RowsOf(q.mod) - 1) /\ ~(q.order < m.npos - 1) /\ ~q.loop
      <4>1. Fair(To(q.order, 0, q.jumpOrder, q.jumpRow, FALSE))
        BY <1>1, <1>2, <1>5, <3>4
      <4>2. QED
        BY <3>1, <3>2, <3>7, <4>1
    <3>8. QED
      BY <3>3, <3>5, <3>6, <3>7
  <2>2. CASE ~(q.jumpOrder = NoJump /\ q.jumpRow = NoJump)
    <3> DEFINE o == IF q.jumpOrder = NoJump THEN q.order ELSE q.jumpOrder
               r == IF q.jumpRow = NoJump THEN q.row ELSE q.jumpRow
    <3>1. Advance(q) = To(o, r, NoJump, NoJump, q.playing)
      BY <1>1, <2>2 DEF Advance, Songs
    <3>2. o \in Nat /\ o < m.npos /\ r \in Nat /\ r < RowsOf(q.mod)
      BY <1>1, <1>2
    <3> HIDE DEF o, r, To, Fair
    <3>3. Fair(To(o, r, NoJump, NoJump, q.playing))
      BY <1>4, <1>5, <1>6, <3>2
    <3>4. QED
      BY <3>1, <3>3
  <2>3. QED
    BY <2>1, <2>2
<1>8. QED
  BY <1>7

\* What the half of a tick that sequences makes of the song.
Ticked(q, t) ==
  LET from == Resumed(q) IN
  /\ t.row \in 0..3 /\ Playable(t.s)
  /\ t.row = 0 => t.s = q /\ t.read = <<>>
  /\ t.row = 1 =>
       /\ from = 0 /\ q.tick < q.speed - 1 /\ t.read = <<>>
       /\ t.s.tick = q.tick + 1 /\ t.s.resume = q.resume /\ t.s.speed = q.speed
  /\ t.row >= 2 =>
       /\ t.s.tick = IF from = 0 THEN 0 ELSE q.tick + 1
       /\ from = 0 => ~(q.tick < q.speed - 1)
       /\ t.s.resume \in 1..Len(Order) /\ from <= t.s.resume
       /\ t.read = SubSeq(Order, from + 1, t.s.resume)
       /\ t.row = 2 <=> t.s.resume < Len(Order)

LEMMA ResumedIs ==
  ASSUME NEW q \in Songs
  PROVE  Resumed(q) \in 0..(Len(Order) - 1)
<1>1. Len(Order) \in Nat \ {0}
  BY OrderIs
<1>2. QED
  BY <1>1 DEF Resumed

LEMMA RowPart ==
  ASSUME NEW from \in 0..(Len(Order) - 1), NEW a,
         a.read \in Seq(Numbers), a.cut \in BOOLEAN,
         Reads(a, SubSeq(Order, from + 1, Len(Order)), Len(Order) - from)
  PROVE  /\ a.read = SubSeq(Order, from + 1, from + Len(a.read))
         /\ from + Len(a.read) \in 1..Len(Order)
         /\ a.cut <=> from + Len(a.read) < Len(Order)
<1> DEFINE n == Len(Order)  k == Len(a.read)  rest == SubSeq(Order, from + 1, n)
           r == SubSeq(Order, from + 1, from + k)
<1>1. /\ rest \in Seq(Voices) /\ Len(rest) = n - from
      /\ \A i \in 1..(n - from) : rest[i] = Order[from + i]
  BY RestIs
<1> HIDE DEF rest
<1>2. /\ k \in 0..(n - from) /\ \A i \in 1..k : a.read[i] = rest[i]
      /\ ~a.cut => k = n - from
      /\ a.cut => k < n - from /\ rest[k + 1] < 10
  BY DEF Reads, rest
<1>3. n \in Nat \ {0} /\ Order \in Seq(Numbers) /\ Order[1] >= 10
  BY OrderIs DEF Numbers
<1>4. r \in Seq(Numbers) /\ Len(r) = k /\ \A i \in 1..k : r[i] = Order[from + i]
  BY <1>2, <1>3
<1> HIDE DEF r
<1>5. \A i \in 1..k : a.read[i] = r[i]
  BY <1>1, <1>2, <1>3, <1>4
<1>6. a.read = r
  BY <1>4, <1>5, SameSeq
<1>7. from + k \in 1..n
  <2>1. from + k \in 0..n
    BY <1>2, <1>3
  <2>2. from + k # 0
    <3>1. SUFFICES ASSUME from = 0, k = 0 PROVE FALSE
      BY <1>2, <1>3
    <3>2. a.cut /\ rest[1] < 10
      BY <1>2, <1>3, <3>1
    <3>3. rest[1] = Order[1]
      BY <1>1, <1>3, <3>1
    <3>4. Order[1] \in Int
      BY OrderIs
    <3>5. QED
      BY <1>3, <3>2, <3>3, <3>4
  <2>3. QED
    BY <1>3, <2>1, <2>2
<1>8. a.cut <=> from + k < n
  BY <1>2, <1>3
<1>9. QED
  BY <1>6, <1>7, <1>8 DEF r

\* The song with other counts is as playable.
Counted(q, tick, resume) == [q EXCEPT !.tick = tick, !.resume = resume]
LEMMA CountedIs ==
  ASSUME NEW q, Playable(q), NEW tick \in Nat, NEW resume \in 0..Len(Order)
  PROVE  /\ Playable(Counted(q, tick, resume))
         /\ Counted(q, tick, resume).tick = tick
         /\ Counted(q, tick, resume).resume = resume
         /\ Counted(q, tick, resume).speed = q.speed
         /\ Counted(q, tick, resume).mod = q.mod
         /\ Counted(q, tick, resume).playing = q.playing
<1> DEFINE y == Counted(q, tick, resume)
<1>1. q \in Songs
  BY DEF Playable
<1>2. /\ y \in Songs /\ y.tick = tick /\ y.resume = resume /\ y.speed = q.speed
      /\ y.mod = q.mod /\ y.playing = q.playing /\ y.order = q.order /\ y.row = q.row
      /\ y.jumpOrder = q.jumpOrder /\ y.jumpRow = q.jumpRow
  BY <1>1 DEF Songs, Counted
<1>3. Playable(y)
  BY <1>2 DEF Playable, Placed
<1>4. QED
  BY <1>2, <1>3

LEMMA TickIs ==
  ASSUME NEW q, Playable(q), NEW c \in Chips, NEW p \in Players(c), NEW e \in Moves
  PROVE  LET t == SeqTick(q, p, e) IN t.p \in Players(c) /\ Ticked(q, t)
<1> DEFINE from == Resumed(q)
           played == Effects(p, e)
           wait == from = 0 /\ q.tick < q.speed - 1
           count == IF from # 0 \/ wait THEN q.tick + 1 ELSE 0
           ticked == [q EXCEPT !.tick = count]
           r == ReadRow(ticked, played, from)
           at == from + Len(r.read)
           all == [r.s EXCEPT !.resume = IF r.cut THEN at ELSE Len(Order)]
           t == SeqTick(q, p, e)
<1>1. /\ q \in Songs /\ q.tick \in Nat /\ q.speed \in Nat /\ q.level \in Nat
      /\ q.resume \in 0..Len(Order)
  BY DEF Playable, Songs
<1>2. from \in 0..(Len(Order) - 1) /\ Len(Order) \in Nat
  BY <1>1, ResumedIs, OrderIs
<1>3. played \in Players(c)
  BY AllMoved
<1>4. count \in Nat
  BY <1>1
<1>5. t = IF q.loading \/ q.waitFlush
          THEN [s |-> q, p |-> p, read |-> <<>>, row |-> 0]
          ELSE IF ~q.playing
          THEN [s |-> q, read |-> <<>>, row |-> 0, p |-> Refreshed(p, q.level)]
          ELSE IF wait THEN [s |-> ticked, p |-> played, read |-> <<>>, row |-> 1]
          ELSE [s |-> IF r.cut THEN all ELSE Advance(all), p |-> r.p,
                read |-> r.read, row |-> IF r.cut THEN 2 ELSE 3]
  <2>1. ticked = [q EXCEPT !.tick = IF from # 0 \/ wait THEN @ + 1 ELSE 0]
    BY <1>1 DEF Songs
  <2> HIDE DEF played, r, all, at
  <2>2. QED
    BY <2>1 DEF SeqTick, played, r, all, at
<1>6. /\ Playable(ticked) /\ ticked.tick = count /\ ticked.resume = q.resume
      /\ ticked.speed = q.speed /\ ticked.mod = q.mod /\ ticked.playing = q.playing
  <2>1. ticked = Counted(q, count, q.resume)
    BY <1>1 DEF Songs, Counted
  <2> HIDE DEF count, ticked
  <2>2. QED
    BY <1>1, <1>4, <2>1, CountedIs
<1> HIDE DEF from, played, ticked, t
<1>7. CASE q.loading \/ q.waitFlush
  <2>1. t.s = q /\ t.p = p /\ t.read = <<>> /\ t.row = 0
    BY <1>5, <1>7
  <2>2. QED
    BY <2>1 DEF Ticked, t
<1>8. CASE ~(q.loading \/ q.waitFlush) /\ ~q.playing
  <2>1. t.s = q /\ t.p = Refreshed(p, q.level) /\ t.read = <<>> /\ t.row = 0
    BY <1>5, <1>8
  <2>2. t.p \in Players(c)
    BY <1>1, <2>1, AllRefreshed
  <2>3. QED
    BY <2>1, <2>2 DEF Ticked, t
<1>9. CASE ~(q.loading \/ q.waitFlush) /\ q.playing /\ wait
  <2>1. t.s = ticked /\ t.p = played /\ t.read = <<>> /\ t.row = 1
    BY <1>5, <1>9
  <2>2. ticked.tick = q.tick + 1
    BY <1>6, <1>9
  <2>3. Ticked(q, t)
    BY <1>1, <1>6, <1>9, <2>1, <2>2 DEF Ticked, from
  <2>4. QED
    BY <1>3, <2>1, <2>3 DEF t
<1>10. CASE ~(q.loading \/ q.waitFlush) /\ q.playing /\ ~wait
  <2>1. ticked \in Songs /\ ticked.mod # 0 /\ Placed(ticked)
    BY <1>6, <1>10 DEF Playable
  <2>2. /\ r \in Readings(ticked, c)
        /\ Reads(r, SubSeq(Order, from + 1, Len(Order)), Len(Order) - from)
    BY <1>2, <1>3, <2>1, RowRead
  <2> HIDE DEF r
  <2>3. r.s \in Jumps(ticked) /\ r.p \in Players(c) /\ r.cut \in BOOLEAN /\ r.read \in Seq(Numbers)
    BY <2>2 DEF Readings
  <2>4. /\ r.read = SubSeq(Order, from + 1, at) /\ at \in 1..Len(Order)
        /\ r.cut <=> at < Len(Order)
    BY <1>2, <2>2, <2>3, RowPart
  <2>5. /\ r.s \in Songs /\ Placed(r.s) /\ r.s.mod = ticked.mod /\ r.s.tick = count
        /\ r.s.playing = ticked.playing /\ r.s.tick \in Nat
    BY <1>4, <1>6, <2>1, <2>3, JumpsIs
  <2>6. Playable(r.s) /\ r.s.playing
    BY <1>6, <1>10, <2>1, <2>5 DEF Playable
  <2> DEFINE y == Counted(r.s, r.s.tick, at)
  <2>7. all = y
    <3> DEFINE k == IF r.cut THEN at ELSE Len(Order)
    <3>1. k = at
      BY <1>2, <2>3, <2>4
    <3> HIDE DEF k, at
    <3>2. [r.s EXCEPT !.resume = k] = Counted(r.s, r.s.tick, at)
      BY <2>5, <3>1 DEF Songs, Counted
    <3>3. QED
      BY <3>2 DEF k
  <2>8. /\ Playable(y) /\ y.tick = count /\ y.resume = at /\ y.mod # 0
    <3>1. at \in 0..Len(Order)
      BY <1>2, <2>4
    <3> HIDE DEF at, count
    <3>2. /\ Playable(y) /\ y.tick = r.s.tick /\ y.resume = at /\ y.mod = r.s.mod
      BY <2>5, <2>6, <3>1, CountedIs
    <3> HIDE DEF y
    <3>3. QED
      BY <2>1, <2>5, <3>2
  <2> HIDE DEF y, all, at
  <2>9. Playable(Advance(y)) /\ Advance(y).tick = count /\ Advance(y).resume = at
    <3> HIDE DEF count
    <3>1. QED
      BY <2>8, AdvanceIs
  <2>10. /\ t.p = r.p /\ t.read = r.read
         /\ t.s = IF r.cut THEN y ELSE Advance(y)
         /\ t.row = IF r.cut THEN 2 ELSE 3
    BY <1>5, <1>10, <2>7
  <2>11. Playable(t.s) /\ t.s.tick = count /\ t.s.resume = at
    <3> HIDE DEF count
    <3>1. QED
      BY <2>8, <2>9, <2>10
  <2>12. count = IF from = 0 THEN 0 ELSE q.tick + 1
    BY <1>10
  <2>13. from <= at
    <3>1. Len(r.read) \in Nat
      BY <2>3
    <3>2. QED
      BY <1>2, <3>1 DEF at
  <2>14. t.row \in {2, 3} /\ (t.row = 2 <=> at < Len(Order))
    BY <2>3, <2>4, <2>10
  <2>15. Ticked(q, t)
    <3>1. t.row \in 0..3 /\ t.row # 0 /\ t.row # 1
      BY <2>14
    <3>2. from = 0 => ~(q.tick < q.speed - 1)
      BY <1>10
    <3>3. /\ t.s.tick = IF from = 0 THEN 0 ELSE q.tick + 1
          /\ t.s.resume \in 1..Len(Order) /\ from <= t.s.resume
          /\ t.read = SubSeq(Order, from + 1, t.s.resume)
      BY <2>4, <2>10, <2>11, <2>12, <2>13
    <3>4. t.row = 2 <=> t.s.resume < Len(Order)
      BY <2>11, <2>14
    <3>5. QED
      BY <2>11, <3>1, <3>2, <3>3, <3>4 DEF Ticked, from
  <2>16. QED
    BY <2>3, <2>10, <2>15 DEF t
<1>11. QED
  <2> HIDE DEF wait, r, all
  <2>1. QED
    BY <1>7, <1>8, <1>9, <1>10

LEMMA PairIs ==
  ASSUME NEW a \in Int, NEW b \in Int
  PROVE  /\ Min({a, b}) = IF a < b THEN a ELSE b
         /\ Max({a, b}) = IF a < b THEN b ELSE a
<1>1. /\ (CHOOSE x \in {a, b} : \A y \in {a, b} : x <= y) = IF a < b THEN a ELSE b
      /\ (CHOOSE x \in {a, b} : \A y \in {a, b} : x >= y) = IF a < b THEN b ELSE a
  OBVIOUS
<1>2. QED
  BY <1>1 DEF Min, Max

LEMMA TowardIs ==
  ASSUME NEW cur \in Nat, NEW tgt \in Nat, NEW step \in Nat
  PROVE  Toward(cur, tgt, step) \in Nat
<1>1. Min({cur + step, tgt}) = IF cur + step < tgt THEN cur + step ELSE tgt
  BY PairIs
<1>2. Max({cur - step, tgt}) = IF cur - step < tgt THEN tgt ELSE cur - step
  BY PairIs
<1>3. QED
  BY <1>1, <1>2 DEF Toward

Faded(q, n, stop, on) ==
  [q EXCEPT !.level = n, !.stopAtZero = stop, !.playing = on, !.waitFlush = FALSE]
LEMMA FadeIs ==
  ASSUME NEW q, Playable(q)
  PROVE  LET y == [Fade(q) EXCEPT !.waitFlush = FALSE] IN
         Playable(y) /\ y.tick = q.tick /\ y.resume = q.resume /\ y.speed = q.speed
<1> DEFINE level == Toward(q.level, q.target, q.step)
           x == [Fade(q) EXCEPT !.waitFlush = FALSE]
<1>1. q \in Songs /\ q.playing \in BOOLEAN /\ q.stopAtZero \in BOOLEAN
  BY DEF Playable, Songs
<1>2. level \in Nat
  BY <1>1, TowardIs DEF Songs
<1> HIDE DEF level
<1>3. ASSUME NEW n \in Nat, NEW stop \in BOOLEAN, NEW on \in BOOLEAN, on => q.playing,
             x = Faded(q, n, stop, on)
      PROVE  Playable(x) /\ x.tick = q.tick /\ x.resume = q.resume /\ x.speed = q.speed
  <2> HIDE DEF x
  <2>1. /\ x \in Songs /\ x.mod = q.mod /\ x.order = q.order /\ x.row = q.row
        /\ x.jumpOrder = q.jumpOrder /\ x.jumpRow = q.jumpRow /\ x.playing = on
        /\ x.tick = q.tick /\ x.resume = q.resume /\ x.speed = q.speed
    BY <1>1, <1>3 DEF Songs, Faded
  <2>2. Playable(x)
    BY <1>3, <2>1 DEF Playable, Placed
  <2>3. QED
    BY <2>1, <2>2
<1>4. CASE level = 0 /\ q.stopAtZero
  <2>1. x = Faded(q, 0, FALSE, FALSE)
    BY <1>1, <1>4 DEF Fade, level, Songs, Faded
  <2> HIDE DEF x
  <2>2. Playable(x) /\ x.tick = q.tick /\ x.resume = q.resume /\ x.speed = q.speed
    BY <1>3, <2>1
  <2>3. QED
    BY <2>2 DEF x
<1>5. CASE ~(level = 0 /\ q.stopAtZero)
  <2>1. x = Faded(q, level, q.stopAtZero, q.playing)
    BY <1>1, <1>5 DEF Fade, level, Songs, Faded
  <2> HIDE DEF x
  <2>2. Playable(x) /\ x.tick = q.tick /\ x.resume = q.resume /\ x.speed = q.speed
    BY <1>1, <1>2, <1>3, <2>1
  <2>3. QED
    BY <2>2 DEF x
<1>6. QED
  BY <1>4, <1>5

-----------------------------------------------------------------------------
(* The inductive invariant, part by part. *)
Waiting ==
  {i \in [k : {"8C", "8D", "C9", "D0", "94", "job"}, x : Nat, y : Nat] :
     /\ i.k \in {"8C", "job"} => i.x \in Tracks
     /\ i.k = "D0" => i.x \in Numbers}
Queued ==
  /\ items \in Seq(Waiting) /\ Len(items) <= ItemRoom
  /\ jobs \in Seq(Tracks) /\ job \in {"queued", "decode", "item"}
  /\ job # "queued" => jobs # <<>>
Player == [z |-> z80, voice |-> voice]
Programs == chip \in Chips /\ Player \in Players(chip)
\* The row's voices so far are Order's first, up to where it resumes.
RowSoFar == got = [now |-> SubSeq(Order, 1, Resumed(song)), row |-> Order]
\* The history's count is the sequencer's own; a row is due in speed ticks.
OnTime ==
  /\ late \in [n : Nat, done : Nat, bad : {FALSE}] /\ song.tick = late.n
  /\ Resumed(song) # 0 => late.done = 0
  /\ Resumed(song) = 0 => /\ late.done <= late.n
                          /\ late.done < late.n => late.n < song.speed
Rows == Playable(song) /\ RowSoFar /\ OnTime
Inv == Rows /\ Programs /\ Queued /\ MusicShown

\* What a frame's tick does, with the sequencer's half t.
Half(t) ==
  /\ t.p \in Players(chip) /\ Ticked(song, t)
  /\ Playable(song') /\ song'.tick = t.s.tick /\ song'.resume = t.s.resume
  /\ song'.speed = t.s.speed
  /\ voice' = t.p.voice /\ chip' = Sent(t.p.z.q, chip) /\ z80' = FlushQueue(t.p.z)
  /\ got' = CASE t.row = 0 -> got
              [] t.row = 3 -> [now |-> <<>>, row |-> got.now \o t.read]
              [] OTHER -> [got EXCEPT !.now = @ \o t.read]
  /\ late' = Timed(t.row, t.row >= 2 /\ Resumed(song) = 0)

LEMMA FramePlays ==
  ASSUME Programs, NEW frame \in Nat
  PROVE  [z |-> VolumeMsg([z80 EXCEPT !.frame = frame]), voice |-> voice] \in Players(chip)
<1> DEFINE y == [z80 EXCEPT !.frame = frame]  z == VolumeMsg(y)  p == Player
<1>1. p \in Players(chip) /\ p.z = z80 /\ p.voice = voice /\ chip \in Chips
  BY DEF Programs, Player
<1>2. Packed(z80) /\ z80 \in Queues
  BY <1>1, PlayerIs
<1>3. y \in Queues /\ y.q = z80.q /\ y.len = z80.len
  BY <1>2 DEF Queues
<1>4. Packed(y)
  BY <1>2, <1>3 DEF Packed
<1>5. Keeps(y, z)
  BY <1>4, VolumeKeeps
<1> HIDE DEF y, z
<1>6. Keeps(p.z, z)
  BY <1>1, <1>3, <1>5 DEF Keeps
<1>7. [p EXCEPT !.z = z] \in Players(chip)
  BY <1>1, <1>6, PlayerWith
<1>8. [p EXCEPT !.z = z] = [z |-> z, voice |-> voice]
  BY DEF Player
<1>9. QED
  BY <1>7, <1>8 DEF y, z

LEMMA TickSteps ==
  ASSUME Rows, Programs, Run94
  PROVE  \E t : Half(t)
<1> DEFINE frame == (z80.frame + 1) % FrameSkip
           z == VolumeMsg([z80 EXCEPT !.frame = frame])
           p == [z |-> z, voice |-> voice]
           Tick(e) == IF frame = 0 THEN [s |-> song, read |-> <<>>, row |-> 0, p |-> p]
                    ELSE SeqTick(song, p, e)
           After(e) == [(IF frame = 0 THEN song ELSE Fade(Tick(e).s)) EXCEPT !.waitFlush = FALSE]
<1>1. PICK e \in Moves :
        /\ song' = After(e) /\ voice' = Tick(e).p.voice
        /\ chip' = Sent(Tick(e).p.z.q, chip) /\ z80' = FlushQueue(Tick(e).p.z)
        /\ got' = CASE Tick(e).row = 0 -> got
                    [] Tick(e).row = 3 -> [now |-> <<>>, row |-> got.now \o Tick(e).read]
                    [] OTHER -> [got EXCEPT !.now = @ \o Tick(e).read]
        /\ late' = Timed(Tick(e).row, Tick(e).row >= 2 /\ Resumed(song) = 0)
  BY Zenon DEF Run94, Moves
<1> DEFINE t == Tick(e)
<1>2. Playable(song) /\ chip \in Chips
  BY DEF Rows, Programs
<1>3. frame \in Nat
  <2>1. z80 \in Queues
    BY PlayerIs DEF Programs, Player
  <2>2. z80.frame \in Nat
    BY <2>1 DEF Queues
  <2>3. FrameSkip \in Nat /\ FrameSkip > 0
    BY SongAssumption
  <2>4. QED
    BY <2>2, <2>3
<1> HIDE DEF frame
<1>4. p \in Players(chip)
  BY <1>3, FramePlays
<1> HIDE DEF p
<1>5. t.p \in Players(chip) /\ Ticked(song, t)
  <2>1. CASE frame = 0
    <3>1. t.s = song /\ t.read = <<>> /\ t.row = 0 /\ t.p = p
      BY <2>1
    <3> HIDE DEF t
    <3>2. QED
      BY <1>2, <1>4, <3>1 DEF Ticked
  <2>2. CASE frame # 0
    <3>1. t = SeqTick(song, p, e)
      BY <2>2
    <3> HIDE DEF t
    <3>2. QED
      BY <1>2, <1>4, <3>1, TickIs
  <2>3. QED
    BY <2>1, <2>2
<1>6. Playable(song') /\ song'.tick = t.s.tick /\ song'.resume = t.s.resume
      /\ song'.speed = t.s.speed
  <2>1. CASE frame = 0
    <3>1. song' = [song EXCEPT !.waitFlush = FALSE] /\ t.s = song
      BY <1>1, <2>1
    <3> HIDE DEF t
    <3>2. song \in Songs
      BY <1>2 DEF Playable
    <3>3. /\ song' \in Songs /\ song'.mod = song.mod /\ song'.order = song.order
          /\ song'.row = song.row /\ song'.jumpOrder = song.jumpOrder
          /\ song'.jumpRow = song.jumpRow /\ song'.playing = song.playing
          /\ song'.tick = song.tick /\ song'.resume = song.resume
          /\ song'.speed = song.speed
      BY <3>1, <3>2 DEF Songs
    <3>4. Playable(song')
      BY <1>2, <3>3 DEF Playable, Placed
    <3>5. QED
      BY <3>1, <3>3, <3>4
  <2>2. CASE frame # 0
    <3>1. song' = [Fade(t.s) EXCEPT !.waitFlush = FALSE]
      BY <1>1, <2>2
    <3> DEFINE y == t.s
    <3>2. Playable(y)
      BY <1>5 DEF Ticked
    <3> HIDE DEF t
    <3>3. QED
      BY <3>1, <3>2, FadeIs
  <2>3. QED
    BY <2>1, <2>2
<1>7. Half(t)
  <2> HIDE DEF Tick, After
  <2>1. QED
    BY <1>1, <1>5, <1>6 DEF Half
<1>8. QED
  BY <1>7

LEMMA InitInv == Init => Inv
<1> SUFFICES ASSUME Init PROVE Inv
  OBVIOUS
<1>1. /\ song.mod = 0 /\ ~song.playing /\ song.tick = 0 /\ song.resume = 0
      /\ song \in Songs
  <2>1. 0 \in 0..Len(Order)
    BY OrderIs
  <2>2. QED
    BY <2>1 DEF Init, Songs
<1>2. Rows
  <2>1. Resumed(song) = 0
    BY <1>1 DEF Resumed
  <2>2. SubSeq(Order, 1, 0) = <<>>
    BY OrderIs
  <2>3. Playable(song)
    BY <1>1 DEF Playable, Placed
  <2>4. RowSoFar
    BY <2>1, <2>2 DEF Init, RowSoFar
  <2>5. OnTime
    <3>1. late = [n |-> 0, done |-> 0, bad |-> FALSE]
      BY DEF Init
    <3>2. QED
      BY <1>1, <2>1, <3>1 DEF OnTime
  <2>6. QED
    BY <2>3, <2>4, <2>5 DEF Rows
<1>3. Programs
  <2>1. chip \in Chips
    <3>1. chip = [v \in Fm |-> None]
      BY DEF Init
    <3>2. QED
      BY <3>1 DEF Chips, None
  <2>2. z80 \in Queues /\ z80.q = <<>> /\ z80.len = 0
    <3>1. z80 = [q |-> <<>>, len |-> 0, stale |-> <<"", 0>>, cost |-> 0,
                 budget |-> 4095, frame |-> 0, below |-> FALSE]
      BY DEF Init
    <3>2. <<>> \in Seq(Msgs)
      OBVIOUS
    <3> DEFINE Tick(e) == [q |-> e, len |-> 0, stale |-> <<"", 0>>, cost |-> 0,
                         budget |-> 4095, frame |-> 0, below |-> FALSE]
    <3>3. ASSUME NEW e \in Seq(Msgs) PROVE Tick(e) \in Queues
      BY DEF Queues
    <3>4. z80 = Tick(<<>>)
      BY <3>1
    <3>5. z80.q = <<>> /\ z80.len = 0
      BY <3>1
    <3> HIDE DEF Tick
    <3>6. QED
      BY <3>2, <3>3, <3>4, <3>5
  <2>3. Packed(z80)
    BY <2>2, NoBytes, SongAssumption DEF Packed
  <2>4. voice \in [Fm -> [prog : Nat, sent : Nat]] /\ \A v \in Fm : voice[v].prog = 0
    BY DEF Init
  <2>5. Player \in Players(chip)
    BY <2>2, <2>3, <2>4 DEF Player, Players
  <2>6. QED
    BY <2>1, <2>5 DEF Programs
<1>4. Queued
  <2>1. items = <<>> /\ jobs = <<>> /\ job = "queued" /\ ItemRoom \in Nat
    BY SongAssumption DEF Init
  <2>2. QED
    BY <2>1 DEF Queued
<1>5. MusicShown
  BY DEF Init, MusicShown
<1>6. QED
  BY <1>2, <1>3, <1>4, <1>5 DEF Inv

LEMMA TailIs ==
  ASSUME NEW E, NEW q \in Seq(E), q # <<>>
  PROVE  /\ Tail(q) \in Seq(E) /\ Len(Tail(q)) = Len(q) - 1 /\ q[1] \in E
         /\ Len(q) \in Nat \ {0} /\ (Tail(q) = <<>> => Len(q) = 1)
<1>1. Len(q) \in Nat \ {0} /\ q[1] \in E
  OBVIOUS
<1>2. Tail(q) \in Seq(E) /\ Len(Tail(q)) = Len(q) - 1
  OBVIOUS
<1>3. QED
  BY <1>1, <1>2

LEMMA ArriveQueued ==
  ASSUME Queued, NEW k, NEW x, NEW y, Arrive(k, x, y),
         [k |-> k, x |-> x, y |-> y] \in Waiting
  PROVE  items' \in Seq(Waiting) /\ Len(items') <= ItemRoom
<1> DEFINE i == [k |-> k, x |-> x, y |-> y]
<1>1. items \in Seq(Waiting) /\ Len(items) < ItemRoom /\ items' = Append(items, i)
  BY DEF Queued, Arrive
<1> HIDE DEF i
<1>2. i \in Waiting
  BY DEF i
<1>3. Len(items') = Len(items) + 1 /\ items' \in Seq(Waiting) /\ Len(items) \in Nat
  BY <1>1, <1>2
<1>4. ItemRoom \in Nat
  BY SongAssumption
<1>5. QED
  BY <1>1, <1>3, <1>4

LEMMA PostQueued ==
  ASSUME Queued, Post
  PROVE  Queued'
<1>1. jobs \in Seq(Tracks) /\ job \in {"queued", "decode", "item"}
      /\ (job # "queued" => jobs # <<>>)
  BY DEF Queued
<1>2. Tracks \subseteq Nat /\ Levels \subseteq Nat /\ Direct \subseteq Numbers \X Nat /\ 0 \in Levels
  BY SongAssumption DEF Numbers
<1>3. CASE Post8C
  <2>1. PICK t \in Tracks, loop \in {0, 1} :
          Arrive("8C", t, loop) /\ jobs' = Append(jobs, t) /\ job' = job
    BY <1>3 DEF Post8C
  <2>2. [k |-> "8C", x |-> t, y |-> loop] \in Waiting
    BY <1>2, <2>1 DEF Waiting
  <2>3. items' \in Seq(Waiting) /\ Len(items') <= ItemRoom
    BY <2>1, <2>2, ArriveQueued
  <2>4. jobs' \in Seq(Tracks) /\ jobs' # <<>>
    BY <1>1, <2>1
  <2>5. QED
    BY <1>1, <2>1, <2>3, <2>4 DEF Queued
<1>4. CASE Post8D
  <2>1. PICK step \in Levels : Arrive("8D", step, 0) /\ jobs' = jobs /\ job' = job
    BY <1>4 DEF Post8D
  <2>2. [k |-> "8D", x |-> step, y |-> 0] \in Waiting
    BY <1>2, <2>1 DEF Waiting
  <2>3. items' \in Seq(Waiting) /\ Len(items') <= ItemRoom
    BY <2>1, <2>2, ArriveQueued
  <2>4. QED
    BY <1>1, <2>1, <2>3 DEF Queued
<1>5. CASE PostC9
  <2>1. PICK l \in Levels, step \in Levels : Arrive("C9", l, step) /\ jobs' = jobs /\ job' = job
    BY <1>5 DEF PostC9
  <2>2. [k |-> "C9", x |-> l, y |-> step] \in Waiting
    BY <1>2, <2>1 DEF Waiting
  <2>3. items' \in Seq(Waiting) /\ Len(items') <= ItemRoom
    BY <2>1, <2>2, ArriveQueued
  <2>4. QED
    BY <1>1, <2>1, <2>3 DEF Queued
<1>6. CASE PostD0
  <2>1. PICK d \in Direct : Arrive("D0", d[1], d[2]) /\ jobs' = jobs /\ job' = job
    BY <1>6 DEF PostD0
  <2>2. d[1] \in Numbers /\ d[2] \in Nat /\ d[1] \in Nat
    BY <1>2, <2>1 DEF Numbers
  <2>3. [k |-> "D0", x |-> d[1], y |-> d[2]] \in Waiting
    BY <2>2 DEF Waiting
  <2>4. items' \in Seq(Waiting) /\ Len(items') <= ItemRoom
    BY <2>1, <2>3, ArriveQueued
  <2>5. QED
    BY <1>1, <2>1, <2>4 DEF Queued
<1>7. CASE Post94
  <2>1. Arrive("94", 0, 0) /\ jobs' = jobs /\ job' = job
    BY <1>7 DEF Post94
  <2>2. [k |-> "94", x |-> 0, y |-> 0] \in Waiting
    BY DEF Waiting
  <2>3. items' \in Seq(Waiting) /\ Len(items') <= ItemRoom
    BY <2>1, <2>2, ArriveQueued
  <2>4. QED
    BY <1>1, <2>1, <2>3 DEF Queued
<1>8. QED
  BY <1>3, <1>4, <1>5, <1>6, <1>7 DEF Post

\* Every action that runs an item takes it from the queue's head.
LEMMA RunTakes ==
  ASSUME Run
  PROVE  /\ items # <<>> /\ items' = Tail(items) /\ jobs' = jobs /\ job' = job
         /\ ItemPass(song')
<1> DEFINE Took == /\ items # <<>> /\ items' = Tail(items) /\ jobs' = jobs /\ job' = job
                   /\ ItemPass(song')
<1>1. CASE Run94
  BY <1>1, Zenon DEF Run94, Take
<1>2. CASE RunD0
  BY <1>2 DEF RunD0, ItemPass, Take
<1>3. CASE RunStart
  BY <1>3 DEF RunStart, Take
<1>4. ASSUME NEW k, NEW after, RunState(k, after) PROVE Took
  BY <1>4 DEF RunState, Take
<1>5. Run8C \/ Run8D \/ RunC9 => Took
  BY <1>4 DEF Run8C, Run8D, RunC9
<1>6. QED
  BY <1>1, <1>2, <1>3, <1>5 DEF Run

LEMMA QueuedStep == ASSUME Queued, [Next]_vars PROVE Queued'
<1>1. CASE Post
  BY <1>1, PostQueued
<1>2. CASE Run
  <2>2. items # <<>> /\ items' = Tail(items) /\ jobs' = jobs /\ job' = job
    BY <1>2, RunTakes
  <2>3. items \in Seq(Waiting) /\ Len(items) <= ItemRoom /\ ItemRoom \in Nat
    BY SongAssumption DEF Queued
  <2>4. items' \in Seq(Waiting) /\ Len(items') <= ItemRoom
    BY <2>2, <2>3, TailIs
  <2>5. QED
    BY <2>2, <2>4 DEF Queued
<1>3. CASE JobStart
  BY <1>3 DEF Queued, JobStart
<1>4. CASE JobItem
  <2> DEFINE i == [k |-> "job", x |-> jobs[1], y |-> 0]
  <2>1. /\ job = "decode" /\ jobs[1] \in Stored /\ Len(items) < ItemRoom /\ job' = "item"
        /\ items' = Append(items, i) /\ jobs' = jobs
    BY <1>4 DEF JobItem
  <2>2. Stored \subseteq Tracks /\ Tracks \subseteq Nat /\ ItemRoom \in Nat
    BY SongAssumption
  <2>3. i \in Waiting
    BY <2>1, <2>2 DEF Waiting
  <2>4. items \in Seq(Waiting) /\ Len(items) <= ItemRoom
    BY DEF Queued
  <2> HIDE DEF i
  <2>5. items' \in Seq(Waiting) /\ Len(items') = Len(items) + 1 /\ Len(items) \in Nat
    BY <2>1, <2>3, <2>4
  <2>6. Len(items') <= ItemRoom
    BY <2>1, <2>2, <2>5
  <2>7. QED
    BY <2>1, <2>5, <2>6 DEF Queued
<1>5. CASE JobEnd
  <2>1. jobs # <<>> /\ jobs \in Seq(Tracks)
    BY <1>5 DEF Queued, JobEnd
  <2>2. Tail(jobs) \in Seq(Tracks)
    BY <2>1, TailIs
  <2>3. QED
    BY <1>5, <2>2 DEF Queued, JobEnd
<1>6. CASE Pass
  BY <1>6 DEF Queued, Pass
<1>7. CASE UNCHANGED vars
  BY <1>7 DEF Queued, vars
<1>8. QED
  BY <1>1, <1>2, <1>3, <1>4, <1>5, <1>6, <1>7 DEF Next, Job

\* Bit 3 is behind the song only while something is left that will pass it.
LEMMA ShownStep == ASSUME Queued, MusicShown, [Next]_vars PROVE MusicShown'
<1>1. CASE Post
  <2>1. ASSUME NEW k, NEW x, NEW y, Arrive(k, x, y) PROVE items' # <<>>
    <3>1. items \in Seq(Waiting) /\ items' = Append(items, [k |-> k, x |-> x, y |-> y])
      BY <2>1 DEF Arrive, Queued
    <3>2. QED
      BY <3>1
  <2>2. items' # <<>>
    BY <1>1, <2>1 DEF Post, Post8C, Post8D, PostC9, PostD0, Post94
  <2>3. QED
    BY <2>2 DEF MusicShown
<1>2. CASE Run
  <2>2. /\ items # <<>> /\ items' = Tail(items) /\ jobs' = jobs /\ items \in Seq(Waiting)
        /\ bit3' = IF jobs = <<>> /\ Len(items) = 1 THEN song'.playing ELSE bit3
    BY <1>2, RunTakes DEF ItemPass, Queued
  <2>3. items' = <<>> => Len(items) = 1
    BY <2>2, TailIs
  <2>4. QED
    BY <2>2, <2>3 DEF MusicShown
<1>3. CASE JobStart
  BY <1>3 DEF MusicShown, JobStart
<1>4. CASE JobItem
  <2>1. items \in Seq(Waiting) /\ items' = Append(items, [k |-> "job", x |-> jobs[1], y |-> 0])
    BY <1>4 DEF JobItem, Queued
  <2>2. items' # <<>>
    BY <2>1
  <2>3. QED
    BY <2>2 DEF MusicShown
<1>5. CASE JobEnd
  BY <1>5 DEF MusicShown, JobEnd
<1>6. CASE Pass
  BY <1>6 DEF MusicShown, Pass
<1>7. CASE UNCHANGED vars
  BY <1>7 DEF MusicShown, vars
<1>8. QED
  BY <1>1, <1>2, <1>3, <1>4, <1>5, <1>6, <1>7 DEF Next, Job

LEMMA NoSent == ASSUME NEW c \in Chips PROVE Sent(<<>>, c) = c
<1> DEFINE q == <<>>
<1>1. q \in Seq(Msgs) /\ Len(q) = 0
  OBVIOUS
<1> HIDE DEF q
<1>2. PICK f \in [0..Len(q) -> Chips] :
        /\ f[0] = c
        /\ \A k \in 1..Len(q) : f[k] = Told(f[k - 1], q[k])
        /\ Sent(q, c) = f[Len(q)]
  BY <1>1, SentWalk
<1>3. QED
  BY <1>1, <1>2 DEF q

LEMMA FlushFits ==
  ASSUME NEW z, Packed(z)
  PROVE  FlushQueue(z) \in Queues /\ Packed(FlushQueue(z)) /\ FlushQueue(z).q = <<>>
<1> DEFINE To(e) == [z EXCEPT !.q = e, !.len = 0, !.cost = 5, !.budget = MaxCost,
                              !.stale = <<"", 0>>]
           y == FlushQueue(z)
<1>1. z \in Queues /\ MaxCost \in Nat
  BY SongAssumption DEF Packed
<1>2. ASSUME NEW e \in Seq(Msgs) PROVE To(e) \in Queues /\ To(e).q = e /\ To(e).len = 0
  BY <1>1 DEF Queues
<1>3. <<>> \in Seq(Msgs) /\ y = To(<<>>)
  BY DEF FlushQueue
<1> HIDE DEF To, y
<1>4. y \in Queues /\ y.q = <<>> /\ y.len = 0
  BY <1>2, <1>3
<1>5. Packed(y)
  BY <1>4, NoBytes, SongAssumption DEF Packed
<1>6. QED
  BY <1>4, <1>5 DEF y

\* A queue and the voices' records are a player when each program is known.
LEMMA PlayerFrom ==
  ASSUME NEW c, NEW z, Packed(z), NEW vo \in [Fm -> [prog : Nat, sent : Nat]],
         \A v \in Fm : vo[v].prog \in {0, None, Sent(z.q, c)[v]}
  PROVE  [z |-> z, voice |-> vo] \in Players(c)
  BY DEF Players, Packed

\* The program that is believed was sent, or waits in the queue.
LEMMA ProgramStep == ASSUME Rows, Programs, Queued, [Next]_vars PROVE Programs'
<1>1. chip \in Chips /\ Player \in Players(chip) /\ Player.z = z80 /\ Player.voice = voice
  BY DEF Programs, Player
<1>2. CASE UNCHANGED <<z80, voice, chip>>
  BY <1>2 DEF Programs, Player
<1>3. CASE RunD0
  <2>1. /\ chip' = chip /\ z80' = BodyD0(Player, items[1]).z
        /\ voice' = BodyD0(Player, items[1]).voice
    BY <1>3 DEF RunD0, Player
  <2>2. items[1] \in Waiting /\ items[1].k = "D0"
    BY <1>3, TailIs DEF RunD0, Take, Queued
  <2>3. items[1].x \in Numbers /\ items[1].y \in Nat
    BY <2>2 DEF Waiting
  <2> DEFINE p == IF items[1].x \in Fm THEN ProgramMsg(Player, items[1].x, items[1].y) ELSE Player
             y == BodyD0(Player, items[1])
  <2>4. p \in Players(chip)
    BY <1>1, <2>3, ProgramPlays
  <2>5. y = NoteOn(p, items[1].x)
    BY DEF BodyD0
  <2> HIDE DEF p, y
  <2>6. y \in Players(chip)
    BY <1>1, <2>3, <2>4, <2>5, NoteOnPlays DEF Numbers
  <2>7. y = [z |-> y.z, voice |-> y.voice]
    BY <2>6, PlayerIs
  <2>8. Player' = y
    BY <2>1, <2>7 DEF Player, y
  <2>9. QED
    BY <1>1, <2>1, <2>6, <2>8 DEF Programs
<1>4. CASE RunStart
  <2>1. chip' = chip /\ z80' = StartQueue(z80) /\ voice' = StartVoices(voice)
    BY <1>4 DEF RunStart
  <2>2. Packed(z80')
    BY <1>1, <2>1, PlayerIs, StartFits
  <2>3. voice' = [v \in Fm |-> [prog |-> None, sent |-> None]] /\ None \in Nat
    BY <2>1 DEF StartVoices, None
  <2>4. voice' \in [Fm -> [prog : Nat, sent : Nat]] /\ \A v \in Fm : voice'[v].prog = None
    BY <2>3
  <2> DEFINE z == z80'  vo == voice'
  <2> HIDE DEF z, vo
  <2>5. [z |-> z, voice |-> vo] \in Players(chip)
    BY <2>2, <2>4, PlayerFrom DEF z, vo
  <2>6. Player' = [z |-> z, voice |-> vo]
    BY DEF Player, z, vo
  <2>7. QED
    BY <1>1, <2>1, <2>5, <2>6 DEF Programs
<1>5. CASE Run94
  <2>1. PICK t : Half(t)
    BY <1>5, TickSteps
  <2>2. /\ t.p \in Players(chip) /\ voice' = t.p.voice /\ chip' = Sent(t.p.z.q, chip)
        /\ z80' = FlushQueue(t.p.z)
    BY <2>1 DEF Half
  <2>3. /\ Packed(t.p.z) /\ t.p.voice \in [Fm -> [prog : Nat, sent : Nat]]
        /\ t.p.z \in Queues /\ t.p.z.q \in Seq(Msgs)
    BY <2>2, PlayerIs DEF Queues
  <2>4. chip' \in Chips
    BY <1>1, <2>2, <2>3, SentIs
  <2> DEFINE z == z80'  vo == voice'  c == chip'
  <2> HIDE DEF z, vo, c
  <2>5. Packed(z) /\ z.q = <<>>
    BY <2>2, <2>3, FlushFits DEF z
  <2>6. Sent(z.q, c) = c
    BY <2>4, <2>5, NoSent DEF c
  <2>7. \A v \in Fm : vo[v].prog \in {0, None, c[v]}
    BY <2>2 DEF Players, c, vo
  <2>8. [z |-> z, voice |-> vo] \in Players(c)
    BY <2>2, <2>3, <2>5, <2>6, <2>7, PlayerFrom DEF vo
  <2>9. Player' = [z |-> z, voice |-> vo]
    BY DEF Player, z, vo
  <2>10. QED
    BY <2>4, <2>8, <2>9 DEF Programs, c
<1>6. QED
  <2>1. ASSUME NEW k, NEW x, NEW y, Arrive(k, x, y) PROVE UNCHANGED <<z80, voice, chip>>
    BY <2>1 DEF Arrive
  <2>2. CASE Post
    BY <1>2, <2>1, <2>2 DEF Post, Post8C, Post8D, PostC9, PostD0, Post94
  <2>3. CASE Run8C \/ Run8D \/ RunC9
    BY <1>2, <2>3 DEF Run8C, Run8D, RunC9, RunState
  <2>4. CASE Job
    BY <1>2, <2>4 DEF Job, JobStart, JobItem, JobEnd
  <2>5. CASE Pass \/ UNCHANGED vars
    BY <1>2, <2>5 DEF Pass, vars
  <2>6. QED
    BY <1>3, <1>4, <1>5, <2>2, <2>3, <2>4, <2>5 DEF Next, Run

\* The counts a row's history is about.
LEMMA Steady ==
  ASSUME RowSoFar, OnTime, got' = got, late' = late, song'.tick = song.tick,
         song'.resume = song.resume, song'.speed = song.speed
  PROVE  RowSoFar' /\ OnTime'
<1>1. Resumed(song)' = Resumed(song)
  BY DEF Resumed
<1>2. QED
  BY <1>1 DEF RowSoFar, OnTime

LEMMA TimedBegin ==
  ASSUME NEW row, row # 0, late.bad = FALSE, late.n + 1 = Max({song.speed, late.done + 1})
  PROVE  Timed(row, TRUE) = [n |-> 0, done |-> 0, bad |-> FALSE]
  BY DEF Timed

LEMMA TimedOn ==
  ASSUME NEW row, row # 0, late.bad = FALSE
  PROVE  Timed(row, FALSE) = [n |-> late.n + 1, done |-> IF row = 3 THEN late.n + 1 ELSE late.done,
                              bad |-> FALSE]
  BY DEF Timed

LEMMA RowTimed ==
  ASSUME Rows, NEW t, Half(t)
  PROVE  OnTime'
<1> DEFINE from == Resumed(song)
<1>1. /\ late \in [n : Nat, done : Nat, bad : {FALSE}] /\ song.tick = late.n
      /\ from # 0 => late.done = 0
      /\ from = 0 => late.done <= late.n /\ (late.done < late.n => late.n < song.speed)
  BY DEF Rows, OnTime
<1>2. late.n \in Nat /\ late.done \in Nat /\ late.bad = FALSE
  BY <1>1
<1>3. song \in Songs /\ song.speed \in Nat /\ song.tick \in Nat
  BY DEF Rows, Playable, Songs
<1>4. from \in 0..(Len(Order) - 1) /\ Len(Order) \in Nat
  BY <1>3, ResumedIs, OrderIs
<1>5. /\ Ticked(song, t) /\ song'.tick = t.s.tick /\ song'.resume = t.s.resume
      /\ song'.speed = t.s.speed /\ Playable(song')
      /\ late' = Timed(t.row, t.row >= 2 /\ from = 0)
  BY DEF Half
<1>6. t.row \in 0..3
  BY <1>5 DEF Ticked
<1> HIDE DEF from
<1> DEFINE next == Resumed(song)'
<1>7. next = IF song'.resume \in 1..(Len(Order) - 1) THEN song'.resume ELSE 0
  BY DEF Resumed
<1> HIDE DEF next
<1>8. ASSUME NEW n \in Nat, NEW d \in Nat, late' = [n |-> n, done |-> d, bad |-> FALSE],
             song'.tick = n, next # 0 => d = 0,
             next = 0 => d <= n /\ (d < n => n < song'.speed)
      PROVE  OnTime'
  <2>1. late'.n = n /\ late'.done = d /\ late' \in [n : Nat, done : Nat, bad : {FALSE}]
    BY <1>8
  <2>2. QED
    BY <1>8, <2>1 DEF OnTime, next
<1>9. CASE t.row = 0
  <2>1. t.s = song /\ late' = late
    BY <1>5, <1>9 DEF Ticked, Timed
  <2>2. next = from
    BY <1>5, <1>7, <2>1 DEF from, Resumed
  <2>3. late' = [n |-> late.n, done |-> late.done, bad |-> FALSE]
    BY <1>1, <1>2, <2>1
  <2>4. song'.tick = late.n /\ song'.speed = song.speed
    BY <1>1, <1>5, <2>1
  <2>5. QED
    BY <1>1, <1>2, <1>8, <2>2, <2>3, <2>4
<1>10. CASE t.row = 1
  <2>1. /\ from = 0 /\ song.tick < song.speed - 1 /\ t.s.tick = song.tick + 1
        /\ t.s.resume = song.resume /\ t.s.speed = song.speed
    BY <1>5, <1>10 DEF Ticked, from
  <2>2. late' = [n |-> late.n + 1, done |-> late.done, bad |-> FALSE]
    <3>1. (t.row >= 2 /\ from = 0) = FALSE /\ t.row # 0 /\ t.row # 3
      BY <1>10
    <3>2. late' = Timed(t.row, FALSE)
      BY <1>5, <3>1
    <3>3. QED
      BY <1>2, <3>1, <3>2, TimedOn
  <2>3. next = from
    BY <1>5, <1>7, <2>1 DEF from, Resumed
  <2>4. late.done <= late.n /\ late.n + 1 < song.speed
    BY <1>1, <1>2, <1>3, <2>1
  <2>5. song'.tick = late.n + 1 /\ song'.speed = song.speed /\ late.n + 1 \in Nat
    BY <1>1, <1>2, <1>5, <2>1
  <2>6. QED
    BY <1>2, <1>8, <2>1, <2>2, <2>3, <2>4, <2>5
<1>11. CASE t.row >= 2
  <2>1. /\ t.s.tick = IF from = 0 THEN 0 ELSE song.tick + 1
        /\ from = 0 => ~(song.tick < song.speed - 1)
        /\ t.s.resume \in 1..Len(Order)
        /\ t.row = 2 <=> t.s.resume < Len(Order)
    BY <1>5, <1>11 DEF Ticked, from
  <2>2. t.row \in {2, 3}
    BY <1>6, <1>11
  <2>3. next = IF t.row = 2 THEN t.s.resume ELSE 0
    BY <1>4, <1>5, <1>7, <2>1, <2>2
  <2>4. CASE from = 0
    <3>1. late.n + 1 = Max({song.speed, late.done + 1})
      <4>1. late.done + 1 \in Int /\ song.speed \in Int
        BY <1>2, <1>3
      <4>2. Max({song.speed, late.done + 1})
              = IF song.speed < late.done + 1 THEN late.done + 1 ELSE song.speed
        BY <4>1, PairIs
      <4>3. late.n + 1 >= song.speed /\ late.done <= late.n
            /\ (late.done < late.n => late.n < song.speed)
        BY <1>1, <1>2, <1>3, <2>1, <2>4
      <4>4. QED
        BY <1>2, <1>3, <4>2, <4>3
    <3>2. (t.row >= 2 /\ from = 0) = TRUE /\ t.row # 0
      BY <1>11, <2>2, <2>4
    <3>3. late' = [n |-> 0, done |-> 0, bad |-> FALSE]
      <4>1. late' = Timed(t.row, TRUE)
        BY <1>5, <3>2
      <4>2. QED
        BY <1>2, <3>1, <3>2, <4>1, TimedBegin
    <3>4. song'.tick = 0
      BY <1>5, <2>1, <2>4
    <3>5. QED
      BY <1>8, <3>3, <3>4
  <2>5. CASE from # 0
    <3>1. late' = [n |-> late.n + 1, done |-> IF t.row = 3 THEN late.n + 1 ELSE late.done,
                   bad |-> FALSE]
      <4>1. (t.row >= 2 /\ from = 0) = FALSE /\ t.row # 0
        BY <2>2, <2>5
      <4>2. late' = Timed(t.row, FALSE)
        BY <1>5, <4>1
      <4>3. QED
        BY <1>2, <4>1, <4>2, TimedOn
    <3>2. song'.tick = late.n + 1 /\ late.n + 1 \in Nat /\ late.done = 0
      BY <1>1, <1>2, <1>5, <2>1, <2>5
    <3>3. CASE t.row = 2
      <4>1. next # 0 /\ late' = [n |-> late.n + 1, done |-> 0, bad |-> FALSE]
        BY <1>4, <2>1, <2>3, <3>1, <3>2, <3>3
      <4>2. QED
        BY <1>8, <3>2, <4>1
    <3>4. CASE t.row = 3
      <4>1. next = 0 /\ late' = [n |-> late.n + 1, done |-> late.n + 1, bad |-> FALSE]
        BY <2>3, <3>1, <3>4
      <4>2. late.n + 1 <= late.n + 1 /\ ~(late.n + 1 < late.n + 1)
        BY <1>2
      <4>3. QED
        BY <1>8, <3>2, <4>1, <4>2
    <3>5. QED
      BY <2>2, <3>3, <3>4
  <2>6. QED
    BY <2>4, <2>5
<1>12. t.row = 0 \/ t.row = 1 \/ t.row >= 2
  BY <1>6
<1>13. QED
  BY <1>9, <1>10, <1>11, <1>12

\* Two runs of Order's voices, one behind the other.
LEMMA ConcatIs ==
  ASSUME NEW E, NEW x \in Seq(E), NEW y \in Seq(E)
  PROVE  /\ x \o y \in Seq(E) /\ Len(x \o y) = Len(x) + Len(y)
         /\ \A i \in 1..(Len(x) + Len(y)) :
              (x \o y)[i] = IF i <= Len(x) THEN x[i] ELSE y[i - Len(x)]
  OBVIOUS

LEMMA RunsJoin ==
  ASSUME NEW a \in 0..Len(Order), NEW b \in a..Len(Order)
  PROVE  SubSeq(Order, 1, a) \o SubSeq(Order, a + 1, b) = SubSeq(Order, 1, b)
<1> DEFINE x == SubSeq(Order, 1, a)  y == SubSeq(Order, a + 1, b)  w == SubSeq(Order, 1, b)
<1>1. Order \in Seq(Numbers) /\ Len(Order) \in Nat
  BY OrderIs DEF Numbers
<1>2. x \in Seq(Numbers) /\ Len(x) = a /\ \A i \in 1..a : x[i] = Order[i]
  BY <1>1, PrefixIs
<1>3. w \in Seq(Numbers) /\ Len(w) = b /\ \A i \in 1..b : w[i] = Order[i]
  <2>1. b \in 0..Len(Order)
    BY <1>1
  <2>2. QED
    BY <1>1, <2>1, PrefixIs
<1>4. y \in Seq(Numbers) /\ Len(y) = b - a /\ \A i \in 1..(b - a) : y[i] = Order[a + i]
  BY <1>1
<1> HIDE DEF x, y, w
<1>5. /\ x \o y \in Seq(Numbers) /\ Len(x \o y) = b
      /\ \A i \in 1..b : (x \o y)[i] = IF i <= a THEN x[i] ELSE y[i - a]
  <2>1. a + (b - a) = b
    BY <1>1
  <2>2. QED
    BY <1>2, <1>4, <2>1, ConcatIs
<1>6. \A i \in 1..b : (x \o y)[i] = w[i]
  <2>1. ASSUME NEW i \in 1..b, i > a PROVE y[i - a] = w[i]
    <3>1. i - a \in 1..(b - a) /\ a + (i - a) = i
      BY <1>1, <2>1
    <3>2. y[i - a] = Order[a + (i - a)]
      BY <1>4, <3>1
    <3>3. QED
      BY <1>3, <3>1, <3>2
  <2>2. ASSUME NEW i \in 1..b, i <= a PROVE x[i] = w[i]
    BY <1>1, <1>2, <1>3, <2>2
  <2>3. ASSUME NEW i \in 1..b PROVE (x \o y)[i] = w[i]
    <3>1. i <= a \/ i > a
      BY <1>1
    <3>2. QED
      BY <1>1, <1>5, <2>1, <2>2, <3>1
  <2>4. QED
    BY <2>3
<1>7. x \o y = w
  BY <1>3, <1>5, <1>6, SameSeq
<1>8. QED
  BY <1>7 DEF x, y, w

LEMMA WholeIs == SubSeq(Order, 1, Len(Order)) = Order /\ SubSeq(Order, 1, 0) = <<>>
<1>1. Order \in Seq(Numbers) /\ Len(Order) \in 0..Len(Order)
  BY OrderIs DEF Numbers
<1> DEFINE w == SubSeq(Order, 1, Len(Order))
<1>2. w \in Seq(Numbers) /\ Len(w) = Len(Order) /\ \A i \in 1..Len(Order) : w[i] = Order[i]
  BY <1>1, PrefixIs
<1> HIDE DEF w
<1>3. w = Order
  BY <1>1, <1>2, SameSeq
<1>4. QED
  BY <1>1, <1>3 DEF w

LEMMA RowWhole ==
  ASSUME Rows, NEW t, Half(t)
  PROVE  RowSoFar'
<1> DEFINE from == Resumed(song)  next == Resumed(song)'  x == SubSeq(Order, 1, from)
<1>1. got = [now |-> x, row |-> Order]
  BY DEF Rows, RowSoFar
<1>2. song \in Songs
  BY DEF Rows, Playable
<1>3. from \in 0..(Len(Order) - 1) /\ Len(Order) \in Nat
  BY <1>2, ResumedIs, OrderIs
<1>4. /\ Ticked(song, t) /\ song'.resume = t.s.resume
      /\ got' = CASE t.row = 0 -> got
                  [] t.row = 3 -> [now |-> <<>>, row |-> got.now \o t.read]
                  [] OTHER -> [got EXCEPT !.now = @ \o t.read]
  BY DEF Half
<1>5. t.row \in 0..3
  BY <1>4 DEF Ticked
<1>6. next = IF song'.resume \in 1..(Len(Order) - 1) THEN song'.resume ELSE 0
  BY DEF Resumed
<1>7. x \in Seq(Numbers)
  <2>1. Order \in Seq(Numbers) /\ from \in 0..Len(Order)
    BY <1>3, OrderIs DEF Numbers
  <2> HIDE DEF from
  <2>2. QED
    BY <2>1, PrefixIs
<1>8. SUFFICES got' = [now |-> SubSeq(Order, 1, next), row |-> Order]
  BY DEF RowSoFar
<1>9. CASE t.row = 0
  <2>1. t.s = song /\ got' = got
    BY <1>4, <1>9 DEF Ticked
  <2>2. next = from
    BY <1>4, <1>6, <2>1 DEF Resumed
  <2>3. QED
    BY <1>1, <2>1, <2>2
<1>10. CASE t.row = 1
  <2>1. t.read = <<>> /\ t.s.resume = song.resume
    BY <1>4, <1>10 DEF Ticked
  <2>2. next = from
    BY <1>4, <1>6, <2>1 DEF Resumed
  <2> HIDE DEF x, from, next
  <2>3. got' = [got EXCEPT !.now = @ \o t.read]
    BY <1>4, <1>10
  <2>4. x \o <<>> = x
    BY <1>7
  <2>5. got' = [now |-> x, row |-> Order]
    BY <1>1, <2>1, <2>3, <2>4
  <2>6. QED
    BY <2>2, <2>5 DEF x
<1>11. CASE t.row >= 2
  <2>1. /\ t.s.resume \in 1..Len(Order) /\ from <= t.s.resume
        /\ t.read = SubSeq(Order, from + 1, t.s.resume)
        /\ t.row = 2 <=> t.s.resume < Len(Order)
    BY <1>4, <1>11 DEF Ticked
  <2>2. t.row \in {2, 3}
    BY <1>5, <1>11
  <2> HIDE DEF next, from
  <2>3. next = IF t.row = 2 THEN t.s.resume ELSE 0
    BY <1>3, <1>4, <1>6, <2>1, <2>2
  <2>4. x \o t.read = SubSeq(Order, 1, t.s.resume)
    <3>1. from \in 0..Len(Order) /\ t.s.resume \in from..Len(Order)
      BY <1>3, <2>1
    <3>2. QED
      BY <2>1, <3>1, RunsJoin
  <2>5. CASE t.row = 2
    <3>1. got' = [got EXCEPT !.now = @ \o t.read]
      BY <1>4, <2>5
    <3> HIDE DEF x
    <3>2. got' = [now |-> x \o t.read, row |-> Order]
      BY <1>1, <3>1
    <3>3. QED
      BY <2>3, <2>4, <2>5, <3>2
  <2>6. CASE t.row = 3
    <3>1. got' = [now |-> <<>>, row |-> got.now \o t.read]
      BY <1>4, <2>6
    <3>2. t.s.resume = Len(Order)
      BY <1>3, <2>1, <2>6
    <3> HIDE DEF x
    <3>3. got.now \o t.read = Order
      BY <1>1, <2>4, <3>2, WholeIs
    <3>4. QED
      BY <2>3, <2>6, <3>1, <3>3, WholeIs
  <2>7. QED
    BY <2>2, <2>5, <2>6
<1>12. QED
  BY <1>5, <1>9, <1>10, <1>11

\* The items that move the song leave its rows alone.
LEMMA RowStep ==
  ASSUME Rows, Programs, Queued, [Next]_vars
  PROVE  Rows'
<1>1. RowSoFar /\ OnTime /\ Playable(song) /\ song \in Songs
  BY DEF Rows, Playable
<1>2. CASE UNCHANGED <<song, got, late>>
  BY <1>1, <1>2, Steady DEF Rows
<1>3. ASSUME NEW on \in BOOLEAN, on => song.playing, got' = got, late' = late,
             song' \in Songs,
             song' = [song EXCEPT !.playing = on, !.loading = song'.loading,
                        !.track = song'.track, !.level = song'.level,
                        !.target = song'.target, !.step = song'.step,
                        !.stopAtZero = song'.stopAtZero, !.loop = song'.loop]
      PROVE  Rows'
  <2>1. /\ song'.mod = song.mod /\ song'.order = song.order /\ song'.row = song.row
        /\ song'.jumpOrder = song.jumpOrder /\ song'.jumpRow = song.jumpRow
        /\ song'.tick = song.tick /\ song'.resume = song.resume
        /\ song'.speed = song.speed /\ song'.playing = on
    BY <1>1, <1>3 DEF Songs
  <2>2. Playable(song')
    BY <1>1, <1>3, <2>1 DEF Playable, Placed
  <2>3. RowSoFar' /\ OnTime'
    BY <1>1, <1>3, <2>1, Steady
  <2>4. QED
    BY <2>2, <2>3 DEF Rows
<1>4. ASSUME NEW k, Take(k) PROVE items[1] \in Waiting /\ items[1].k = k
  BY <1>4, TailIs DEF Take, Queued
<1>5. /\ song.playing \in BOOLEAN /\ song.level \in Nat /\ song.target \in Nat /\ song.step \in Nat
      /\ song.loading \in BOOLEAN /\ song.loop \in BOOLEAN /\ song.stopAtZero \in BOOLEAN
      /\ song.track \in {0} \cup Tracks
  BY <1>1 DEF Songs
<1>6. CASE Run8C
  <2>1. /\ items[1] \in Waiting /\ items[1].k = "8C" /\ got' = got /\ late' = late
        /\ song' = Body8C(song, items[1])
    BY <1>4, <1>6 DEF Run8C, RunState
  <2> DEFINE x == items[1].x  y == items[1].y
  <2>2. x \in Tracks
    BY <2>1 DEF Waiting
  <2>3. song' = [song EXCEPT !.playing = FALSE, !.loading = TRUE, !.track = x,
                   !.level = song.target, !.stopAtZero = FALSE, !.loop = (y = 1)]
    BY <2>1 DEF Body8C
  <2> HIDE DEF x, y
  <2>4. song' \in Songs
    BY <1>1, <1>5, <2>2, <2>3 DEF Songs
  <2>5. song' = [song EXCEPT !.playing = FALSE, !.loading = song'.loading,
                        !.track = song'.track, !.level = song'.level,
                        !.target = song'.target, !.step = song'.step,
                        !.stopAtZero = song'.stopAtZero, !.loop = song'.loop]
    BY <1>1, <2>3 DEF Songs
  <2>6. QED
    BY <1>3, <2>1, <2>4, <2>5
<1>7. CASE Run8D
  <2>1. /\ items[1] \in Waiting /\ items[1].k = "8D" /\ got' = got /\ late' = late
        /\ song' = Body8D(song, items[1])
    BY <1>4, <1>7 DEF Run8D, RunState
  <2> DEFINE x == items[1].x  now == x = 0 \/ song.level = 0  on == song.playing /\ ~now
  <2>2. x \in Nat
    BY <2>1 DEF Waiting
  <2>3. song' = [song EXCEPT !.target = 0, !.step = x, !.stopAtZero = TRUE,
                   !.level = IF now THEN 0 ELSE song.level, !.playing = on]
    BY <1>1, <2>1 DEF Body8D, Songs
  <2>0. on \in BOOLEAN /\ (on => song.playing)
    OBVIOUS
  <2> HIDE DEF x, now, on
  <2>4. song' \in Songs
    BY <1>1, <1>5, <2>0, <2>2, <2>3 DEF Songs
  <2>5. song' = [song EXCEPT !.playing = on, !.loading = song'.loading,
                        !.track = song'.track, !.level = song'.level,
                        !.target = song'.target, !.step = song'.step,
                        !.stopAtZero = song'.stopAtZero, !.loop = song'.loop]
    BY <1>1, <2>3 DEF Songs
  <2>6. QED
    BY <1>3, <2>0, <2>1, <2>4, <2>5
<1>8. CASE RunC9
  <2>1. /\ items[1] \in Waiting /\ items[1].k = "C9" /\ got' = got /\ late' = late
        /\ song' = BodyC9(song, items[1])
    BY <1>4, <1>8 DEF RunC9, RunState
  <2>2. items[1].x \in Nat /\ items[1].y \in Nat
    BY <2>1 DEF Waiting
  <2>3. song' = [song EXCEPT !.target = items[1].x, !.step = items[1].y]
    BY <2>1 DEF BodyC9
  <2>4. song' \in Songs
    BY <1>1, <2>2, <2>3 DEF Songs
  <2>5. song' = [song EXCEPT !.playing = song.playing, !.loading = song'.loading,
                        !.track = song'.track, !.level = song'.level,
                        !.target = song'.target, !.step = song'.step,
                        !.stopAtZero = song'.stopAtZero, !.loop = song'.loop]
    BY <1>1, <2>3 DEF Songs
  <2>6. QED
    BY <1>3, <1>5, <2>1, <2>4, <2>5
<1>9. CASE RunStart
  <2>1. /\ items[1] \in Waiting /\ items[1].k = "job"
        /\ song' = Started(song, items[1].x) /\ got' = [now |-> <<>>, row |-> Order]
        /\ late' = [late EXCEPT !.n = 0, !.done = 0]
    BY <1>4, <1>9 DEF RunStart
  <2> DEFINE t == items[1].x
  <2>2. t \in Tracks
    BY <2>1 DEF Waiting
  <2>3. /\ Mods[t].speed \in Nat /\ Mods[t].npos \in Nat \ {0} /\ RowsOf(t) \in Nat \ {0}
        /\ t # 0
    BY <2>2, ModuleIs
  <2>4. song' = [song EXCEPT !.mod = t, !.loading = FALSE, !.playing = TRUE, !.waitFlush = TRUE,
                   !.tick = 0, !.order = 0, !.row = 0, !.jumpOrder = NoJump,
                   !.jumpRow = NoJump, !.speed = Mods[t].speed, !.resume = Len(Order)]
    BY <2>1 DEF Started
  <2> HIDE DEF t
  <2>5. Len(Order) \in 0..Len(Order) /\ Len(Order) \in Nat \ {0} /\ NoJump \in Nat
    BY OrderIs DEF NoJump
  <2>6. /\ song' \in Songs /\ song'.mod = t /\ song'.order = 0 /\ song'.row = 0
        /\ song'.jumpOrder = NoJump /\ song'.jumpRow = NoJump /\ song'.tick = 0
        /\ song'.resume = Len(Order)
    BY <1>1, <2>2, <2>3, <2>4, <2>5 DEF Songs
  <2>7. Playable(song')
    BY <2>3, <2>6 DEF Playable, Placed
  <2>8. Resumed(song)' = 0
    BY <2>5, <2>6 DEF Resumed
  <2>9. RowSoFar'
    BY <2>1, <2>8, WholeIs DEF RowSoFar
  <2>10. OnTime'
    <3>1. late.bad = FALSE /\ late \in [n : Nat, done : Nat, bad : {FALSE}]
      BY <1>1 DEF OnTime
    <3>2. late' \in [n : Nat, done : Nat, bad : {FALSE}] /\ late'.n = 0 /\ late'.done = 0
      BY <2>1, <3>1
    <3>3. /\ song'.tick = late'.n
          /\ late'.done <= late'.n /\ ~(late'.done < late'.n)
      BY <2>6, <3>2
    <3>4. QED
      BY <2>8, <3>2, <3>3 DEF OnTime
  <2>11. QED
    BY <2>7, <2>9, <2>10 DEF Rows
<1>10. CASE Run94
  <2>1. PICK t : Half(t)
    BY <1>10, TickSteps
  <2>2. Playable(song')
    BY <2>1 DEF Half
  <2>3. QED
    BY <2>1, <2>2, RowTimed, RowWhole DEF Rows
<1>11. QED
  <2>1. ASSUME NEW k, NEW x, NEW y, Arrive(k, x, y) PROVE UNCHANGED <<song, got, late>>
    BY <2>1 DEF Arrive
  <2>2. CASE Post
    BY <1>2, <2>1, <2>2 DEF Post, Post8C, Post8D, PostC9, PostD0, Post94
  <2>3. CASE RunD0
    BY <1>2, <2>3 DEF RunD0
  <2>4. CASE Job
    BY <1>2, <2>4 DEF Job, JobStart, JobItem, JobEnd
  <2>5. CASE Pass \/ UNCHANGED vars
    BY <1>2, <2>5 DEF Pass, vars
  <2>6. QED
    BY <1>6, <1>7, <1>8, <1>9, <1>10, <2>2, <2>3, <2>4, <2>5 DEF Next, Run

LEMMA InvHolds == Spec => []Inv
<1>1. Inv /\ [Next]_vars => Inv'
  BY RowStep, ProgramStep, QueuedStep, ShownStep DEF Inv
<1>2. QED
  BY InitInv, <1>1, PTL DEF Spec

(* Type correctness. Whatever a row's commands FB..FE ask for, seq_tick    *)
(* (song_seq.c) reads its next row inside the module; the messages of      *)
(* song_z80.c stay inside the queue's bytes, and none is written over a    *)
(* last message of an empty queue.                                         *)
THEOREM SongTyped == Spec => []TypeOK
<1>1. Inv => TypeOK
  <2> SUFFICES ASSUME Inv PROVE TypeOK
    OBVIOUS
  <2>1. Playable(song) /\ song \in Songs
    BY DEF Inv, Rows, Playable
  <2>2. song.mod # 0 => song.order < Mods[song.mod].npos /\ song.row < RowsOf(song.mod)
    BY <2>1 DEF Playable, Placed
  <2>3. song.resume \in 0..Len(Order) /\ song.level \in Nat
    BY <2>1 DEF Songs
  <2>4. Packed(z80) /\ z80 \in Queues
    BY PlayerIs DEF Inv, Programs, Player
  <2>5. Bytes(z80.q) < QBytes /\ z80.below = FALSE /\ z80.cost \in Nat
    BY <2>4 DEF Packed, Queues
  <2>6. Len(items) <= ItemRoom /\ job \in {"queued", "decode", "item"}
    BY DEF Inv, Queued
  <2>7. QED
    BY <2>2, <2>3, <2>5, <2>6 DEF TypeOK
<1>2. QED
  BY InvHolds, <1>1, PTL

(* However the packet's budget cuts a row, seq_tick's resume index makes   *)
(* it read each voice's cell once and in voice_order, and each row begins  *)
(* when the tempo of its speed says, its cut ticks counted (song_seq.c).   *)
THEOREM RowsAreWhole == Spec => []RowsWhole
<1>1. Inv => RowsWhole
  <2> SUFFICES ASSUME Inv PROVE RowsWhole
    OBVIOUS
  <2>1. got = [now |-> SubSeq(Order, 1, Resumed(song)), row |-> Order]
    BY DEF Inv, Rows, RowSoFar
  <2>2. Resumed(song) \in 0..(Len(Order) - 1)
    BY ResumedIs DEF Inv, Rows, Playable
  <2>3. ~late.bad
    BY DEF Inv, Rows, OnTime
  <2>4. IsPrefix(SubSeq(Order, 1, Resumed(song)), Order)
    <3> DEFINE k == Resumed(song)  x == SubSeq(Order, 1, k)
    <3>1. Order \in Seq(Numbers) /\ k \in 0..Len(Order) /\ Len(Order) \in Nat
      BY <2>2, OrderIs DEF Numbers
    <3> HIDE DEF k
    <3>2. Len(x) = k
      BY <3>1, PrefixIs
    <3> HIDE DEF x
    <3>3. Len(x) <= Len(Order) /\ x = SubSeq(Order, 1, Len(x))
      BY <3>1, <3>2 DEF x
    <3>4. IsPrefix(x, Order)
      BY <3>3 DEF IsPrefix
    <3>5. QED
      BY <3>4 DEF x, k
  <2>5. QED
    BY <2>1, <2>3, <2>4 DEF RowsWhole
<1>2. QED
  BY InvHolds, <1>1, PTL

(* The program that a voice's record holds is the one the Z80 has, or was  *)
(* told by a message that still waits: a full queue that drops             *)
(* fm_program_msg's bytes leaves the record alone too (song_z80.c).        *)
THEOREM ProgramIsSent == Spec => []ProgramSent
<1>1. Inv => ProgramSent
  <2> SUFFICES ASSUME Inv PROVE ProgramSent
    OBVIOUS
  <2>1. Player \in Players(chip) /\ Player.z = z80 /\ Player.voice = voice
    BY DEF Inv, Programs, Player
  <2>2. QED
    BY <2>1 DEF Players, ProgramSent
<1>2. QED
  BY InvHolds, <1>1, PTL

(* With no item, job or pass left, the bit 3 that board_item_pass and the  *)
(* job's pass put in $1FE6 is the music's state (s5_glue.c): an item's     *)
(* pass that is not the last may store nothing, because a later one owes   *)
(* it.                                                                     *)
THEOREM MusicIsShown == Spec => []MusicShown
  BY InvHolds, PTL DEF Inv
=============================================================================
