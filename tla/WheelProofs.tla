----------------------------- MODULE WheelProofs -----------------------------
(***************************************************************************)
(* Wheel for every even width of TIMER, every period and bound: the range  *)
(* of every variable, where each periodic slot is, what the urgent slot    *)
(* holds (WheelInv), and last the compare (ExactInv), which adds that it   *)
(* is the earliest armed deadline wherever the wheel is not being edited   *)
(* (Programmed) and that no deadline is half a turn away (Close).  Which   *)
(* slot is armed, with what deadline and for whom, does not depend on it.  *)
(***************************************************************************)
EXTENDS Wheel, TLAPS

LEMMA Bounds ==
  /\ W \in Nat /\ W > 0 /\ W \div 2 \in Nat /\ W = 2 * (W \div 2)
  /\ Period \in Nat /\ Period > 0 /\ Gap \in Nat /\ MaxLate \in Nat
  /\ Period + MaxLate < W \div 2 /\ Gap + MaxLate < W \div 2
<1>1. /\ W \in Nat /\ W % 2 = 0 /\ Period \in Nat /\ Period > 0
      /\ Gap \in Nat /\ MaxLate \in Nat
      /\ 2 * (Period + MaxLate) < W /\ 2 * (Gap + MaxLate) < W
  BY WheelAssumption
<1>2. W > 0
  BY <1>1
<1>3. W \div 2 \in Nat /\ W = 2 * (W \div 2)
  BY <1>1
<1>4. QED
  BY <1>1, <1>2, <1>3

(* What a count modulo W does within two turns of the clock.               *)
LEMMA Turns ==
  ASSUME NEW x \in Int, -2 * W <= x, x < 2 * W
  PROVE  Wrap(x) = IF x < -W THEN x + 2 * W ELSE IF x < 0 THEN x + W
                   ELSE IF x < W THEN x ELSE x - W
<1> DEFINE q == x \div W  r == x % W
<1>1. W \in Nat /\ W > 0
  BY Bounds
<1>2. q \in Int /\ r \in 0..(W - 1) /\ x = W * q + r
  BY <1>1
<1>3. Wrap(x) = r
  BY DEF Wrap
<1> HIDE DEF q, r
<1>4. CASE q <= -3
  <2>1. W * q <= -3 * W
    BY <1>1, <1>2, <1>4
  <2>2. QED
    BY <1>1, <1>2, <2>1
<1>5. CASE q = -2
  BY <1>1, <1>2, <1>3, <1>5
<1>6. CASE q = -1
  BY <1>1, <1>2, <1>3, <1>6
<1>7. CASE q = 0
  BY <1>1, <1>2, <1>3, <1>7
<1>8. CASE q = 1
  BY <1>1, <1>2, <1>3, <1>8
<1>9. CASE q >= 2
  <2>1. W * q >= 2 * W
    BY <1>1, <1>2, <1>9
  <2>2. QED
    BY <1>1, <1>2, <2>1
<1>10. QED
  BY <1>2, <1>4, <1>5, <1>6, <1>7, <1>8, <1>9

(* How far from now a deadline that is still owed can lie.                 *)
Window == {k \in Int : -MaxLate <= k /\ (k <= Period \/ k <= Gap)}
Near(t, d) == \E k \in Window : d = Wrap(t + k)
Late(t, d) == \E k \in Window : k <= 0 /\ d = Wrap(t + k)

(* Within the window the signed difference orders the deadlines.           *)
LEMMA SignedOrder ==
  ASSUME NEW t \in Time, NEW i \in Window, NEW j \in Window
  PROVE  Reached(Wrap(t + i), Wrap(t + j)) <=> j <= i
<1> DEFINE x == t + i  y == t + j
           a == Wrap(x)  b == Wrap(y)  c == a - b
<1>1. /\ t \in Int /\ 0 <= t /\ t < W
      /\ i \in Int /\ j \in Int
      /\ -MaxLate <= i /\ (i <= Period \/ i <= Gap)
      /\ -MaxLate <= j /\ (j <= Period \/ j <= Gap)
  BY Bounds DEF Time, Window
<1>2. /\ x \in Int /\ -2 * W <= x /\ x < 2 * W
      /\ y \in Int /\ -2 * W <= y /\ y < 2 * W
  BY <1>1, Bounds
<1>3. a = (IF x < -W THEN x + 2 * W ELSE IF x < 0 THEN x + W
           ELSE IF x < W THEN x ELSE x - W)
  BY <1>2, Turns
<1>4. b = (IF y < -W THEN y + 2 * W ELSE IF y < 0 THEN y + W
           ELSE IF y < W THEN y ELSE y - W)
  BY <1>2, Turns
<1> HIDE DEF a, b
<1>5. c \in Int /\ (c = i - j \/ c = i - j + W \/ c = i - j - W)
      /\ -W < c /\ c < W
  BY <1>1, <1>3, <1>4, Bounds
<1> HIDE DEF c
<1>6. Wrap(c) = IF c < -W THEN c + 2 * W ELSE IF c < 0 THEN c + W
                ELSE IF c < W THEN c ELSE c - W
  BY <1>5, Turns, Bounds
<1>7. Wrap(c) < W \div 2 <=> j <= i
  BY <1>1, <1>5, <1>6, Bounds
<1>8. QED
  BY <1>7 DEF Reached, Wrap, a, b, c

LEMMA Here == ASSUME NEW t \in Time PROVE 0 \in Window /\ t = Wrap(t + 0)
<1>1. t \in Int /\ 0 <= t /\ t < W /\ -2 * W <= t /\ t < 2 * W
  BY Bounds DEF Time
<1>2. t + 0 = t
  BY <1>1
<1>3. Wrap(t) = t
  BY <1>1, Turns, Bounds
<1>4. QED
  BY <1>2, <1>3, Bounds DEF Window

LEMMA ReachedIs ==
  ASSUME NEW t \in Time, NEW j \in Window
  PROVE  Reached(t, Wrap(t + j)) <=> j <= 0
BY Here, SignedOrder

(* A deadline that TIMER does not run past the bound of stays in it.       *)
LEMMA NearNext ==
  ASSUME NEW t \in Time, NEW k \in Window,
         LET d == Wrap(t + k) IN Reached(t, d) => (t - d) % W < MaxLate
  PROVE  k - 1 \in Window /\ Wrap(t + k) = Wrap(Wrap(t + 1) + (k - 1))
<1> DEFINE x == t + k  d == Wrap(x)  c == t - d  u == t + 1  v == Wrap(u)
           y == v + (k - 1)
<1>1. /\ t \in Int /\ 0 <= t /\ t < W
      /\ k \in Int /\ -MaxLate <= k /\ (k <= Period \/ k <= Gap)
  BY Bounds DEF Time, Window
<1>2. /\ x \in Int /\ -2 * W <= x /\ x < 2 * W
      /\ u \in Int /\ -2 * W <= u /\ u < 2 * W
  BY <1>1, Bounds
<1>3. d = (IF x < -W THEN x + 2 * W ELSE IF x < 0 THEN x + W
           ELSE IF x < W THEN x ELSE x - W)
  BY <1>2, Turns
<1>4. v = (IF u < -W THEN u + 2 * W ELSE IF u < 0 THEN u + W
           ELSE IF u < W THEN u ELSE u - W)
  BY <1>2, Turns
<1>5. k # -MaxLate
  <2>1. SUFFICES ASSUME k = -MaxLate PROVE FALSE
    OBVIOUS
  <2>2. Reached(t, d)
    BY <2>1, <1>1, Bounds, ReachedIs
  <2>3. Wrap(c) < MaxLate
    BY <2>2 DEF Wrap
  <2> HIDE DEF d
  <2>4. c \in Int /\ (c = MaxLate \/ c = MaxLate - W) /\ -2 * W <= c /\ c < 2 * W
    BY <1>1, <1>3, <2>1, Bounds
  <2> HIDE DEF c
  <2>5. Wrap(c) = IF c < -W THEN c + 2 * W ELSE IF c < 0 THEN c + W
                  ELSE IF c < W THEN c ELSE c - W
    BY <2>4, Turns
  <2>6. QED
    BY <2>3, <2>4, <2>5, Bounds
<1>6. k - 1 \in Window
  BY <1>1, <1>5, Bounds DEF Window
<1> HIDE DEF v, d
<1>7. y \in Int /\ (y = x \/ y = x - W) /\ -2 * W <= y /\ y < 2 * W
  BY <1>1, <1>4, Bounds
<1> HIDE DEF y
<1>8. Wrap(y) = (IF y < -W THEN y + 2 * W ELSE IF y < 0 THEN y + W
                 ELSE IF y < W THEN y ELSE y - W)
  BY <1>7, Turns
<1>9. d = Wrap(y)
  BY <1>1, <1>2, <1>3, <1>7, <1>8, Bounds
<1>10. QED
  BY <1>6, <1>9 DEF d, y, v

(* The next period of a deadline that has come is less than a period off.  *)
LEMMA NextNear ==
  ASSUME NEW d, now \in Time, Late(now, d) PROVE Near(now, NextPeriod(d))
<1>1. PICK k \in Window : k <= 0 /\ d = Wrap(now + k)
  BY DEF Late
<1> DEFINE x == now + k  c == now - d
           late == Wrap(c)  q == late \div Period  r == late % Period
           m == Period * (q + 1)  y == d + m  n == Period - r  z == now + n
<1>2. /\ now \in Int /\ 0 <= now /\ now < W
      /\ k \in Int /\ -MaxLate <= k
  BY Bounds DEF Time, Window
<1>3. x \in Int /\ -2 * W <= x /\ x < 2 * W
  BY <1>1, <1>2, Bounds
<1>4. d = (IF x < -W THEN x + 2 * W ELSE IF x < 0 THEN x + W
           ELSE IF x < W THEN x ELSE x - W)
  BY <1>1, <1>3, Turns
<1>5. c \in Int /\ (c = -k \/ c = -k - W) /\ -2 * W <= c /\ c < 2 * W
  BY <1>1, <1>2, <1>4, Bounds
<1> HIDE DEF c
<1>6. late = -k
  <2>1. Wrap(c) = IF c < -W THEN c + 2 * W ELSE IF c < 0 THEN c + W
                  ELSE IF c < W THEN c ELSE c - W
    BY <1>5, Turns
  <2>2. QED
    BY <1>1, <1>2, <1>5, <2>1, Bounds
<1> HIDE DEF late
<1>7. q \in Int /\ r \in 0..(Period - 1) /\ late = Period * q + r
  <2>1. late \in Int /\ Period \in Nat /\ Period > 0
    BY <1>2, <1>6, Bounds
  <2>2. QED
    BY <2>1
<1>8. m = late - r + Period
  <2> HIDE DEF q, r
  <2>1. Period * (q + 1) = Period * q + Period
    BY <1>7, Bounds
  <2>2. Period * q \in Int
    BY <1>7, Bounds
  <2>3. QED
    BY <1>2, <1>6, <1>7, <2>1, <2>2, Bounds
<1> HIDE DEF m, q, r
<1>9. n \in Window
  BY <1>7, Bounds DEF Window
<1>10. /\ y \in Int /\ -2 * W <= y /\ y < 2 * W
       /\ z \in Int /\ -2 * W <= z /\ z < 2 * W
       /\ (y = z \/ y = z + W)
  BY <1>1, <1>2, <1>4, <1>6, <1>7, <1>8, Bounds
<1> HIDE DEF y, z
<1>11. Wrap(y) = (IF y < -W THEN y + 2 * W ELSE IF y < 0 THEN y + W
                  ELSE IF y < W THEN y ELSE y - W)
  BY <1>10, Turns
<1>12. Wrap(z) = (IF z < -W THEN z + 2 * W ELSE IF z < 0 THEN z + W
                  ELSE IF z < W THEN z ELSE z - W)
  BY <1>10, Turns
<1>13. 0 <= z /\ z < W + W \div 2
  BY <1>2, <1>7, Bounds DEF z
<1>14. Wrap(y) = Wrap(z)
  BY <1>10, <1>11, <1>12, <1>13, Bounds
<1>15. NextPeriod(d) = Wrap(y)
  BY DEF NextPeriod, Wrap, y, m, q, late, c
<1>16. QED
  BY <1>9, <1>14, <1>15 DEF Near, z

(* The deadlines of a set of slots within the window have an earliest.     *)
LEMMA EarliestIs ==
  ASSUME NEW t \in Time, NEW A \in SUBSET Slots, A # {}, NEW at,
         \A s \in A : Near(t, at[s])
  PROVE  \E s \in A : \A o \in A : Reached(at[o], at[s])
<1>1. PICK k \in [A -> Window] : \A s \in A : at[s] = Wrap(t + k[s])
  <2> DEFINE f == [s \in A |-> CHOOSE k \in Window : at[s] = Wrap(t + k)]
  <2>1. \A s \in A : f[s] \in Window /\ at[s] = Wrap(t + f[s])
    BY DEF Near
  <2>2. f \in [A -> Window]
    BY <2>1
  <2>3. QED
    BY <2>1, <2>2
<1>2. A \subseteq {0, 1, 4}
  BY DEF Slots, URGENT, WDOG, TEST
<1>3. \A s \in A : k[s] \in Int
  BY <1>1 DEF Window
<1>4. \E s \in A : \A o \in A : k[s] <= k[o]
  <2> DEFINE a == IF 0 \in A THEN k[0] ELSE 0
             b == IF 1 \in A THEN k[1] ELSE 0
             c == IF 4 \in A THEN k[4] ELSE 0
  <2>1. CASE 0 \in A /\ (1 \in A => k[0] <= k[1]) /\ (4 \in A => k[0] <= k[4])
    BY <1>2, <1>3, <2>1
  <2>2. CASE 1 \in A /\ (0 \in A => k[1] <= k[0]) /\ (4 \in A => k[1] <= k[4])
    BY <1>2, <1>3, <2>2
  <2>3. CASE 4 \in A /\ (0 \in A => k[4] <= k[0]) /\ (1 \in A => k[4] <= k[1])
    BY <1>2, <1>3, <2>3
  <2>4. a \in Int /\ b \in Int /\ c \in Int
    BY <1>3
  <2>5. 0 \in A \/ 1 \in A \/ 4 \in A
    BY <1>2
  <2>6. /\ 0 \in A => a = k[0]
        /\ 1 \in A => b = k[1]
        /\ 4 \in A => c = k[4]
    OBVIOUS
  <2> HIDE DEF a, b, c
  <2>7. \/ 0 \in A /\ (1 \in A => a <= b) /\ (4 \in A => a <= c)
        \/ 1 \in A /\ (0 \in A => b <= a) /\ (4 \in A => b <= c)
        \/ 4 \in A /\ (0 \in A => c <= a) /\ (1 \in A => c <= b)
    BY ONLY <2>4, <2>5
  <2>8. QED
    BY <2>1, <2>2, <2>3, <2>6, <2>7
<1>5. PICK s \in A : \A o \in A : k[s] <= k[o]
  BY <1>4
<1>6. \A o \in A : Reached(at[o], at[s])
  <2>1. SUFFICES ASSUME NEW o \in A PROVE Reached(at[o], at[s])
    OBVIOUS
  <2>2. k[o] \in Window /\ k[s] \in Window /\ k[s] <= k[o]
    BY <1>1, <1>5
  <2>3. Reached(Wrap(t + k[o]), Wrap(t + k[s]))
    BY <2>2, SignedOrder
  <2>4. QED
    BY <1>1, <2>3
<1>7. QED
  BY <1>6

(* The compare a look at the slots gives.                                  *)
CmpOf(armed, at) ==
  IF armed = {} THEN Off
  ELSE LET d == {at[s] : s \in armed} IN
       CHOOSE e \in d : \A o \in d : Reached(o, e)

(* It comes exactly when the first of the deadlines does.                  *)
LEMMA CmpComes ==
  ASSUME NEW t \in Time, NEW A \in SUBSET Slots, NEW at \in [Slots -> Time],
         \A s \in A : Near(t, at[s])
  PROVE  (CmpOf(A, at) # Off /\ Reached(t, CmpOf(A, at))) <=>
           \E s \in A : Reached(t, at[s])
<1>1. CASE A = {}
  BY <1>1 DEF CmpOf
<1>2. CASE A # {}
  <2> DEFINE d == {at[s] : s \in A}
             First(e) == \A o \in d : Reached(o, e)
             c == CHOOSE e \in d : First(e)
  <2>1. \E e \in d : First(e)
    <3>1. PICK s \in A : \A o \in A : Reached(at[o], at[s])
      BY <1>2, EarliestIs
    <3>2. at[s] \in d /\ First(at[s])
      BY <3>1
    <3>3. QED
      BY <3>2
  <2>2. c \in d /\ First(c)
    BY <2>1
  <2>3. CmpOf(A, at) = c
    BY <1>2 DEF CmpOf
  <2> HIDE DEF c
  <2>4. PICK s \in A : at[s] = c
    BY <2>2
  <2>5. c # Off
    <3>1. c \in Time
      BY <2>4
    <3>2. QED
      BY <3>1, Bounds DEF Time, Off
  <2>6. SUFFICES ASSUME NEW o \in A, Reached(t, at[o]) PROVE Reached(t, c)
    BY <2>3, <2>4, <2>5
  <2>7. Reached(at[o], at[s])
    BY <2>2, <2>4
  <2>8. PICK i \in Window : at[o] = Wrap(t + i)
    BY DEF Near
  <2>9. PICK j \in Window : at[s] = Wrap(t + j)
    BY DEF Near
  <2>10. i <= 0 /\ j <= i
    BY <2>6, <2>7, <2>8, <2>9, SignedOrder, ReachedIs
  <2>11. j <= 0
    BY <2>10 DEF Window
  <2>12. QED
    BY <2>4, <2>9, <2>11, ReachedIs
<1>3. QED
  BY <1>1, <1>2

(* An overdue tick's test on the sum that has not wrapped.                 *)
LEMMA SumWraps ==
  ASSUME NEW t \in Time, NEW h \in Time
  PROVE  Reached(t, h + Gap) <=> Reached(t, Wrap(h + Gap))
<1> DEFINE x == h + Gap  y == Wrap(x)  c == t - x  e == t - y
<1>1. /\ t \in Int /\ 0 <= t /\ t < W /\ h \in Int /\ 0 <= h /\ h < W
  BY Bounds DEF Time
<1>2. x \in Int /\ -2 * W <= x /\ x < 2 * W
  BY <1>1, Bounds
<1>3. y = (IF x < -W THEN x + 2 * W ELSE IF x < 0 THEN x + W
           ELSE IF x < W THEN x ELSE x - W)
  BY <1>2, Turns
<1> HIDE DEF y
<1>4. /\ c \in Int /\ -2 * W <= c /\ c < 2 * W
      /\ e \in Int /\ -2 * W <= e /\ e < 2 * W
      /\ (e = c \/ e = c + W) /\ c < W /\ -W <= e /\ e < W
  BY <1>1, <1>2, <1>3, Bounds
<1> HIDE DEF c, e
<1>5. Wrap(c) = (IF c < -W THEN c + 2 * W ELSE IF c < 0 THEN c + W
                 ELSE IF c < W THEN c ELSE c - W)
  BY <1>4, Turns
<1>6. Wrap(e) = (IF e < -W THEN e + 2 * W ELSE IF e < 0 THEN e + W
                 ELSE IF e < W THEN e ELSE e - W)
  BY <1>4, Turns
<1>7. Wrap(c) = Wrap(e)
  BY <1>4, <1>5, <1>6, Bounds
<1>8. QED
  BY <1>7 DEF Reached, Wrap, c, e, x, y

-----------------------------------------------------------------------------

IsWheel(w) == DOMAIN w = {"armed", "at", "low", "inL2a", "cmp"}

(* v is w but for its compare. *)
SameSlots(v, w) ==
  /\ IsWheel(v)
  /\ v.armed = w.armed /\ v.at = w.at /\ v.low = w.low /\ v.inL2a = w.inL2a

WheelType(w) ==
  /\ IsWheel(w)
  /\ w.armed \subseteq Slots /\ w.low \subseteq LowSlots
  /\ w.at \in [Slots -> Time] /\ w.inL2a \in BOOLEAN

Urgs == [on : BOOLEAN, due : Time]

(* The urgent slot follows urg; and both follow the oldest waiting tick.   *)
Linked(w, u) == /\ u.on <=> URGENT \in w.armed
                /\ u.on => w.at[URGENT] = u.due
Right(w, u, tk) ==
  IF tk = <<>> THEN ~u.on /\ URGENT \notin w.armed
  ELSE /\ u.on /\ URGENT \in w.armed /\ w.at[URGENT] = u.due
       /\ u.due = Wrap(Head(tk) + Gap)

UrgentCall == l2a = "call" /\ slot = URGENT

Types ==
  /\ now \in Time /\ WheelType(wheel)
  /\ l2a \in {"off", "enter", "look", "call", "urgent", "rearm", "out"}
  /\ slot \in Slots /\ due \in Time /\ l2b \in BOOLEAN
  /\ thread \in {"idle", "call", "rearm"} /\ testDue \in Time
  /\ urg \in Urgs /\ box \in [full : BOOLEAN, stamp : Time]
  /\ ticks \in Seq(Time) /\ Len(ticks) <= MaxTicks

Places ==
  /\ l2b => l2a = "off"
  /\ l2a = "urgent" => slot = URGENT
  /\ l2a = "rearm" => slot = WDOG
  /\ l2a = "call" => slot \in {URGENT, WDOG}

Urgent ==
  /\ l2b => Linked(wheel, urg)
  /\ UrgentCall => /\ urg.on /\ URGENT \notin wheel.armed /\ ticks # <<>>
                   /\ urg.due = Wrap(Head(ticks) + Gap)
  /\ l2a = "urgent" => ~urg.on /\ URGENT \notin wheel.armed
  /\ ~l2b /\ ~UrgentCall /\ l2a # "urgent" => Right(wheel, urg, ticks)

-----------------------------------------------------------------------------
LEMMA WrapType == ASSUME NEW x \in Int PROVE Wrap(x) \in Time
<1>1. W \in Nat /\ W > 0
  <2>1. /\ W \in Nat /\ Period \in Nat /\ Period > 0 /\ MaxLate \in Nat
        /\ 2 * (Period + MaxLate) < W
    BY WheelAssumption
  <2>2. QED BY <2>1
<1>2. QED BY <1>1 DEF Wrap, Time

LEMMA MinIn ==
  ASSUME NEW S \in SUBSET Slots, S # {} PROVE Min(S) \in S
<1>1. \E x \in S : \A y \in S : x =< y
  <2>1. CASE 0 \in S BY <2>1 DEF Slots, URGENT, WDOG, TEST
  <2>2. CASE 0 \notin S /\ 1 \in S BY <2>2 DEF Slots, URGENT, WDOG, TEST
  <2>3. CASE 0 \notin S /\ 1 \notin S
    <3>1. S = {4} BY <2>3 DEF Slots, URGENT, WDOG, TEST
    <3>2. QED BY <3>1
  <2>4. QED BY <2>1, <2>2, <2>3
<1>2. QED BY <1>1 DEF Min

LEMMA NextType ==
  ASSUME NEW d \in Time, now \in Time PROVE NextPeriod(d) \in Time
<1>1. W \in Nat /\ W > 0 /\ Period \in Nat /\ Period > 0
  <2>1. /\ W \in Nat /\ Period \in Nat /\ Period > 0 /\ MaxLate \in Nat
        /\ 2 * (Period + MaxLate) < W
    BY WheelAssumption
  <2>2. QED BY <2>1
<1>2. d \in Int /\ now - d \in Int BY DEF Time
<1>3. (now - d) % W \in Nat BY <1>1, <1>2
<1>4. ((now - d) % W) \div Period \in Int BY <1>1, <1>3
<1>5. d + Period * (((now - d) % W) \div Period + 1) \in Int
  BY <1>1, <1>2, <1>4
<1>6. QED BY <1>5, WrapType DEF NextPeriod

LEMMA ProgramAtSame ==
  ASSUME NEW w, IsWheel(w) PROVE SameSlots(ProgramAt(w), w)
<1>1. \E c : ProgramAt(w) = [w EXCEPT !.cmp = c] BY DEF ProgramAt
<1>2. QED BY <1>1 DEF IsWheel, SameSlots

LEMMA ArmSets ==
  ASSUME NEW w, WheelType(w), NEW s \in Slots, NEW d \in Time
  PROVE  LET v == Arm(w, s, d) IN
           /\ WheelType(v)
           /\ v.armed = w.armed \cup {s} /\ v.low = w.low
           /\ v.at[s] = d /\ \A t \in Slots \ {s} : v.at[t] = w.at[t]
<1> DEFINE v == [w EXCEPT !.armed = @ \cup {s}, !.at[s] = d]
           p == Arm(w, s, d)
<1>1. IsWheel(w) /\ w.at \in [Slots -> Time] BY DEF WheelType
<1>2. IsWheel(v) BY <1>1 DEF IsWheel
<1>3. v.armed = w.armed \cup {s} BY <1>1 DEF IsWheel
<1>4. v.at = [w.at EXCEPT ![s] = d] BY <1>1 DEF IsWheel
<1>5. v.low = w.low /\ v.inL2a = w.inL2a BY <1>1 DEF IsWheel
<1>6. p = Program(v) BY DEF Arm
<1> HIDE DEF v, p
<1>7. SameSlots(p, v) BY <1>2, <1>6, ProgramAtSame DEF Program, SameSlots
<1>8. /\ p.at \in [Slots -> Time] /\ p.at[s] = d
      /\ \A t \in Slots \ {s} : p.at[t] = w.at[t]
  BY <1>1, <1>4, <1>7 DEF SameSlots
<1>9. p.armed = w.armed \cup {s} /\ p.low = w.low /\ p.inL2a = w.inL2a
  BY <1>3, <1>5, <1>7 DEF SameSlots
<1>10. WheelType(p) BY <1>7, <1>8, <1>9 DEF WheelType, SameSlots
<1>11. QED BY <1>8, <1>9, <1>10 DEF p

LEMMA DisarmSets ==
  ASSUME NEW w, IsWheel(w), NEW s
  PROVE  /\ IsWheel(Disarm(w, s))
         /\ Disarm(w, s).armed = w.armed \ {s} /\ Disarm(w, s).at = w.at
         /\ Disarm(w, s).low = w.low /\ Disarm(w, s).inL2a = w.inL2a
<1> DEFINE v == [w EXCEPT !.armed = @ \ {s}]
<1>1. /\ IsWheel(v) /\ v.armed = w.armed \ {s} /\ v.at = w.at
      /\ v.low = w.low /\ v.inL2a = w.inL2a
  BY DEF IsWheel
<1>2. Disarm(w, s) = Program(v) BY DEF Disarm
<1> HIDE DEF v
<1>3. SameSlots(Program(v), v)
  BY <1>1, ProgramAtSame DEF Program, SameSlots
<1>4. QED BY <1>1, <1>2, <1>3 DEF SameSlots

(* What s5_urgent_arm leaves: nothing but the urgent slot moves, and it    *)
(* follows the oldest waiting tick when it followed urg before.            *)
LEMMA UrgentArmSets ==
  ASSUME NEW w, WheelType(w), NEW u \in Urgs, NEW tk \in Seq(Time)
  PROVE  LET r == UrgentArm(w, u, tk) IN
           /\ WheelType(r.wheel) /\ r.urg \in Urgs
           /\ r.wheel.armed \ {URGENT} = w.armed \ {URGENT}
           /\ \A s \in Slots \ {URGENT} : r.wheel.at[s] = w.at[s]
           /\ r.wheel.low = w.low
           /\ Linked(w, u) => Right(r.wheel, r.urg, tk)
           /\ ~u.on /\ URGENT \notin w.armed => Right(r.wheel, r.urg, tk)
           /\ u.on /\ tk # <<>> /\ u.due = Wrap(Head(tk) + Gap) =>
                r.wheel = w /\ r.urg = u
<1> DEFINE st == Wrap(Head(tk) + Gap)
           r == UrgentArm(w, u, tk)
<1>1. tk # <<>> => st \in Time
  <2>1. SUFFICES ASSUME tk # <<>> PROVE st \in Time OBVIOUS
  <2>2. Head(tk) \in Time BY <2>1
  <2>3. Head(tk) + Gap \in Int BY <2>2, WheelAssumption DEF Time
  <2>4. QED BY <2>3, WrapType
<1>2. URGENT \in Slots /\ IsWheel(w) BY DEF Slots, WheelType
<1>3. CASE tk # <<>> /\ (~u.on \/ st # u.due)
  <2>1. r = [wheel |-> Arm(w, URGENT, st), urg |-> [on |-> TRUE, due |-> st]]
    BY <1>3 DEF UrgentArm
  <2>2. st \in Time BY <1>1, <1>3
  <2> HIDE DEF r, st
  <2>3. r.wheel = Arm(w, URGENT, st) /\ r.urg = [on |-> TRUE, due |-> st]
    BY <2>1
  <2>4. /\ WheelType(r.wheel) /\ r.wheel.armed = w.armed \cup {URGENT}
        /\ r.wheel.low = w.low /\ r.wheel.at[URGENT] = st
        /\ \A s \in Slots \ {URGENT} : r.wheel.at[s] = w.at[s]
    BY <2>2, <2>3, <1>2, ArmSets
  <2>5. r.urg \in Urgs /\ r.urg.on /\ r.urg.due = st BY <2>2, <2>3 DEF Urgs
  <2>6. Right(r.wheel, r.urg, tk) BY <2>4, <2>5, <1>3 DEF Right, st
  <2>7. r.wheel.armed \ {URGENT} = w.armed \ {URGENT} BY <2>4
  <2>8. ~(u.on /\ tk # <<>> /\ u.due = Wrap(Head(tk) + Gap)) BY <1>3 DEF st
  <2>9. QED BY <2>4, <2>5, <2>6, <2>7, <2>8 DEF r
<1>4. CASE tk = <<>> /\ u.on
  <2>1. r = [wheel |-> Disarm(w, URGENT), urg |-> [u EXCEPT !.on = FALSE]]
    BY <1>4 DEF UrgentArm
  <2>2. /\ IsWheel(r.wheel) /\ r.wheel.armed = w.armed \ {URGENT}
        /\ r.wheel.at = w.at
        /\ r.wheel.low = w.low /\ r.wheel.inL2a = w.inL2a
        /\ r.urg = [u EXCEPT !.on = FALSE]
    <3> HIDE DEF r, st
    <3>1. r.wheel = Disarm(w, URGENT) /\ r.urg = [u EXCEPT !.on = FALSE]
      BY <2>1
    <3>2. QED BY <3>1, <1>2, DisarmSets
  <2> HIDE DEF r, st
  <2>3. WheelType(r.wheel) BY <2>2 DEF WheelType
  <2>4. r.urg \in Urgs /\ ~r.urg.on BY <2>2 DEF Urgs
  <2>5. Right(r.wheel, r.urg, tk) BY <2>2, <2>4, <1>4 DEF Right
  <2>6. QED BY <2>2, <2>3, <2>4, <2>5, <1>4 DEF r
<1>5. CASE /\ ~(tk # <<>> /\ (~u.on \/ st # u.due))
           /\ ~(tk = <<>> /\ u.on)
  <2>1. r = [wheel |-> w, urg |-> u] BY <1>5 DEF UrgentArm
  <2>2. r.wheel = w /\ r.urg = u BY <2>1
  <2>3. Linked(w, u) => Right(w, u, tk) BY <1>5 DEF Linked, Right
  <2>4. ~u.on /\ URGENT \notin w.armed => Right(w, u, tk) BY <1>5 DEF Right
  <2>5. QED BY <2>2, <2>3, <2>4
<1>6. QED BY <1>3, <1>4, <1>5

LEMMA ArmUrgentSets ==
  ASSUME WheelType(wheel), urg \in Urgs, NEW tk \in Seq(Time),
         ArmUrgent(urg, tk)
  PROVE  /\ WheelType(wheel') /\ urg' \in Urgs
         /\ wheel'.armed \ {URGENT} = wheel.armed \ {URGENT}
         /\ \A s \in Slots \ {URGENT} : wheel'.at[s] = wheel.at[s]
         /\ wheel'.low = wheel.low
         /\ Linked(wheel, urg) => Right(wheel', urg', tk)
         /\ ~urg.on /\ URGENT \notin wheel.armed => Right(wheel', urg', tk)
         /\ urg.on /\ tk # <<>> /\ urg.due = Wrap(Head(tk) + Gap) =>
              wheel' = wheel /\ urg' = urg
<1> DEFINE r == UrgentArm(wheel, urg, tk)
<1>1. wheel' = r.wheel /\ urg' = r.urg BY DEF ArmUrgent
<1>2. /\ WheelType(r.wheel) /\ r.urg \in Urgs
      /\ r.wheel.armed \ {URGENT} = wheel.armed \ {URGENT}
      /\ \A s \in Slots \ {URGENT} : r.wheel.at[s] = wheel.at[s]
      /\ r.wheel.low = wheel.low
      /\ Linked(wheel, urg) => Right(r.wheel, r.urg, tk)
      /\ ~urg.on /\ URGENT \notin wheel.armed => Right(r.wheel, r.urg, tk)
      /\ urg.on /\ tk # <<>> /\ urg.due = Wrap(Head(tk) + Gap) =>
           r.wheel = wheel /\ r.urg = urg
  BY UrgentArmSets
<1> HIDE DEF r
<1>3. QED BY <1>1, <1>2

LEMMA RightIsLinked ==
  ASSUME NEW w, NEW u \in Urgs, NEW tk, Right(w, u, tk) PROVE Linked(w, u)
<1>1. u.on \in BOOLEAN BY DEF Urgs
<1>2. CASE tk = <<>> BY <1>1, <1>2 DEF Right, Linked
<1>3. CASE tk # <<>> BY <1>1, <1>3 DEF Right, Linked
<1>4. QED BY <1>2, <1>3

(* A deadline at the head stays there when a tick joins the queue.         *)
LEMMA HeadStays ==
  ASSUME NEW tk \in Seq(Time), tk # <<>>, NEW x \in Time
  PROVE  /\ Append(tk, x) \in Seq(Time) /\ Append(tk, x) # <<>>
         /\ Head(Append(tk, x)) = Head(tk)
  OBVIOUS

-----------------------------------------------------------------------------
WheelInv == Types /\ Places /\ Urgent /\ PeriodicOnce

LEMMA InitInv == Init => WheelInv
<1> SUFFICES ASSUME Init PROVE WheelInv OBVIOUS
<1>1. /\ W \in Nat /\ Period \in Nat /\ Period > 0 /\ Period < W
      /\ MaxTicks \in Nat
  <2>1. /\ W \in Nat /\ Period \in Nat /\ Period > 0 /\ MaxLate \in Nat
        /\ 2 * (Period + MaxLate) < W /\ MaxTicks \in Nat
    BY WheelAssumption
  <2>2. QED BY <2>1
<1>2. 0 \in Time /\ Period \in Time BY <1>1 DEF Time
<1> DEFINE w == [armed |-> {WDOG, TEST}, at |-> [s \in Slots |-> Period],
                 low |-> {}, inL2a |-> FALSE, cmp |-> Off]
<1>3. /\ IsWheel(w) /\ w.armed = {WDOG, TEST} /\ w.low = {}
      /\ w.at = [s \in Slots |-> Period] /\ w.inL2a = FALSE
  BY DEF IsWheel
<1>4. wheel = ProgramAt(w) BY DEF Init
<1> HIDE DEF w
<1>5. SameSlots(wheel, w) BY <1>3, <1>4, ProgramAtSame
<1>6. /\ IsWheel(wheel) /\ wheel.armed = {WDOG, TEST} /\ wheel.low = {}
      /\ wheel.at = [s \in Slots |-> Period] /\ wheel.inL2a = FALSE
  BY <1>3, <1>5 DEF SameSlots
<1>7. WheelType(wheel)
  <2>1. wheel.at \in [Slots -> Time] BY <1>2, <1>6
  <2>2. {WDOG, TEST} \subseteq Slots BY DEF Slots
  <2>3. QED BY <1>6, <2>1, <2>2 DEF WheelType
<1>8. Types
  <2>1. urg \in Urgs /\ box \in [full : BOOLEAN, stamp : Time]
    BY <1>2 DEF Init, Urgs
  <2>2. ticks \in Seq(Time) /\ Len(ticks) <= MaxTicks BY <1>1 DEF Init
  <2>3. QED BY <1>2, <1>7, <2>1, <2>2 DEF Types, Init, Slots
<1>9. Places BY DEF Init, Places
<1>10. URGENT \notin wheel.armed BY <1>6 DEF URGENT, WDOG, TEST
<1>11. Urgent BY <1>10 DEF Init, Urgent, UrgentCall, Right
<1>12. PeriodicOnce BY <1>6 DEF Init, PeriodicOnce
<1>13. QED BY <1>8, <1>9, <1>11, <1>12 DEF WheelInv

(* Steps that leave the slots, the urgent slot and the queue alone.        *)
LEMMA QuietKept ==
  ASSUME WheelInv,
         UNCHANGED <<l2aVars, l2b, lowVars, tickVars>>,
         WheelType(wheel'), wheel'.armed = wheel.armed,
         wheel'.at = wheel.at, wheel'.low = wheel.low,
         now' \in Time, box' \in [full : BOOLEAN, stamp : Time]
  PROVE  WheelInv'
<1>1. Types' BY DEF WheelInv, Types, l2aVars, lowVars, tickVars
<1>2. Places' BY DEF WheelInv, Places, l2aVars, lowVars, tickVars
<1>3. Urgent'
  BY DEF WheelInv, Urgent, UrgentCall, Right, Linked, l2aVars, lowVars, tickVars
<1>4. PeriodicOnce' BY DEF WheelInv, PeriodicOnce, l2aVars, lowVars, tickVars
<1>5. QED BY <1>1, <1>2, <1>3, <1>4 DEF WheelInv

(* L1's look at the urgent slot: right before or under repair, it is right *)
(* after; and during the urgent finish's call it is not touched.           *)
LEMMA L1Kept ==
  ASSUME WheelInv, l2a # "urgent", NEW tk \in Seq(Time), ticks' = tk,
         Len(tk) <= MaxTicks,
         ticks # <<>> => tk # <<>> /\ Head(tk) = Head(ticks),
         ArmUrgent(urg, tk), UNCHANGED <<now, l2aVars, l2b, lowVars>>,
         box' \in [full : BOOLEAN, stamp : Time]
  PROVE  WheelInv'
<1> USE DEF WheelInv
<1>1. WheelType(wheel) /\ urg \in Urgs BY DEF Types
<1>2. /\ WheelType(wheel') /\ urg' \in Urgs
      /\ wheel'.armed \ {URGENT} = wheel.armed \ {URGENT}
      /\ \A s \in Slots \ {URGENT} : wheel'.at[s] = wheel.at[s]
      /\ wheel'.low = wheel.low
      /\ Linked(wheel, urg) => Right(wheel', urg', tk)
      /\ urg.on /\ tk # <<>> /\ urg.due = Wrap(Head(tk) + Gap) =>
           wheel' = wheel /\ urg' = urg
  BY <1>1, ArmUrgentSets
<1>3. Types' BY <1>2 DEF Types, l2aVars, lowVars
<1>4. Places' BY DEF Places, l2aVars, lowVars
<1>5. ~UrgentCall => Right(wheel', urg', tk)
  BY <1>1, <1>2, RightIsLinked DEF Urgent
<1>6. UrgentCall => /\ wheel' = wheel /\ urg' = urg
                    /\ tk # <<>> /\ urg.due = Wrap(Head(tk) + Gap)
  BY <1>2 DEF Urgent
<1>7. Urgent'
  <2>1. UrgentCall' = UrgentCall BY DEF UrgentCall, l2aVars
  <2>2. CASE UrgentCall
    <3>1. ~l2b' BY <2>2 DEF UrgentCall, Places, l2aVars
    <3>2. QED BY <2>1, <2>2, <3>1, <1>6 DEF Urgent, UrgentCall, l2aVars
  <2>3. CASE ~UrgentCall
    <3>1. Right(wheel', urg', tk) BY <2>3, <1>5
    <3>2. Linked(wheel', urg') BY <3>1, <1>2, RightIsLinked
    <3>3. l2a' # "urgent" BY DEF l2aVars
    <3>4. Right(wheel, urg, ticks)' BY <3>1
    <3>5. QED BY <2>1, <2>3, <3>2, <3>3, <3>4 DEF Urgent
  <2>4. QED BY <2>2, <2>3
<1>8. PeriodicOnce'
  <2>1. \A s \in {WDOG, TEST} : s \in wheel'.armed <=> s \in wheel.armed
    BY <1>2 DEF URGENT, WDOG, TEST
  <2>2. QED BY <2>1, <1>2 DEF PeriodicOnce, l2aVars, lowVars
<1>9. QED BY <1>3, <1>4, <1>7, <1>8

(* The wheel's interrupt between its looks and its callbacks.              *)
LEMMA TransitKept ==
  ASSUME WheelInv, L2aEnter \/ L2aIn \/ L2aExit
  PROVE  WheelInv'
<1> USE DEF WheelInv
<1> DEFINE At == {"off", "enter", "look", "out"}
<1>1. /\ l2a \in At /\ l2a' \in At
      /\ (l2b \/ l2b') => l2a' = "off" /\ l2b
      /\ UNCHANGED <<slot, due, l2b, lowVars, tickVars, box, now>>
  BY DEF L2aEnter, L2aIn, L2aExit, Places
<1>2. /\ WheelType(wheel') /\ wheel'.armed = wheel.armed
      /\ wheel'.at = wheel.at /\ wheel'.low = wheel.low
  <2>1. CASE wheel' = wheel BY <2>1 DEF Types
  <2>2. CASE wheel' = [wheel EXCEPT !.inL2a = TRUE]
    <3>1. IsWheel(wheel) BY DEF Types, WheelType
    <3>2. /\ IsWheel(wheel') /\ wheel'.inL2a = TRUE
          /\ wheel'.armed = wheel.armed /\ wheel'.at = wheel.at
          /\ wheel'.low = wheel.low
      BY <2>2, <3>1 DEF IsWheel
    <3>3. QED BY <3>2 DEF Types, WheelType
  <2>3. QED BY <2>1, <2>2 DEF L2aEnter, L2aIn, L2aExit
<1>3. Types' BY <1>1, <1>2 DEF Types, lowVars, tickVars
<1>4. Places' BY <1>1 DEF Places
<1>5. Urgent' BY <1>1, <1>2 DEF Urgent, UrgentCall, Right, Linked, tickVars
<1>6. PeriodicOnce' BY <1>1, <1>2 DEF PeriodicOnce, lowVars
<1>7. QED BY <1>3, <1>4, <1>5, <1>6

LEMMA LookKept == ASSUME WheelInv, L2aLook PROVE WheelInv'
<1> USE DEF WheelInv
<1> DEFINE hits == {x \in wheel.armed : Due(wheel.at[x])}
           s == Min(hits)
<1>1. /\ l2a = "look" /\ ~l2b /\ IsWheel(wheel) /\ Right(wheel, urg, ticks)
      /\ UNCHANGED <<now, l2b, lowVars, tickVars, box>>
  BY DEF L2aLook, Places, Types, WheelType, Urgent, UrgentCall
<1>2. CASE hits = {} /\ l2a' = "out" /\ wheel' = LeaveL2a(wheel)
                     /\ UNCHANGED <<slot, due>>
  <2>1. SameSlots(ProgramAt(wheel), wheel) BY <1>1, ProgramAtSame
  <2>2. /\ IsWheel(wheel') /\ wheel'.armed = wheel.armed
        /\ wheel'.at = wheel.at /\ wheel'.low = wheel.low
        /\ wheel'.inL2a = FALSE
    <3> DEFINE p == ProgramAt(wheel)
    <3>1. wheel' = [p EXCEPT !.inL2a = FALSE] BY <1>2 DEF LeaveL2a
    <3> HIDE DEF p
    <3>2. /\ IsWheel(p) /\ p.armed = wheel.armed /\ p.at = wheel.at
          /\ p.low = wheel.low
      BY <2>1 DEF SameSlots, p
    <3>3. /\ IsWheel(wheel') /\ wheel'.armed = p.armed /\ wheel'.at = p.at
          /\ wheel'.low = p.low /\ wheel'.inL2a = FALSE
      BY <3>1, <3>2 DEF IsWheel
    <3>4. QED BY <3>2, <3>3
  <2>3. Types' BY <1>1, <1>2, <2>2 DEF Types, WheelType, lowVars, tickVars
  <2>4. Places' BY <1>1, <1>2 DEF Places
  <2>5. Urgent' BY <1>1, <1>2, <2>2 DEF Urgent, UrgentCall, Right, tickVars
  <2>6. PeriodicOnce' BY <1>1, <1>2, <2>2 DEF PeriodicOnce, lowVars
  <2>7. QED BY <2>3, <2>4, <2>5, <2>6
<1>3. hits # {} => s \in wheel.armed /\ s \in Slots /\ wheel.at[s] \in Time
  <2>1. hits \subseteq Slots /\ hits \subseteq wheel.armed
    BY DEF Types, WheelType
  <2>2. hits # {} => s \in hits BY <2>1, MinIn
  <2>3. QED BY <2>1, <2>2 DEF Types, WheelType
<1> HIDE DEF hits, s
<1>4. CASE /\ hits # {} /\ s \in LowSlots
           /\ wheel' = [Taken(wheel, s) EXCEPT !.low = @ \cup {s}]
           /\ UNCHANGED l2aVars
  <2>1. s = TEST BY <1>4 DEF LowSlots
  <2>2. /\ IsWheel(wheel') /\ wheel'.armed = wheel.armed \ {TEST}
        /\ wheel'.at = wheel.at /\ wheel'.low = wheel.low \cup {TEST}
        /\ wheel'.inL2a = wheel.inL2a
    BY <1>1, <1>4, <2>1 DEF Taken, IsWheel
  <2>3. URGENT # TEST /\ WDOG # TEST BY DEF URGENT, TEST, WDOG
  <2>4. Types'
    BY <1>1, <1>4, <2>2
       DEF Types, WheelType, lowVars, tickVars, l2aVars, LowSlots
  <2>5. Places' BY <1>1, <1>4 DEF Places, l2aVars
  <2>6. Urgent'
    BY <1>1, <1>4, <2>2, <2>3 DEF Urgent, UrgentCall, Right, tickVars, l2aVars
  <2>7. PeriodicOnce'
    <3>1. TEST \in wheel.armed BY <1>3, <1>4, <2>1
    <3>2. TEST \notin wheel.low /\ thread = "idle" BY <3>1 DEF PeriodicOnce
    <3>3. QED
      BY <1>1, <1>4, <2>2, <2>3, <3>2 DEF PeriodicOnce, lowVars, l2aVars
  <2>8. QED BY <2>4, <2>5, <2>6, <2>7
<1>5. CASE /\ hits # {} /\ s \notin LowSlots /\ wheel' = Taken(wheel, s)
           /\ l2a' = "call" /\ slot' = s /\ due' = wheel.at[s]
  <2>1. /\ IsWheel(wheel') /\ wheel'.armed = wheel.armed \ {s}
        /\ wheel'.at = wheel.at /\ wheel'.low = wheel.low
        /\ wheel'.inL2a = wheel.inL2a
    BY <1>1, <1>5 DEF Taken, IsWheel
  <2>2. s \in {URGENT, WDOG} BY <1>3, <1>5 DEF Slots, LowSlots
  <2>3. /\ URGENT # TEST /\ WDOG # TEST /\ URGENT # WDOG
    BY DEF URGENT, TEST, WDOG
  <2>4. Types'
    BY <1>1, <1>3, <1>5, <2>1 DEF Types, WheelType, lowVars, tickVars
  <2>5. Places' BY <1>1, <1>5, <2>2 DEF Places
  <2>6. Urgent'
    <3>1. CASE s = URGENT
      <4>1. /\ urg.on /\ ticks # <<>> /\ urg.due = Wrap(Head(ticks) + Gap)
        BY <1>1, <1>3, <1>5, <3>1 DEF Right
      <4>2. UrgentCall' BY <1>5, <3>1 DEF UrgentCall
      <4>3. QED
        BY <1>1, <1>5, <2>1, <3>1, <4>1, <4>2 DEF Urgent, UrgentCall, tickVars
    <3>2. CASE s = WDOG
      BY <1>1, <1>5, <2>1, <2>3, <3>2 DEF Urgent, UrgentCall, Right, tickVars
    <3>3. QED BY <2>2, <3>1, <3>2
  <2>7. PeriodicOnce'
    <3>1. WDOG \in wheel.armed BY <1>1 DEF PeriodicOnce
    <3>2. CASE s = URGENT
      BY <1>1, <1>5, <2>1, <2>3, <3>1, <3>2 DEF PeriodicOnce, lowVars
    <3>3. CASE s = WDOG
      BY <1>1, <1>5, <2>1, <2>3, <3>3 DEF PeriodicOnce, lowVars
    <3>4. QED BY <2>2, <3>2, <3>3
  <2>8. QED BY <2>4, <2>5, <2>6, <2>7
<1>6. QED BY <1>2, <1>4, <1>5 DEF L2aLook, hits, s

LEMMA UrgentCallKept ==
  ASSUME WheelInv, UrgentBegin \/ UrgentTurn PROVE WheelInv'
<1> USE DEF WheelInv
<1>0. urg \in Urgs /\ WheelType(wheel) BY DEF Types
<1>1. CASE UrgentBegin
  <2>1. urg' \in Urgs /\ ~urg'.on
    BY <1>0, <1>1 DEF UrgentBegin, Urgs
  <2>2. Types' BY <1>1, <2>1 DEF UrgentBegin, Types, lowVars
  <2>3. Places' BY <1>1 DEF UrgentBegin, Places
  <2>4. Urgent'
    BY <1>1, <2>1 DEF UrgentBegin, Urgent, UrgentCall, Places
  <2>5. URGENT # WDOG BY DEF URGENT, WDOG
  <2>6. PeriodicOnce' BY <1>1, <2>5 DEF UrgentBegin, PeriodicOnce, lowVars
  <2>7. QED BY <2>2, <2>3, <2>4, <2>6
<1>2. CASE /\ UrgentTurn /\ ticks # <<>> /\ ticks' = Tail(ticks)
           /\ UNCHANGED <<l2a, wheel, urg>>
  <2>1. ticks' \in Seq(Time) /\ Len(ticks') <= MaxTicks
    <3>1. ticks \in Seq(Time) /\ Len(ticks) <= MaxTicks /\ MaxTicks \in Nat
      BY WheelAssumption DEF Types
    <3>2. Len(Tail(ticks)) = Len(ticks) - 1 /\ Tail(ticks) \in Seq(Time)
      BY <1>2, <3>1
    <3>3. Len(ticks) \in Nat BY <3>1
    <3>4. QED BY <1>2, <3>1, <3>2, <3>3
  <2>2. Types' BY <1>2, <2>1 DEF UrgentTurn, Types, lowVars
  <2>3. Places' BY <1>2 DEF UrgentTurn, Places
  <2>4. Urgent' BY <1>2 DEF UrgentTurn, Urgent, UrgentCall, Places
  <2>5. PeriodicOnce' BY <1>2 DEF UrgentTurn, PeriodicOnce, lowVars
  <2>6. QED BY <2>2, <2>3, <2>4, <2>5
<1>3. CASE /\ UrgentTurn /\ l2a' = "look"
           /\ ArmUrgent(urg, ticks) /\ UNCHANGED ticks
  <2>1. ~urg.on /\ URGENT \notin wheel.armed /\ ticks \in Seq(Time)
    BY <1>3 DEF UrgentTurn, Urgent, Types
  <2>2. /\ WheelType(wheel') /\ urg' \in Urgs
        /\ wheel'.armed \ {URGENT} = wheel.armed \ {URGENT}
        /\ wheel'.low = wheel.low /\ Right(wheel', urg', ticks)
    BY <1>0, <1>3, <2>1, ArmUrgentSets
  <2>3. Types' BY <1>3, <2>2 DEF UrgentTurn, Types, lowVars
  <2>4. Places' BY <1>3 DEF UrgentTurn, Places
  <2>5. Urgent'
    <3>1. Right(wheel, urg, ticks)' BY <1>3, <2>2
    <3>2. ~l2b' /\ ~UrgentCall' BY <1>3 DEF UrgentTurn, Places, UrgentCall
    <3>3. QED BY <1>3, <3>1, <3>2 DEF Urgent
  <2>6. PeriodicOnce'
    <3>1. \A x \in {WDOG, TEST} : x \in wheel'.armed <=> x \in wheel.armed
      BY <2>2 DEF URGENT, WDOG, TEST
    <3>2. slot = URGENT /\ URGENT # WDOG
      BY <1>3 DEF UrgentTurn, Places, URGENT, WDOG
    <3>3. QED
      BY <1>3, <2>2, <3>1, <3>2 DEF UrgentTurn, PeriodicOnce, lowVars
  <2>7. QED BY <2>3, <2>4, <2>5, <2>6
<1>4. QED BY <1>1, <1>2, <1>3 DEF UrgentTurn

LEMMA WdogKept == ASSUME WheelInv, WdogNext \/ WdogArm PROVE WheelInv'
<1> USE DEF WheelInv
<1>0. /\ WheelType(wheel) /\ urg \in Urgs /\ URGENT # WDOG /\ WDOG # TEST
      /\ WDOG \in Slots
  BY DEF Types, URGENT, WDOG, TEST, Slots
<1>1. CASE WdogNext
  <2>1. due' \in Time BY <1>1, NextType DEF WdogNext, Types
  <2>2. Types' BY <1>1, <2>1 DEF WdogNext, Types, lowVars, tickVars
  <2>3. Places' BY <1>1 DEF WdogNext, Places
  <2>4. Urgent'
    BY <1>1, <1>0
       DEF WdogNext, Urgent, UrgentCall, Right, Linked, tickVars, Places
  <2>5. PeriodicOnce' BY <1>1 DEF WdogNext, PeriodicOnce, lowVars
  <2>6. QED BY <2>2, <2>3, <2>4, <2>5
<1>2. CASE WdogArm
  <2>1. due \in Time BY DEF Types
  <2>2. /\ WheelType(wheel') /\ wheel'.armed = wheel.armed \cup {WDOG}
        /\ wheel'.low = wheel.low
        /\ \A t \in Slots \ {WDOG} : wheel'.at[t] = wheel.at[t]
    BY <1>0, <1>2, <2>1, ArmSets DEF WdogArm
  <2>3. Types' BY <1>2, <2>2 DEF WdogArm, Types, lowVars, tickVars
  <2>4. Places' BY <1>2 DEF WdogArm, Places
  <2>5. Urgent'
    <3>1. Right(wheel, urg, ticks) /\ ~l2b /\ slot = WDOG
      BY <1>2 DEF WdogArm, Urgent, UrgentCall, Places
    <3>2. wheel'.at[URGENT] = wheel.at[URGENT]
      BY <1>0, <2>2 DEF Slots
    <3>3. QED
      BY <1>0, <1>2, <2>2, <3>1, <3>2
         DEF WdogArm, Urgent, UrgentCall, Right, tickVars
  <2>6. PeriodicOnce' BY <1>0, <1>2, <2>2 DEF WdogArm, PeriodicOnce, lowVars
  <2>7. QED BY <2>3, <2>4, <2>5, <2>6
<1>3. QED BY <1>1, <1>2

(* An item may take the waiting tick; while it runs the slot only follows  *)
(* urg, and its end makes both follow the queue again.                     *)
LEMMA ItemKept ==
  ASSUME WheelInv, (\E isTick \in BOOLEAN : ItemStart(isTick)) \/ ItemEnd
  PROVE  WheelInv'
<1> USE DEF WheelInv
<1>0. WheelType(wheel) /\ urg \in Urgs /\ ticks \in Seq(Time) BY DEF Types
<1>1. CASE \E isTick \in BOOLEAN : ItemStart(isTick)
  <2>1. PICK isTick \in BOOLEAN : ItemStart(isTick) BY <1>1
  <2>2. ticks' \in Seq(Time) /\ Len(ticks') <= MaxTicks
    <3>1. ticks \in Seq(Time) /\ Len(ticks) <= MaxTicks /\ MaxTicks \in Nat
      BY WheelAssumption DEF Types
    <3>2. CASE isTick
      <4>1. ticks # <<>> /\ ticks' = Tail(ticks) BY <2>1, <3>2 DEF ItemStart
      <4>2. Len(Tail(ticks)) = Len(ticks) - 1 /\ Tail(ticks) \in Seq(Time)
        BY <3>1, <4>1
      <4>3. Len(ticks) \in Nat BY <3>1
      <4>4. QED BY <3>1, <4>1, <4>2, <4>3
    <3>3. CASE ~isTick BY <2>1, <3>1, <3>3 DEF ItemStart
    <3>4. QED BY <3>2, <3>3
  <2>3. Types' BY <2>1, <2>2 DEF ItemStart, Types, l2aVars, lowVars
  <2>4. Places' BY <2>1 DEF ItemStart, Places, l2aVars
  <2>5. Urgent'
    <3>1. Right(wheel, urg, ticks) /\ l2a' = "off" /\ l2b'
      BY <2>1 DEF ItemStart, Urgent, UrgentCall, l2aVars
    <3>2. Linked(wheel, urg) BY <1>0, <3>1, RightIsLinked
    <3>3. Linked(wheel, urg)' BY <2>1, <3>2 DEF ItemStart, Linked
    <3>4. QED BY <3>1, <3>3 DEF Urgent, UrgentCall
  <2>6. PeriodicOnce' BY <2>1 DEF ItemStart, PeriodicOnce, l2aVars, lowVars
  <2>7. QED BY <2>3, <2>4, <2>5, <2>6
<1>2. CASE ItemEnd
  <2>1. ArmUrgent(urg, ticks) /\ Linked(wheel, urg) /\ l2a = "off"
    BY <1>2 DEF ItemEnd, ItemArm, Urgent, Places
  <2>2. /\ WheelType(wheel') /\ urg' \in Urgs
        /\ wheel'.armed \ {URGENT} = wheel.armed \ {URGENT}
        /\ wheel'.low = wheel.low /\ Right(wheel', urg', ticks)
    BY <1>0, <2>1, ArmUrgentSets
  <2>3. Types' BY <1>2, <2>2 DEF ItemEnd, Types, l2aVars, lowVars
  <2>4. Places' BY <1>2 DEF ItemEnd, Places, l2aVars
  <2>5. Urgent'
    <3>1. Right(wheel, urg, ticks)' BY <1>2, <2>2 DEF ItemEnd
    <3>2. ~l2b' /\ l2a' = "off" BY <1>2, <2>1 DEF ItemEnd, l2aVars
    <3>3. QED BY <3>1, <3>2 DEF Urgent, UrgentCall
  <2>6. PeriodicOnce'
    <3>1. \A x \in {WDOG, TEST} : x \in wheel'.armed <=> x \in wheel.armed
      BY <2>2 DEF URGENT, WDOG, TEST
    <3>2. QED BY <1>2, <2>2, <3>1 DEF ItemEnd, PeriodicOnce, l2aVars, lowVars
  <2>7. QED BY <2>3, <2>4, <2>5, <2>6
<1>3. QED BY <1>1, <1>2

LEMMA ThreadKept == ASSUME WheelInv, Thread PROVE WheelInv'
<1> USE DEF WheelInv
<1>0. /\ WheelType(wheel) /\ IsWheel(wheel) /\ TEST \in Slots
      /\ URGENT # TEST /\ WDOG # TEST /\ URGENT \in Slots
  BY DEF Types, WheelType, Slots, URGENT, WDOG, TEST
<1>1. CASE LowTake
  <2>1. wheel.low = {TEST} BY <1>1, <1>0 DEF LowTake, WheelType, LowSlots
  <2>2. /\ IsWheel(wheel') /\ wheel'.armed = wheel.armed
        /\ wheel'.at = wheel.at /\ wheel'.low = {}
        /\ wheel'.inL2a = wheel.inL2a
    BY <1>0, <1>1, <2>1 DEF LowTake, IsWheel
  <2>3. testDue' \in Time BY <1>0, <1>1 DEF LowTake, WheelType
  <2>4. Types'
    BY <1>1, <2>2, <2>3 DEF LowTake, Types, WheelType, l2aVars, tickVars
  <2>5. Places' BY <1>1 DEF LowTake, Places, l2aVars
  <2>6. Urgent'
    BY <1>1, <2>2
       DEF LowTake, Urgent, UrgentCall, Right, Linked, l2aVars, tickVars
  <2>7. PeriodicOnce'
    BY <1>1, <2>1, <2>2 DEF LowTake, PeriodicOnce, l2aVars
  <2>8. QED BY <2>4, <2>5, <2>6, <2>7
<1>2. CASE TestNext
  <2>1. testDue' \in Time BY <1>2, NextType DEF TestNext, Types
  <2>2. Types' BY <1>2, <2>1 DEF TestNext, Types, l2aVars, tickVars
  <2>3. Places' BY <1>2 DEF TestNext, Places, l2aVars
  <2>4. Urgent'
    BY <1>2 DEF TestNext, Urgent, UrgentCall, Right, Linked, l2aVars, tickVars
  <2>5. PeriodicOnce' BY <1>2 DEF TestNext, PeriodicOnce, l2aVars
  <2>6. QED BY <2>2, <2>3, <2>4, <2>5
<1>3. CASE TestArm
  <2>1. testDue \in Time BY DEF Types
  <2>2. /\ WheelType(wheel') /\ wheel'.armed = wheel.armed \cup {TEST}
        /\ wheel'.low = wheel.low
        /\ \A t \in Slots \ {TEST} : wheel'.at[t] = wheel.at[t]
    BY <1>0, <1>3, <2>1, ArmSets DEF TestArm
  <2>3. Types' BY <1>3, <2>2 DEF TestArm, Types, l2aVars, tickVars
  <2>4. Places' BY <1>3 DEF TestArm, Places, l2aVars
  <2>5. Urgent'
    <3>1. wheel'.at[URGENT] = wheel.at[URGENT] BY <1>0, <2>2
    <3>2. QED
      BY <1>0, <1>3, <2>2, <3>1
         DEF TestArm, Urgent, UrgentCall, Right, Linked, l2aVars, tickVars
  <2>6. PeriodicOnce'
    BY <1>0, <1>3, <2>2 DEF TestArm, PeriodicOnce, l2aVars
  <2>7. QED BY <2>3, <2>4, <2>5, <2>6
<1>4. QED BY <1>1, <1>2, <1>3 DEF Thread

LEMMA StepInv == WheelInv /\ [Next]_vars => WheelInv'
<1> SUFFICES ASSUME WheelInv, [Next]_vars PROVE WheelInv' OBVIOUS
<1>0. /\ WheelType(wheel) /\ now \in Time /\ ticks \in Seq(Time)
      /\ box \in [full : BOOLEAN, stamp : Time] /\ Len(ticks) <= MaxTicks
  BY DEF WheelInv, Types
<1>1. CASE Advance
  <2>1. now' \in Time BY <1>0, <1>1, WrapType DEF Advance, Time
  <2>2. QED BY <1>0, <1>1, <2>1, QuietKept DEF Advance
<1>2. CASE Post9494
  <2>1. box' \in [full : BOOLEAN, stamp : Time] BY <1>0, <1>2 DEF Post9494
  <2>2. QED BY <1>0, <1>2, <2>1, QuietKept DEF Post9494
<1>3. CASE L1Tick
  <2>1. box' \in [full : BOOLEAN, stamp : Time] BY <1>0, <1>3 DEF L1Tick
  <2>2. box.stamp \in Time BY <1>0
  <2>3. ticks' = Append(ticks, box.stamp) /\ ticks' \in Seq(Time)
    BY <1>0, <1>3, <2>2 DEF L1Tick
  <2>4. Len(ticks') <= MaxTicks
    <3>1. Len(ticks') = Len(ticks) + 1 BY <1>0, <2>3
    <3>2. Len(ticks) < MaxTicks /\ MaxTicks \in Nat /\ Len(ticks) \in Nat
      BY <1>0, <1>3, WheelAssumption DEF L1Tick
    <3>3. QED BY <3>1, <3>2
  <2>5. ticks # <<>> => ticks' # <<>> /\ Head(ticks') = Head(ticks)
    BY <1>0, <2>2, <2>3, HeadStays
  <2>6. /\ l2a # "urgent" /\ ArmUrgent(urg, ticks')
        /\ UNCHANGED <<now, l2aVars, l2b, lowVars>>
    BY <1>3 DEF L1Tick
  <2>7. QED BY <2>1, <2>3, <2>4, <2>5, <2>6, L1Kept
<1>4. CASE L1Other
  BY <1>0, <1>4, L1Kept DEF L1Other
<1>5. CASE L2a
  BY <1>5, TransitKept, LookKept, UrgentCallKept, WdogKept DEF L2a
<1>6. CASE L2b BY <1>6, ItemKept DEF L2b
<1>7. CASE Thread BY <1>7, ThreadKept
<1>8. CASE UNCHANGED vars
  BY <1>0, <1>8, QuietKept DEF vars, l2aVars, lowVars, tickVars
<1>9. QED
  BY <1>1, <1>2, <1>3, <1>4, <1>5, <1>6, <1>7, <1>8 DEF Next

LEMMA AlwaysInv == Spec => []WheelInv
<1>1. QED BY InitInv, StepInv, PTL DEF Spec
-----------------------------------------------------------------------------
(* Every deadline, stamp and slot stays in its range.                      *)
THEOREM TypeCorrect == Spec => []TypeOK
<1>1. WheelInv => TypeOK
  BY DEF WheelInv, Types, TypeOK, WheelType, Urgs
<1>2. QED BY <1>1, AlwaysInv, PTL

(* Outside an item and the urgent finish itself the urgent slot is armed   *)
(* for the oldest waiting tick, or disarmed when none waits (sched.c's     *)
(* s5_urgent_arm), whatever L1, L2a and the items interleave.              *)
THEOREM UrgentSlotIsRight == Spec => []UrgentSlotRight
<1>1. WheelInv => UrgentSlotRight
  <2>1. SUFFICES ASSUME WheelInv, ~l2b,
                        ~(l2a \in {"call", "urgent"} /\ slot = URGENT)
                 PROVE  IF ticks = <<>> THEN ~urg.on /\ URGENT \notin wheel.armed
                        ELSE /\ urg.on /\ URGENT \in wheel.armed
                             /\ wheel.at[URGENT] = Wrap(Head(ticks) + Gap)
    BY DEF UrgentSlotRight
  <2>2. ~UrgentCall /\ l2a # "urgent" BY <2>1 DEF WheelInv, Places, UrgentCall
  <2>3. Right(wheel, urg, ticks) BY <2>1, <2>2 DEF WheelInv, Urgent
  <2>4. QED BY <2>3 DEF Right
<1>2. QED BY <1>1, AlwaysInv, PTL

(* The watchdog's slot and the debug save's are never lost and never       *)
(* doubled: each is armed, marked for the thread, or in its callback.      *)
THEOREM PeriodicSlotsKept == Spec => []PeriodicOnce
<1>1. WheelInv => PeriodicOnce BY DEF WheelInv
<1>2. QED BY <1>1, AlwaysInv, PTL

-----------------------------------------------------------------------------
(* Outside l2a_mti the compare is the one the armed slots give.            *)
Ready(w) == ~w.inL2a => w.cmp = CmpOf(w.armed, w.at)

Programmed == /\ wheel.inL2a <=> l2a \in {"look", "call", "urgent", "rearm"}
              /\ Ready(wheel)

(* Whatever is armed, on its way to a callback, in one, or behind a        *)
(* waiting tick lies in the window; what has been called has come.         *)
ArmedNear(w) == \A s \in w.armed : Near(now, w.at[s])
LowLate(w) == \A s \in w.low : Late(now, w.at[s])
TicksNear(tk) == \A i \in 1..Len(tk) : Near(now, Wrap(tk[i] + Gap))
WorkNear ==
  /\ box.full => Late(now, box.stamp)
  /\ l2a = "call" => Late(now, due)
  /\ l2a = "rearm" => Near(now, due)
  /\ thread = "call" => Late(now, testDue)
  /\ thread = "rearm" => Near(now, testDue)
Close == ArmedNear(wheel) /\ LowLate(wheel) /\ TicksNear(ticks) /\ WorkNear

ExactInv == WheelInv /\ Programmed /\ Close

LEMMA ProgramAtCmp ==
  ASSUME NEW w, IsWheel(w) PROVE ProgramAt(w).cmp = CmpOf(w.armed, w.at)
BY DEF IsWheel, ProgramAt, CmpOf

LEMMA ProgramReady ==
  ASSUME NEW w, IsWheel(w)
  PROVE  Ready(Program(w)) /\ Program(w).inL2a = w.inL2a
<1>1. CASE w.inL2a
  BY <1>1 DEF Program, Ready
<1>2. CASE ~w.inL2a
  <2>1. Program(w) = ProgramAt(w)
    BY <1>2 DEF Program
  <2>2. SameSlots(ProgramAt(w), w) /\ ProgramAt(w).cmp = CmpOf(w.armed, w.at)
    BY ProgramAtSame, ProgramAtCmp
  <2>3. QED
    BY <2>1, <2>2 DEF SameSlots, Ready
<1>3. QED
  BY <1>1, <1>2

LEMMA EditReady ==
  ASSUME NEW w, WheelType(w), NEW s \in Slots, NEW d \in Time
  PROVE  /\ Ready(Arm(w, s, d)) /\ Arm(w, s, d).inL2a = w.inL2a
         /\ Ready(Disarm(w, s)) /\ Disarm(w, s).inL2a = w.inL2a
<1> DEFINE v == [w EXCEPT !.armed = @ \cup {s}, !.at[s] = d]
           u == [w EXCEPT !.armed = @ \ {s}]
<1>1. IsWheel(w)
  BY DEF WheelType
<1>2. IsWheel(v) /\ v.inL2a = w.inL2a /\ IsWheel(u) /\ u.inL2a = w.inL2a
  BY <1>1 DEF IsWheel
<1>3. Arm(w, s, d) = Program(v) /\ Disarm(w, s) = Program(u)
  BY DEF Arm, Disarm
<1> HIDE DEF v, u
<1>4. QED
  BY <1>2, <1>3, ProgramReady

(* s5_urgent_arm keeps the compare right, and what it arms is the          *)
(* deadline of the oldest waiting tick.                                    *)
LEMMA UrgentArmReady ==
  ASSUME NEW w, WheelType(w), Ready(w), NEW u \in Urgs, NEW tk \in Seq(Time)
  PROVE  LET r == UrgentArm(w, u, tk) IN
           /\ Ready(r.wheel) /\ r.wheel.inL2a = w.inL2a
           /\ \A s \in r.wheel.armed :
                \/ s \in w.armed /\ r.wheel.at[s] = w.at[s]
                \/ tk # <<>> /\ r.wheel.at[s] = Wrap(Head(tk) + Gap)
<1> DEFINE st == Wrap(Head(tk) + Gap)
           r == UrgentArm(w, u, tk)
<1>1. tk # <<>> => st \in Time
  <2>1. SUFFICES ASSUME tk # <<>> PROVE st \in Time
    OBVIOUS
  <2>2. Head(tk) \in Time
    BY <2>1
  <2>3. Head(tk) + Gap \in Int
    BY <2>2, WheelAssumption DEF Time
  <2>4. QED
    BY <2>3, WrapType
<1>2. URGENT \in Slots /\ IsWheel(w) /\ w.armed \subseteq Slots
  BY DEF Slots, WheelType
<1>3. CASE tk # <<>> /\ (~u.on \/ st # u.due)
  <2>1. r = [wheel |-> Arm(w, URGENT, st), urg |-> [on |-> TRUE, due |-> st]]
    BY <1>3 DEF UrgentArm
  <2>2. st \in Time
    BY <1>1, <1>3
  <2> HIDE DEF r, st
  <2>3. r.wheel = Arm(w, URGENT, st)
    BY <2>1
  <2>4. /\ r.wheel.armed = w.armed \cup {URGENT} /\ r.wheel.at[URGENT] = st
        /\ \A s \in Slots \ {URGENT} : r.wheel.at[s] = w.at[s]
    BY <2>2, <2>3, <1>2, ArmSets
  <2>5. Ready(r.wheel) /\ r.wheel.inL2a = w.inL2a
    BY <2>2, <2>3, <1>2, EditReady
  <2>6. QED
    BY <2>4, <2>5, <1>2, <1>3 DEF r, st
<1>4. CASE tk = <<>> /\ u.on
  <2>1. r = [wheel |-> Disarm(w, URGENT), urg |-> [u EXCEPT !.on = FALSE]]
    BY <1>4 DEF UrgentArm
  <2> HIDE DEF r
  <2>2. r.wheel = Disarm(w, URGENT)
    BY <2>1
  <2>3. r.wheel.armed = w.armed \ {URGENT} /\ r.wheel.at = w.at
    BY <2>2, <1>2, DisarmSets
  <2>4. 0 \in Time
    BY Bounds DEF Time
  <2>5. Ready(r.wheel) /\ r.wheel.inL2a = w.inL2a
    BY <2>2, <2>4, <1>2, EditReady
  <2>6. QED
    BY <2>3, <2>5 DEF r
<1>5. CASE /\ ~(tk # <<>> /\ (~u.on \/ st # u.due))
           /\ ~(tk = <<>> /\ u.on)
  <2>1. r = [wheel |-> w, urg |-> u]
    BY <1>5 DEF UrgentArm
  <2>2. r.wheel = w
    BY <2>1
  <2>3. QED
    BY <2>2
<1>6. QED
  BY <1>3, <1>4, <1>5

LEMMA LateGap ==
  ASSUME NEW t \in Time, NEW d, Late(t, d) PROVE Near(t, Wrap(d + Gap))
<1>1. PICK k \in Window : k <= 0 /\ d = Wrap(t + k)
  BY DEF Late
<1> DEFINE x == t + k  y == d + Gap  n == k + Gap  z == t + n
<1>2. /\ t \in Int /\ 0 <= t /\ t < W /\ k \in Int /\ -MaxLate <= k
  BY Bounds DEF Time, Window
<1>3. x \in Int /\ -2 * W <= x /\ x < 2 * W
  BY <1>1, <1>2, Bounds
<1>4. d = (IF x < -W THEN x + 2 * W ELSE IF x < 0 THEN x + W
           ELSE IF x < W THEN x ELSE x - W)
  BY <1>1, <1>3, Turns
<1>5. n \in Window
  BY <1>1, <1>2, Bounds DEF Window
<1>6. /\ y \in Int /\ -2 * W <= y /\ y < 2 * W
      /\ z \in Int /\ -W <= z /\ z < 2 * W
      /\ (y = z \/ (y = z + W /\ z < W) \/ (y = z - W /\ 0 <= y))
  BY <1>1, <1>2, <1>4, Bounds
<1> HIDE DEF y, z
<1>7. Wrap(y) = (IF y < -W THEN y + 2 * W ELSE IF y < 0 THEN y + W
                 ELSE IF y < W THEN y ELSE y - W)
  BY <1>6, Turns
<1>8. Wrap(z) = (IF z < -W THEN z + 2 * W ELSE IF z < 0 THEN z + W
                 ELSE IF z < W THEN z ELSE z - W)
  BY <1>6, Turns, Bounds
<1>9. Wrap(y) = Wrap(z)
  BY <1>6, <1>7, <1>8, Bounds
<1>10. QED
  BY <1>5, <1>9 DEF Near, y, z

LEMMA LateIsNear == ASSUME NEW t, NEW d, Late(t, d) PROVE Near(t, d)
BY DEF Late, Near

LEMMA ReachedIsLate ==
  ASSUME NEW t \in Time, NEW d, Near(t, d), Reached(t, d) PROVE Late(t, d)
<1>1. PICK k \in Window : d = Wrap(t + k)
  BY DEF Near
<1>2. k <= 0
  BY <1>1, ReachedIs
<1>3. QED
  BY <1>1, <1>2 DEF Late

(* s5_urgent_arm, called with the queue's new value.                       *)
LEMMA ArmUrgentExact ==
  ASSUME WheelInv, Ready(wheel), ArmedNear(wheel), LowLate(wheel),
         NEW tk \in Seq(Time), TicksNear(tk), ArmUrgent(urg, tk), now' = now
  PROVE  /\ Ready(wheel') /\ wheel'.inL2a = wheel.inL2a
         /\ ArmedNear(wheel)' /\ LowLate(wheel)'
<1> DEFINE r == UrgentArm(wheel, urg, tk)
<1>1. WheelType(wheel) /\ urg \in Urgs
  BY DEF WheelInv, Types
<1>2. wheel' = r.wheel
  BY DEF ArmUrgent
<1>3. /\ Ready(r.wheel) /\ r.wheel.inL2a = wheel.inL2a
      /\ \A s \in r.wheel.armed :
           \/ s \in wheel.armed /\ r.wheel.at[s] = wheel.at[s]
           \/ tk # <<>> /\ r.wheel.at[s] = Wrap(Head(tk) + Gap)
  BY <1>1, UrgentArmReady
<1> HIDE DEF r
<1>4. tk # <<>> => Near(now, Wrap(Head(tk) + Gap))
  <2>1. SUFFICES ASSUME tk # <<>> PROVE Near(now, Wrap(Head(tk) + Gap))
    OBVIOUS
  <2>2. 1 \in 1..Len(tk) /\ Head(tk) = tk[1]
    BY <2>1
  <2>3. QED
    BY <2>2 DEF TicksNear
<1>5. ArmedNear(wheel)'
  <2>1. SUFFICES ASSUME NEW s \in wheel'.armed PROVE Near(now, wheel'.at[s])
    BY DEF ArmedNear
  <2>2. QED
    BY <1>2, <1>3, <1>4 DEF ArmedNear
<1>6. LowLate(wheel)'
  <2>1. /\ wheel'.low = wheel.low
        /\ \A s \in Slots \ {URGENT} : wheel'.at[s] = wheel.at[s]
    BY <1>1, ArmUrgentSets
  <2>2. \A s \in wheel.low : s \in Slots \ {URGENT}
    BY <1>1 DEF WheelType, LowSlots, Slots, URGENT, TEST
  <2>3. QED
    BY <2>1, <2>2 DEF LowLate
<1>7. QED
  BY <1>2, <1>3, <1>5, <1>6

-----------------------------------------------------------------------------
(* What is armed and what waits is not touched, TIMER stands.              *)
LEMMA StillExact ==
  ASSUME Programmed, Close, now' = now, wheel' = wheel, ticks' = ticks,
         l2a' \in {"look", "call", "urgent", "rearm"} <=>
           l2a \in {"look", "call", "urgent", "rearm"},
         WorkNear'
  PROVE  Programmed' /\ Close'
<1>1. Programmed'
  BY DEF Programmed, Ready, CmpOf
<1>2. Close'
  BY DEF Close, ArmedNear, LowLate, TicksNear
<1>3. QED
  BY <1>1, <1>2

(* TIMER moves on: by the bound of Advance every deadline stays close.     *)
LEMMA AdvanceExact ==
  ASSUME WheelInv, Programmed, Close, Advance PROVE Programmed' /\ Close'
<1>1. /\ now \in Time /\ now' = Wrap(now + 1)
      /\ \A d \in Pending : Reached(now, d) => (now - d) % W < MaxLate
      /\ UNCHANGED <<wheel, l2aVars, l2b, lowVars, tickVars, box>>
  BY DEF Advance, WheelInv, Types
<1>2. \A d \in Pending : Near(now, d) => Near(now', d)
  <2>1. SUFFICES ASSUME NEW d \in Pending, Near(now, d) PROVE Near(now', d)
    OBVIOUS
  <2>2. PICK k \in Window : d = Wrap(now + k)
    BY <2>1 DEF Near
  <2>3. k - 1 \in Window /\ d = Wrap(now' + (k - 1))
    BY <1>1, <2>2, NearNext
  <2>4. QED
    BY <2>3 DEF Near
<1>3. \A d \in Pending : Late(now, d) => Late(now', d)
  <2>1. SUFFICES ASSUME NEW d \in Pending, Late(now, d) PROVE Late(now', d)
    OBVIOUS
  <2>2. PICK k \in Window : k <= 0 /\ d = Wrap(now + k)
    BY <2>1 DEF Late
  <2>3. k - 1 \in Window /\ d = Wrap(now' + (k - 1))
    BY <1>1, <2>2, NearNext
  <2>4. k - 1 <= 0
    BY <2>2 DEF Window
  <2>5. QED
    BY <2>3, <2>4 DEF Late
<1>4. ArmedNear(wheel)' /\ LowLate(wheel)'
  <2>1. \A s \in wheel.armed \cup wheel.low : wheel.at[s] \in Pending
    BY DEF Pending
  <2>2. QED
    BY <1>1, <1>2, <1>3, <2>1 DEF Close, ArmedNear, LowLate
<1>5. TicksNear(ticks)'
  <2>1. \A i \in 1..Len(ticks) : Wrap(ticks[i] + Gap) \in Pending
    BY DEF Pending
  <2>2. QED
    BY <1>1, <1>2, <2>1 DEF Close, TicksNear, tickVars
<1>6. WorkNear'
  <2>1. /\ box.full => box.stamp \in Pending
        /\ l2a \in {"call", "rearm"} => due \in Pending
        /\ thread # "idle" => testDue \in Pending
    BY DEF Pending
  <2>2. QED
    BY <1>1, <1>2, <1>3, <2>1 DEF Close, WorkNear, l2aVars, lowVars
<1>7. Programmed'
  BY <1>1 DEF Programmed, Ready, CmpOf, l2aVars
<1>8. QED
  BY <1>1, <1>4, <1>5, <1>6, <1>7 DEF Close

LEMMA PostExact ==
  ASSUME WheelInv, Programmed, Close, Post9494 PROVE Programmed' /\ Close'
<1>1. now \in Time
  BY DEF WheelInv, Types
<1>2. Late(now, now)
  BY <1>1, Here DEF Late
<1>3. WorkNear'
  BY <1>2 DEF Post9494, Close, WorkNear, l2aVars, lowVars
<1>4. QED
  BY <1>3, StillExact DEF Post9494, l2aVars, tickVars

(* L1 and the end of an item: the urgent slot is looked at again.          *)
LEMMA RearmExact ==
  ASSUME WheelInv, Programmed, Close, ticks' \in Seq(Time), TicksNear(ticks'),
         ArmUrgent(urg, ticks'), now' = now, WorkNear',
         l2a' \in {"look", "call", "urgent", "rearm"} <=>
           l2a \in {"look", "call", "urgent", "rearm"}
  PROVE  Programmed' /\ Close'
<1> DEFINE tk == ticks'
<1>1. /\ tk \in Seq(Time) /\ TicksNear(tk) /\ ArmUrgent(urg, tk)
      /\ Ready(wheel) /\ ArmedNear(wheel) /\ LowLate(wheel)
  BY DEF Programmed, Close
<1> HIDE DEF tk
<1>2. /\ Ready(wheel') /\ wheel'.inL2a = wheel.inL2a
      /\ ArmedNear(wheel)' /\ LowLate(wheel)'
  BY <1>1, ArmUrgentExact
<1>3. TicksNear(ticks)'
  BY DEF TicksNear
<1>4. Ready(wheel)'
  BY <1>2 DEF Ready, CmpOf
<1>5. QED
  BY <1>2, <1>3, <1>4 DEF Programmed, Close

LEMMA L1Exact ==
  ASSUME WheelInv, Programmed, Close, L1Tick \/ L1Other
  PROVE  Programmed' /\ Close'
<1>1. /\ now \in Time /\ ticks \in Seq(Time) /\ box.stamp \in Time
      /\ TicksNear(ticks) /\ WorkNear
  BY DEF WheelInv, Types, Close
<1>2. CASE L1Tick
  <2>1. /\ ticks' = Append(ticks, box.stamp) /\ ArmUrgent(urg, ticks')
        /\ now' = now /\ l2a' = l2a
    BY <1>2 DEF L1Tick, l2aVars
  <2>2. Near(now, Wrap(box.stamp + Gap))
    BY <1>1, <1>2, LateGap DEF L1Tick, WorkNear
  <2>3. ticks' \in Seq(Time) /\ TicksNear(ticks')
    <3>1. ticks' \in Seq(Time) /\ Len(ticks') = Len(ticks) + 1
      BY <1>1, <2>1
    <3>2. \A i \in 1..Len(ticks') :
            ticks'[i] = IF i <= Len(ticks) THEN ticks[i] ELSE box.stamp
      BY <1>1, <2>1
    <3>3. \A i \in 1..Len(ticks') : Near(now, Wrap(ticks'[i] + Gap))
      <4>1. SUFFICES ASSUME NEW i \in 1..Len(ticks')
                     PROVE  Near(now, Wrap(ticks'[i] + Gap))
        OBVIOUS
      <4>2. CASE i \in 1..Len(ticks)
        BY <1>1, <3>2, <4>2 DEF TicksNear
      <4>3. CASE i \notin 1..Len(ticks)
        <5>1. ticks'[i] = box.stamp
          BY <3>2, <4>1, <4>3
        <5>2. QED
          BY <2>2, <5>1
      <4>4. QED
        BY <4>2, <4>3
    <3>4. QED
      BY <3>1, <3>3 DEF TicksNear
  <2>4. WorkNear'
    BY <1>1, <1>2 DEF L1Tick, WorkNear, l2aVars, lowVars
  <2>5. QED
    BY <2>1, <2>3, <2>4, RearmExact
<1>3. CASE L1Other
  <2>1. /\ ticks' = ticks /\ ArmUrgent(urg, ticks') /\ now' = now /\ l2a' = l2a
        /\ TicksNear(ticks')
    BY <1>1, <1>3 DEF L1Other, l2aVars
  <2>2. WorkNear'
    BY <1>1, <1>3 DEF L1Other, WorkNear, l2aVars, lowVars
  <2>3. QED
    BY <1>1, <2>1, <2>2, RearmExact
<1>4. QED
  BY <1>2, <1>3

(* Into l2a_mti, whose edits leave the compare; and out, programmed.       *)
LEMMA TransitExact ==
  ASSUME WheelInv, Programmed, Close, L2aEnter \/ L2aIn \/ L2aExit
  PROVE  Programmed' /\ Close'
<1>1. CASE L2aEnter \/ L2aExit
  <2>1. WorkNear'
    BY <1>1 DEF L2aEnter, L2aExit, Close, WorkNear, lowVars
  <2>2. QED
    BY <1>1, <2>1, StillExact DEF L2aEnter, L2aExit, tickVars
<1>2. CASE L2aIn
  <2>1. IsWheel(wheel)
    BY DEF WheelInv, Types, WheelType
  <2>2. /\ wheel'.armed = wheel.armed /\ wheel'.at = wheel.at
        /\ wheel'.low = wheel.low /\ wheel'.inL2a = TRUE
    BY <1>2, <2>1 DEF L2aIn, IsWheel
  <2>3. Programmed'
    BY <1>2, <2>2 DEF L2aIn, Programmed, Ready
  <2>4. Close'
    BY <1>2, <2>2
       DEF L2aIn, Close, ArmedNear, LowLate, TicksNear, WorkNear, lowVars, tickVars
  <2>5. QED
    BY <2>3, <2>4
<1>3. QED
  BY <1>1, <1>2

LEMMA LookExact ==
  ASSUME WheelInv, Programmed, Close, L2aLook PROVE Programmed' /\ Close'
<1> DEFINE hits == {x \in wheel.armed : Due(wheel.at[x])}
           s == Min(hits)
<1>1. /\ l2a = "look" /\ IsWheel(wheel) /\ now \in Time
      /\ wheel.armed \subseteq Slots
      /\ now' = now /\ ticks' = ticks /\ box' = box
      /\ thread' = thread /\ testDue' = testDue
  BY DEF L2aLook, WheelInv, Types, WheelType, lowVars, tickVars
<1>2. hits # {} => s \in wheel.armed /\ Late(now, wheel.at[s])
  <2>1. SUFFICES ASSUME hits # {} PROVE s \in wheel.armed /\ Late(now, wheel.at[s])
    OBVIOUS
  <2>2. s \in hits
    BY <1>1, <2>1, MinIn
  <2>3. s \in wheel.armed /\ Reached(now, wheel.at[s])
    BY <2>2 DEF Due
  <2>4. Near(now, wheel.at[s])
    BY <2>3 DEF Close, ArmedNear
  <2>5. QED
    BY <1>1, <2>3, <2>4, ReachedIsLate
<1>3. CASE hits = {} /\ l2a' = "out" /\ wheel' = LeaveL2a(wheel)
                     /\ UNCHANGED <<slot, due>>
  <2> DEFINE p == ProgramAt(wheel)
  <2>1. SameSlots(p, wheel) /\ p.cmp = CmpOf(wheel.armed, wheel.at)
    BY <1>1, ProgramAtSame, ProgramAtCmp
  <2>2. wheel' = [p EXCEPT !.inL2a = FALSE]
    BY <1>3 DEF LeaveL2a
  <2> HIDE DEF p
  <2>3. /\ wheel'.armed = wheel.armed /\ wheel'.at = wheel.at
        /\ wheel'.low = wheel.low /\ wheel'.inL2a = FALSE
        /\ wheel'.cmp = CmpOf(wheel.armed, wheel.at)
    BY <2>1, <2>2 DEF SameSlots, IsWheel
  <2>4. Programmed'
    BY <1>3, <2>3 DEF Programmed, Ready, CmpOf
  <2>5. Close'
    BY <1>1, <1>3, <2>3 DEF Close, ArmedNear, LowLate, TicksNear, WorkNear
  <2>6. QED
    BY <2>4, <2>5
<1> HIDE DEF hits, s
<1>4. CASE /\ hits # {} /\ s \in LowSlots
           /\ wheel' = [Taken(wheel, s) EXCEPT !.low = @ \cup {s}]
           /\ UNCHANGED l2aVars
  <2>1. /\ wheel'.armed = wheel.armed \ {s} /\ wheel'.at = wheel.at
        /\ wheel'.low = wheel.low \cup {s} /\ wheel'.inL2a = wheel.inL2a
    BY <1>1, <1>4 DEF Taken, IsWheel
  <2>2. Programmed'
    BY <1>1, <1>4, <2>1 DEF Programmed, Ready, l2aVars
  <2>3. Close'
    BY <1>1, <1>2, <1>4, <2>1
       DEF Close, ArmedNear, LowLate, TicksNear, WorkNear, l2aVars
  <2>4. QED
    BY <2>2, <2>3
<1>5. CASE /\ hits # {} /\ s \notin LowSlots /\ wheel' = Taken(wheel, s)
           /\ l2a' = "call" /\ slot' = s /\ due' = wheel.at[s]
  <2>1. /\ wheel'.armed = wheel.armed \ {s} /\ wheel'.at = wheel.at
        /\ wheel'.low = wheel.low /\ wheel'.inL2a = wheel.inL2a
    BY <1>1, <1>5 DEF Taken, IsWheel
  <2>2. Programmed'
    BY <1>1, <1>5, <2>1 DEF Programmed, Ready
  <2>3. Close'
    BY <1>1, <1>2, <1>5, <2>1
       DEF Close, ArmedNear, LowLate, TicksNear, WorkNear
  <2>4. QED
    BY <2>2, <2>3
<1>6. QED
  BY <1>3, <1>4, <1>5 DEF L2aLook, hits, s

(* A tick leaves the queue at its head: the others stay close.             *)
LEMMA TailNear ==
  ASSUME NEW tk \in Seq(Time), tk # <<>>, TicksNear(tk)
  PROVE  Tail(tk) \in Seq(Time) /\ TicksNear(Tail(tk))
<1>1. Tail(tk) \in Seq(Time) /\ Len(Tail(tk)) = Len(tk) - 1 /\ Len(tk) \in Nat
  OBVIOUS
<1>2. \A i \in 1..Len(Tail(tk)) : Tail(tk)[i] = tk[i + 1]
  OBVIOUS
<1>3. \A i \in 1..Len(Tail(tk)) : i + 1 \in 1..Len(tk)
  BY <1>1
<1>4. QED
  BY <1>1, <1>2, <1>3 DEF TicksNear

LEMMA UrgentExact ==
  ASSUME WheelInv, Programmed, Close, UrgentBegin \/ UrgentTurn
  PROVE  Programmed' /\ Close'
<1>0. ticks \in Seq(Time) /\ TicksNear(ticks) /\ WorkNear
  BY DEF WheelInv, Types, Close
<1>1. CASE UrgentBegin
  <2>1. WorkNear'
    BY <1>0, <1>1 DEF UrgentBegin, WorkNear, lowVars
  <2>2. QED
    BY <1>1, <2>1, StillExact DEF UrgentBegin
<1>2. CASE /\ UrgentTurn /\ ticks # <<>> /\ ticks' = Tail(ticks)
           /\ UNCHANGED <<l2a, wheel, urg>>
  <2>1. TicksNear(ticks')
    BY <1>0, <1>2, TailNear
  <2>2. now' = now /\ wheel' = wheel /\ l2a' = l2a
    BY <1>2 DEF UrgentTurn
  <2>3. Programmed'
    BY <2>2 DEF Programmed, Ready, CmpOf
  <2>4. Close'
    BY <1>0, <1>2, <2>1, <2>2
       DEF UrgentTurn, Close, ArmedNear, LowLate, TicksNear, WorkNear, lowVars
  <2>5. QED
    BY <2>3, <2>4
<1>3. CASE /\ UrgentTurn /\ l2a' = "look"
           /\ ArmUrgent(urg, ticks) /\ UNCHANGED ticks
  <2>1. /\ ticks' \in Seq(Time) /\ TicksNear(ticks') /\ ArmUrgent(urg, ticks')
        /\ now' = now /\ l2a = "urgent"
    BY <1>0, <1>3 DEF UrgentTurn
  <2>2. WorkNear'
    BY <1>0, <1>3 DEF UrgentTurn, WorkNear, lowVars
  <2>3. QED
    BY <1>3, <2>1, <2>2, RearmExact
<1>4. QED
  BY <1>1, <1>2, <1>3 DEF UrgentTurn

(* A periodic slot is armed again within a period of now.                  *)
LEMMA ArmExact ==
  ASSUME WheelInv, Programmed, Close, NEW s \in Slots,
         NEW d \in Time, Near(now, d),
         s \notin wheel.low, wheel' = Arm(wheel, s, d), now' = now,
         ticks' = ticks, WorkNear',
         l2a' \in {"look", "call", "urgent", "rearm"} <=>
           l2a \in {"look", "call", "urgent", "rearm"}
  PROVE  Programmed' /\ Close'
<1>1. WheelType(wheel)
  BY DEF WheelInv, Types
<1>2. /\ wheel'.armed = wheel.armed \cup {s} /\ wheel'.low = wheel.low
      /\ wheel'.at[s] = d /\ \A t \in Slots \ {s} : wheel'.at[t] = wheel.at[t]
  BY <1>1, ArmSets
<1>3. Ready(wheel') /\ wheel'.inL2a = wheel.inL2a
  BY <1>1, EditReady
<1>4. Programmed'
  <2>1. Ready(wheel)'
    BY <1>3 DEF Ready, CmpOf
  <2>2. QED
    BY <1>3, <2>1 DEF Programmed
<1>5. ArmedNear(wheel)' /\ LowLate(wheel)'
  <2>1. wheel.armed \subseteq Slots /\ wheel.low \subseteq Slots
    BY <1>1 DEF WheelType, LowSlots, Slots
  <2>2. QED
    BY <1>2, <2>1 DEF Close, ArmedNear, LowLate
<1>6. QED
  BY <1>4, <1>5 DEF Close, TicksNear

LEMMA WdogExact ==
  ASSUME WheelInv, Programmed, Close, WdogNext \/ WdogArm
  PROVE  Programmed' /\ Close'
<1>0. WorkNear /\ now \in Time /\ due \in Time
  BY DEF WheelInv, Types, Close
<1>1. CASE WdogNext
  <2>1. Near(now, NextPeriod(due))
    BY <1>0, <1>1, NextNear DEF WdogNext, WorkNear
  <2>2. WorkNear'
    BY <1>0, <1>1, <2>1 DEF WdogNext, WorkNear, lowVars
  <2>3. QED
    BY <1>1, <2>2, StillExact DEF WdogNext, tickVars
<1>2. CASE WdogArm
  <2>1. Near(now, due)
    BY <1>0, <1>2 DEF WdogArm, WorkNear
  <2>2. WorkNear'
    BY <1>0, <1>2 DEF WdogArm, WorkNear, lowVars
  <2>3. WDOG \in Slots /\ WDOG \notin wheel.low
    BY DEF WheelInv, Types, WheelType, LowSlots, Slots, WDOG, TEST
  <2>4. /\ wheel' = Arm(wheel, WDOG, due) /\ now' = now /\ ticks' = ticks
        /\ l2a = "rearm" /\ l2a' = "look"
    BY <1>2 DEF WdogArm, tickVars
  <2>5. QED
    BY <1>0, <2>1, <2>2, <2>3, <2>4, ArmExact
<1>3. QED
  BY <1>1, <1>2

LEMMA ItemExact ==
  ASSUME WheelInv, Programmed, Close, L2b PROVE Programmed' /\ Close'
<1>0. ticks \in Seq(Time) /\ TicksNear(ticks) /\ WorkNear
  BY DEF WheelInv, Types, Close
<1>1. CASE \E isTick \in BOOLEAN : ItemStart(isTick)
  <2>1. PICK isTick \in BOOLEAN : ItemStart(isTick)
    BY <1>1
  <2>2. TicksNear(ticks')
    BY <1>0, <2>1, TailNear DEF ItemStart
  <2>3. now' = now /\ wheel' = wheel /\ l2a' = l2a
    BY <2>1 DEF ItemStart, l2aVars
  <2>4. Programmed'
    BY <2>3 DEF Programmed, Ready, CmpOf
  <2>5. WorkNear'
    BY <1>0, <2>1 DEF ItemStart, WorkNear, l2aVars, lowVars
  <2>6. Close'
    BY <2>2, <2>3, <2>5 DEF Close, ArmedNear, LowLate, TicksNear
  <2>7. QED
    BY <2>4, <2>6
<1>2. CASE ItemEnd
  <2>1. /\ ticks' \in Seq(Time) /\ TicksNear(ticks') /\ ArmUrgent(urg, ticks')
        /\ now' = now /\ l2a' = l2a
    BY <1>0, <1>2 DEF ItemEnd, ItemArm, l2aVars
  <2>2. WorkNear'
    BY <1>0, <1>2 DEF ItemEnd, WorkNear, l2aVars, lowVars
  <2>3. QED
    BY <2>1, <2>2, RearmExact
<1>3. QED
  BY <1>1, <1>2 DEF L2b

LEMMA ThreadExact ==
  ASSUME WheelInv, Programmed, Close, Thread PROVE Programmed' /\ Close'
<1>0. WorkNear /\ now \in Time /\ testDue \in Time /\ WheelType(wheel)
  BY DEF WheelInv, Types, Close
<1>1. CASE LowTake
  <2>1. TEST \in wheel.low /\ IsWheel(wheel)
    BY <1>0, <1>1 DEF LowTake, WheelType, LowSlots
  <2>2. Late(now, wheel.at[TEST])
    BY <2>1 DEF Close, LowLate
  <2>3. /\ wheel'.armed = wheel.armed /\ wheel'.at = wheel.at
        /\ wheel'.low = wheel.low \ {TEST} /\ wheel'.inL2a = wheel.inL2a
        /\ wheel'.cmp = wheel.cmp
    BY <1>1, <2>1 DEF LowTake, IsWheel
  <2>4. Programmed'
    BY <1>1, <2>3 DEF LowTake, Programmed, Ready, CmpOf, l2aVars
  <2>5. WorkNear'
    BY <1>0, <1>1, <2>2 DEF LowTake, WorkNear, l2aVars
  <2>6. Close'
    BY <1>1, <2>3, <2>5
       DEF LowTake, Close, ArmedNear, LowLate, TicksNear, tickVars
  <2>7. QED
    BY <2>4, <2>6
<1>2. CASE TestNext
  <2>1. Near(now, NextPeriod(testDue))
    BY <1>0, <1>2, NextNear DEF TestNext, WorkNear
  <2>2. WorkNear'
    BY <1>0, <1>2, <2>1 DEF TestNext, WorkNear, l2aVars
  <2>3. QED
    BY <1>2, <2>2, StillExact DEF TestNext, l2aVars, tickVars
<1>3. CASE TestArm
  <2>1. Near(now, testDue)
    BY <1>0, <1>3 DEF TestArm, WorkNear
  <2>2. WorkNear'
    BY <1>0, <1>3 DEF TestArm, WorkNear, l2aVars
  <2>3. TEST \in Slots /\ TEST \notin wheel.low
    BY <1>3 DEF TestArm, WheelInv, PeriodicOnce, Slots
  <2>4. /\ wheel' = Arm(wheel, TEST, testDue) /\ now' = now /\ ticks' = ticks
        /\ l2a' = l2a
    BY <1>3 DEF TestArm, tickVars, l2aVars
  <2>5. QED
    BY <1>0, <2>1, <2>2, <2>3, <2>4, ArmExact
<1>4. QED
  BY <1>1, <1>2, <1>3 DEF Thread

LEMMA InitExact == Init => ExactInv
<1> SUFFICES ASSUME Init PROVE ExactInv
  OBVIOUS
<1>1. WheelInv
  BY InitInv
<1> DEFINE w == [armed |-> {WDOG, TEST}, at |-> [s \in Slots |-> Period],
                 low |-> {}, inL2a |-> FALSE, cmp |-> Off]
<1>2. /\ IsWheel(w) /\ w.armed = {WDOG, TEST} /\ w.low = {}
      /\ w.at = [s \in Slots |-> Period] /\ w.inL2a = FALSE
  BY DEF IsWheel
<1>3. wheel = ProgramAt(w)
  BY DEF Init
<1> HIDE DEF w
<1>4. SameSlots(wheel, w) /\ wheel.cmp = CmpOf(w.armed, w.at)
  BY <1>2, <1>3, ProgramAtSame, ProgramAtCmp
<1>5. Programmed
  BY <1>2, <1>4 DEF Init, Programmed, Ready, SameSlots
<1>6. Near(now, Period)
  <2>1. now = 0
    BY DEF Init
  <2>2. Wrap(Period) = Period
    BY Bounds, Turns
  <2>3. Period \in Window /\ 0 + Period = Period
    BY Bounds DEF Window
  <2>4. QED
    BY <2>1, <2>2, <2>3 DEF Near
<1>7. ArmedNear(wheel) /\ LowLate(wheel)
  BY <1>2, <1>4, <1>6 DEF SameSlots, ArmedNear, LowLate, Slots
<1>8. Close
  BY <1>7 DEF Init, Close, TicksNear, WorkNear
<1>9. QED
  BY <1>1, <1>5, <1>8 DEF ExactInv

LEMMA StepExact == ExactInv /\ [Next]_vars => ExactInv'
<1> SUFFICES ASSUME ExactInv, [Next]_vars PROVE ExactInv'
  OBVIOUS
<1>0. WheelInv /\ Programmed /\ Close /\ WheelInv'
  BY StepInv DEF ExactInv
<1>1. CASE Advance BY <1>0, <1>1, AdvanceExact DEF ExactInv
<1>2. CASE Post9494 BY <1>0, <1>2, PostExact DEF ExactInv
<1>3. CASE L1Tick \/ L1Other BY <1>0, <1>3, L1Exact DEF ExactInv
<1>4. CASE L2a
  BY <1>0, <1>4, TransitExact, LookExact, UrgentExact, WdogExact DEF L2a, ExactInv
<1>5. CASE L2b BY <1>0, <1>5, ItemExact DEF ExactInv
<1>6. CASE Thread BY <1>0, <1>6, ThreadExact DEF ExactInv
<1>7. CASE UNCHANGED vars
  <2>1. WorkNear'
    BY <1>0, <1>7 DEF vars, Close, WorkNear, l2aVars, lowVars
  <2>2. QED
    BY <1>0, <1>7, <2>1, StillExact DEF vars, ExactInv, l2aVars, tickVars
<1>8. QED
  BY <1>1, <1>2, <1>3, <1>4, <1>5, <1>6, <1>7 DEF Next

LEMMA AlwaysExact == Spec => []ExactInv
BY InitExact, StepExact, PTL DEF Spec

LEMMA ExactNow == ExactInv => CompareExact
<1> SUFFICES ASSUME ExactInv, l2a \in {"off", "enter", "out"}
             PROVE  Mti <=> \E s \in wheel.armed : Reached(now, wheel.at[s])
  BY DEF CompareExact
<1>1. /\ now \in Time /\ wheel.armed \in SUBSET Slots
      /\ wheel.at \in [Slots -> Time]
  BY DEF ExactInv, WheelInv, Types, WheelType
<1>2. wheel.cmp = CmpOf(wheel.armed, wheel.at)
  BY DEF ExactInv, Programmed, Ready
<1>3. \A s \in wheel.armed : Near(now, wheel.at[s])
  BY DEF ExactInv, Close, ArmedNear
<1>4. QED
  BY <1>1, <1>2, <1>3, CmpComes DEF Mti
-----------------------------------------------------------------------------
(* The compare is programmed from whatever L1, L2a, the items and the      *)
(* thread left armed (wheel_program): no deadline is lost, none fires for  *)
(* nothing, across the wrap of TIMER.                                      *)
THEOREM CompareIsExact == Spec => []CompareExact
BY AlwaysExact, ExactNow, PTL

(* With MTI unmasked and the wheel's interrupt not under way, an overdue   *)
(* tick raises MTI: the packet never waits on the engine queue alone.      *)
THEOREM OverdueTickRaises == Spec => []OverdueRaises
<1>1. ExactInv => OverdueRaises
  <2>1. SUFFICES ASSUME ExactInv, ticks # <<>>, ~l2b, l2a = "off",
                        Reached(now, Head(ticks) + Gap)
                 PROVE  Mti
    BY DEF OverdueRaises
  <2>2. Right(wheel, urg, ticks)
    BY <2>1 DEF ExactInv, WheelInv, Urgent, UrgentCall
  <2>3. URGENT \in wheel.armed /\ wheel.at[URGENT] = Wrap(Head(ticks) + Gap)
    BY <2>1, <2>2 DEF Right
  <2>4. Reached(now, Wrap(Head(ticks) + Gap))
    <3>1. now \in Time /\ Head(ticks) \in Time
      BY <2>1 DEF ExactInv, WheelInv, Types
    <3>2. QED
      BY <2>1, <3>1, SumWraps
  <2>5. QED
    BY <2>1, <2>3, <2>4, ExactNow DEF CompareExact
<1>2. QED
  BY <1>1, AlwaysExact, PTL
=============================================================================
