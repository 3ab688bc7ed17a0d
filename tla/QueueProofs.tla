----------------------------- MODULE QueueProofs -----------------------------
(***************************************************************************)
(* The two queues, for every size and every bound: the jobs' ring with the *)
(* zoom (JobRing), and the ordered engine queue with DONE (EngineQueue).   *)
(* The ring: PageSaved is not inductive, ZoomInv adds what the jobs know   *)
(* at each step; NeverStranded and ImplementsCart rest on RingInv, which   *)
(* says that C6 is queued alone (SetUp) and that a session B6 or F4 closed *)
(* has its job still queued (WayBack).  The engine queue: IInv gives every *)
(* number its arrival, orders mailboxes, queue and held posts by it, and   *)
(* says which arrivals are still to run.                                   *)
(***************************************************************************)
EXTENDS JobRing, EngineQueue, SequenceTheorems, FiniteSetTheorems,
        WellFoundedInduction, TLAPS

\* A number less than one turn away wraps once at most: the ring's indices and the
\* synth's arrival numbers both count modulo a size.
LEMMA OneTurn ==
  ASSUME NEW M \in Nat \ {0}, NEW x \in Int, -M <= x, x < 2 * M
  PROVE  x % M = IF x < 0 THEN x + M ELSE IF x < M THEN x ELSE x - M
<1> DEFINE q == x \div M  r == x % M
<1>1. M \in Nat /\ M > 0
  OBVIOUS
<1>2. q \in Int /\ r \in 0..(M - 1) /\ x = M * q + r
  BY <1>1
<1> HIDE DEF q, r
<1>3. CASE q <= -2
  <2>1. M * q <= -2 * M
    BY <1>1, <1>2, <1>3
  <2>2. QED
    BY <1>1, <1>2, <2>1
<1>4. CASE q = -1
  BY <1>1, <1>2, <1>4 DEF r
<1>5. CASE q = 0
  BY <1>1, <1>2, <1>5 DEF r
<1>6. CASE q = 1
  BY <1>1, <1>2, <1>6 DEF r
<1>7. CASE q >= 2
  <2>1. M * q >= 2 * M
    BY <1>1, <1>2, <1>7
  <2>2. QED
    BY <1>1, <1>2, <2>1
<1>8. QED
  BY <1>2, <1>3, <1>4, <1>5, <1>6, <1>7

\* A masked index is a slot.
LEMMA IndexIsSlot == ASSUME NEW i \in Int PROVE Index(i) \in Slots
BY RingAssumption DEF Index, Slots

\* A push of one or two jobs leaves a ring of jobs, bit 14 set.
LEMMA PushTypes ==
  ASSUME RingTypeOK, NEW js \in Seq(Jobs), Push(js)
  PROVE  wr' \in Slots /\ rd' \in Slots /\ slots' \in [Slots -> Jobs] /\ bit14' \in BOOLEAN
<1>1. wr \in Int /\ Len(js) \in Nat
  BY RingAssumption DEF RingTypeOK, Slots
<1>2. wr' \in Slots
  BY <1>1, IndexIsSlot DEF Push
<1>3. slots' \in [Slots -> Jobs]
  <2>1. SUFFICES ASSUME NEW i \in Slots
                 PROVE  (LET k == (i - wr) % N IN
                         IF k < Len(js) THEN js[k + 1] ELSE slots[i]) \in Jobs
    BY DEF Push
  <2>2. (i - wr) % N \in Nat
    BY <1>1, RingAssumption DEF Slots
  <2>3. slots[i] \in Jobs
    BY DEF RingTypeOK
  <2>4. QED
    BY <1>1, <2>2, <2>3
<1>4. QED
  BY <1>2, <1>3 DEF Push, RingTypeOK

\* What the jobs know at each step: an open session was saved, except where job 10 has
\* restored and not yet closed it; jobs 8 and 9 go on only once it was saved.
ZoomInv ==
  /\ sess.open => sess.saved \/ step = "close"
  /\ step \in {"open", "zoom"} => sess.saved
  /\ sess.saved => zoom.save = "game"
  /\ zoom.ramdp = "stamps" => sess.saved

LEMMA RingTypeInit == RingInit => RingTypeOK
<1>1. SUFFICES ASSUME RingInit PROVE RingTypeOK
  OBVIOUS
<1>2. 0 \in Slots
  BY RingAssumption DEF Slots
<1>3. QED
  BY <1>1, <1>2 DEF RingInit, RingTypeOK, Jobs

LEMMA RingTypeStep == RingTypeOK /\ ZoomInv /\ [RingNext]_jobRingVars => RingTypeOK'
<1>1. SUFFICES ASSUME RingTypeOK, ZoomInv, [RingNext]_jobRingVars PROVE RingTypeOK'
  OBVIOUS
<1>2. /\ <<"C6">> \in Seq(Jobs) /\ <<"MW">> \in Seq(Jobs) /\ <<"job">> \in Seq(Jobs)
      /\ <<"F4", "SAVE">> \in Seq(Jobs) /\ <<"RESCALE">> \in Seq(Jobs)
      /\ <<"RESTORE">> \in Seq(Jobs)
  BY DEF Jobs
<1>3. CASE PostC6
  BY <1>1, <1>2, <1>3, PushTypes DEF PostC6, RingTypeOK
<1>4. CASE PostJob
  BY <1>1, <1>2, <1>4, PushTypes DEF PostJob, RingTypeOK
<1>5. CASE PostF4
  BY <1>1, <1>2, <1>5, PushTypes DEF PostF4, F4Sess, RingTypeOK
<1>6. CASE PostF5
  BY <1>1, <1>2, <1>6, PushTypes DEF PostF5, RingTypeOK
<1>7. CASE PostB6
  <2>1. sess' \in [open : BOOLEAN, pending : BOOLEAN, saved : BOOLEAN]
    BY <1>1, <1>7 DEF PostB6, B6Sess, RingTypeOK
  <2>2. wr' \in Slots /\ rd' \in Slots /\ slots' \in [Slots -> Jobs] /\ bit14' \in BOOLEAN
    BY <1>1, <1>2, <1>7, PushTypes DEF PostB6, ringVars, RingTypeOK
  <2>3. QED
    BY <1>1, <1>7, <2>1, <2>2 DEF PostB6, RingTypeOK
<1>8. CASE RunC6
  <2>1. wr' \in Slots /\ rd' \in Slots /\ slots' \in [Slots -> Jobs] /\ bit14' \in BOOLEAN
    BY <1>1, <1>2, <1>8, PushTypes DEF RunC6, ringVars, RingTypeOK
  <2>2. QED
    BY <1>1, <1>8, <2>1 DEF RunC6, RingTypeOK
<1>9. CASE End
  <2>1. rd' \in Slots
    BY <1>1, <1>9, IndexIsSlot, RingAssumption DEF End, RingTypeOK, Slots
  <2>2. bit14' \in BOOLEAN
    BY <1>9 DEF End, Bit14After
  <2>3. QED
    BY <1>1, <1>9, <2>1, <2>2 DEF End, RingTypeOK
<1>10. CASE RunSave
  BY <1>1, <1>10 DEF RunSave, SaveTaken, ringVars, RingTypeOK
<1>11. CASE RunRestore
  <2>1. zoom' \in [ramdp : {"game", "stamps"}, save : {"none", "game", "stamps"}]
    BY <1>1, <1>11 DEF RunRestore, ZoomInv, RingTypeOK
  <2>2. sess' \in [open : BOOLEAN, pending : BOOLEAN, saved : BOOLEAN]
    BY <1>1, <1>11 DEF RunRestore, RingTypeOK
  <2>3. QED
    BY <1>1, <1>11, <2>1, <2>2 DEF RunRestore, ringVars, RingTypeOK
<1>12. CASE GamePlays \/ Begin \/ RunPlain \/ Open \/ RunRescale \/ CopyOut \/ Unpend \/ Close
  BY <1>1, <1>12
     DEF GamePlays, Begin, RunPlain, Open, RunRescale, CopyOut, Unpend, Close, ringVars, RingTypeOK
<1>13. CASE UNCHANGED jobRingVars
  BY <1>1, <1>13 DEF jobRingVars, RingTypeOK
<1>14. QED
  BY <1>1, <1>3, <1>4, <1>5, <1>6, <1>7, <1>8, <1>9, <1>10, <1>11, <1>12, <1>13
     DEF RingNext, Posts, JobStep

LEMMA ZoomStep == RingTypeOK /\ ZoomInv /\ [RingNext]_jobRingVars => ZoomInv'
<1>1. SUFFICES ASSUME RingTypeOK, ZoomInv, [RingNext]_jobRingVars PROVE ZoomInv'
  OBVIOUS
<1>2. CASE PostC6 \/ GamePlays \/ PostJob
  BY <1>1, <1>2 DEF PostC6, GamePlays, PostJob, ZoomInv
<1>3. CASE PostF4 \/ PostF5
  BY <1>1, <1>3 DEF PostF4, PostF5, F4Sess, ZoomInv, RingTypeOK
<1>4. CASE PostB6
  BY <1>1, <1>4 DEF PostB6, B6Sess, ZoomInv, RingTypeOK
<1>5. CASE Begin \/ RunPlain \/ RunC6 \/ End
  BY <1>1, <1>5 DEF Begin, RunPlain, RunC6, End, ZoomInv
<1>6. CASE RunSave
  BY <1>1, <1>6 DEF RunSave, SaveTaken, ZoomInv, RingTypeOK
<1>7. CASE Open
  BY <1>1, <1>7 DEF Open, ZoomInv, RingTypeOK
<1>8. CASE RunRescale
  BY <1>1, <1>8 DEF RunRescale, ZoomInv
<1>9. CASE CopyOut
  BY <1>1, <1>9 DEF CopyOut, ZoomInv, RingTypeOK
<1>10. CASE Unpend
  BY <1>1, <1>10 DEF Unpend, ZoomInv, RingTypeOK
<1>11. CASE RunRestore
  BY <1>1, <1>11 DEF RunRestore, ZoomInv, RingTypeOK
<1>12. CASE Close
  BY <1>1, <1>12 DEF Close, ZoomInv, RingTypeOK
<1>13. CASE UNCHANGED jobRingVars
  BY <1>1, <1>13 DEF jobRingVars, ZoomInv
<1>14. QED
  BY <1>1, <1>2, <1>3, <1>4, <1>5, <1>6, <1>7, <1>8, <1>9, <1>10, <1>11, <1>12, <1>13
     DEF RingNext, Posts, JobStep

LEMMA RingInvHolds == RingSpec => [](RingTypeOK /\ ZoomInv)
<1>1. RingInit => ZoomInv
  BY DEF RingInit, ZoomInv
<1>2. QED
  BY RingTypeInit, <1>1, RingTypeStep, ZoomStep, PTL DEF RingSpec
-----------------------------------------------------------------------------
\* The indices stay inside the ring and every slot holds a job, for every ring size.
THEOREM RingTypes == RingSpec => []RingTypeOK
BY RingInvHolds, PTL

\* Jobs 8 to 10: whatever the posts between their steps, stamps lie over the page of
\* RAMDP only while the save holds what the game had there.
THEOREM PageIsSaved == RingSpec => []PageSaved
<1>1. ZoomInv => PageSaved
  BY DEF ZoomInv, PageSaved
<1>2. QED
  BY RingInvHolds, <1>1, PTL
-----------------------------------------------------------------------------
(* The ring as a queue.                                                    *)

LEMMA RingSize == N \in Nat \ {0} /\ N >= 4 /\ GameOrder \in BOOLEAN
BY RingAssumption

LEMMA RingTurn ==
  ASSUME NEW x \in Int, -N <= x, x < 2 * N
  PROVE  x % N = IF x < 0 THEN x + N ELSE IF x < N THEN x ELSE x - N
<1>1. N \in Nat \ {0}
  BY RingSize
<1>2. QED
  BY <1>1, OneTurn

LEMMA IndexIs ==
  ASSUME NEW i \in Int, 0 <= i, i < 2 * N
  PROVE  Index(i) = IF i < N THEN i ELSE i - N
<1>1. -N <= i
  BY RingSize
<1>2. QED
  BY <1>1, RingTurn DEF Index

\* What lies between two indices of a ring is a sequence of fewer than N jobs.
Between(w, r, s) == [i \in 1..((w - r) % N) |-> s[Index(r + i - 1)]]

LEMMA RingIsQueue ==
  ASSUME NEW w \in Slots, NEW r \in Slots, NEW s \in [Slots -> Jobs]
  PROVE  /\ Between(w, r, s) \in Seq(Jobs)
         /\ Len(Between(w, r, s)) = (IF r <= w THEN w - r ELSE w - r + N)
         /\ \A i \in 1..Len(Between(w, r, s)) : Between(w, r, s)[i] =
               s[IF r + i - 1 < N THEN r + i - 1 ELSE r + i - 1 - N]
<1> DEFINE n == (w - r) % N  q == Between(w, r, s)
<1>1. w \in 0..(N - 1) /\ r \in 0..(N - 1)
  BY DEF Slots
<1>2. n = (IF r <= w THEN w - r ELSE w - r + N) /\ n \in 0..(N - 1)
  <2>1. w - r \in Int /\ -N <= w - r /\ w - r < 2 * N
    BY <1>1, RingSize
  <2>2. n = IF w - r < 0 THEN w - r + N ELSE IF w - r < N THEN w - r ELSE w - r - N
    BY <2>1, RingTurn
  <2>3. QED
    BY <1>1, <2>2, RingSize
<1> HIDE DEF n
<1>3. \A i \in 1..n : /\ Index(r + i - 1) = (IF r + i - 1 < N THEN r + i - 1 ELSE r + i - 1 - N)
                      /\ Index(r + i - 1) \in Slots
  <2>1. SUFFICES ASSUME NEW i \in 1..n
                 PROVE  /\ Index(r + i - 1) = (IF r + i - 1 < N THEN r + i - 1 ELSE r + i - 1 - N)
                        /\ Index(r + i - 1) \in Slots
    OBVIOUS
  <2>2. r + i - 1 \in Int /\ 0 <= r + i - 1 /\ r + i - 1 < 2 * N
    BY <1>1, <1>2, RingSize
  <2>3. Index(r + i - 1) \in Slots
    BY <2>2, IndexIsSlot
  <2> DEFINE x == r + i - 1
  <2>4. Index(x) = IF x < N THEN x ELSE x - N
    BY <2>2, IndexIs
  <2>5. x - N = r + i - 1 - N
    BY <1>1, <1>2, RingSize
  <2>6. QED
    BY <2>3, <2>4, <2>5
<1>4. q = [i \in 1..n |-> s[Index(r + i - 1)]]
  BY DEF n, Between
<1> HIDE DEF q
<1>5. q \in [1..n -> Jobs]
  BY <1>3, <1>4
<1>6. q \in Seq(Jobs) /\ Len(q) = n
  <2>1. q \in Seq(Jobs) /\ DOMAIN q = 1..n
    BY <1>2, <1>5
  <2>2. DOMAIN q = 1..Len(q) /\ Len(q) \in Nat
    BY <2>1, LenProperties
  <2>3. QED
    BY <1>2, <2>1, <2>2
<1>7. QED
  BY <1>2, <1>3, <1>4, <1>6 DEF q

LEMMA QueuedIs ==
  ASSUME RingTypeOK
  PROVE  /\ Queued \in Seq(Jobs) /\ Len(Queued) = (IF rd <= wr THEN wr - rd ELSE wr - rd + N)
         /\ \A i \in 1..Len(Queued) :
              Queued[i] = slots[IF rd + i - 1 < N THEN rd + i - 1 ELSE rd + i - 1 - N]
         /\ wr = rd <=> Queued = <<>>
         /\ wr # rd => Queued[1] = Job /\ Head(Queued) = Job /\ Len(Queued) >= 1
<1>1. wr \in 0..(N - 1) /\ rd \in 0..(N - 1) /\ wr \in Slots /\ rd \in Slots
      /\ slots \in [Slots -> Jobs]
  BY DEF RingTypeOK, Slots
<1>2. Queued = Between(wr, rd, slots)
  BY DEF Queued, Between
<1>3. /\ Queued \in Seq(Jobs) /\ Len(Queued) = (IF rd <= wr THEN wr - rd ELSE wr - rd + N)
      /\ \A i \in 1..Len(Queued) :
           Queued[i] = slots[IF rd + i - 1 < N THEN rd + i - 1 ELSE rd + i - 1 - N]
  BY <1>1, <1>2, RingIsQueue
<1>4. wr = rd <=> Len(Queued) = 0
  BY <1>1, <1>3, RingSize
<1>5. Len(Queued) = 0 <=> Queued = <<>>
  BY <1>3
<1>6. ASSUME wr # rd PROVE Queued[1] = Job /\ Head(Queued) = Job /\ Len(Queued) >= 1
  <2>1. Len(Queued) >= 1 /\ 1 \in 1..Len(Queued) /\ rd + 1 - 1 = rd /\ rd < N
    BY <1>1, <1>3, <1>4, <1>6, RingSize
  <2>2. Queued[1] = slots[rd]
    BY <1>3, <2>1
  <2>3. QED
    BY <1>3, <2>1, <2>2 DEF Job
<1>7. QED
  BY <1>3, <1>4, <1>5, <1>6

\* A push into a ring with room puts its jobs behind the others, and loses none.
LEMMA PushQueued ==
  ASSUME RingTypeOK, NEW js \in Seq(Jobs), Push(js), Len(Queued) + Len(js) < N
  PROVE  Queued' = Queued \o js /\ bit14' = TRUE
<1> DEFINE n == Len(Queued)  m == Len(js)
<1>1. /\ wr \in 0..(N - 1) /\ rd \in 0..(N - 1) /\ n \in Nat /\ m \in Nat /\ n + m < N
      /\ n = (IF rd <= wr THEN wr - rd ELSE wr - rd + N)
  BY QueuedIs DEF RingTypeOK, Slots
<1>2. wr' = (IF wr + m < N THEN wr + m ELSE wr + m - N) /\ rd' = rd
  BY <1>1, IndexIs, RingSize DEF Push
<1>3. wr' \in Slots /\ rd' \in Slots /\ slots' \in [Slots -> Jobs]
  BY PushTypes
<1>4. Queued' = Between(wr', rd', slots')
  BY DEF Queued, Between
<1>5. /\ Queued' \in Seq(Jobs) /\ Len(Queued') = (IF rd' <= wr' THEN wr' - rd' ELSE wr' - rd' + N)
      /\ \A i \in 1..Len(Queued') :
           Queued'[i] = slots'[IF rd' + i - 1 < N THEN rd' + i - 1 ELSE rd' + i - 1 - N]
  BY <1>3, <1>4, RingIsQueue
<1>6. Len(Queued') = n + m
  BY <1>1, <1>2, <1>5, RingSize
<1>7. \A i \in 1..(n + m) : Queued'[i] = (Queued \o js)[i]
  <2>1. SUFFICES ASSUME NEW i \in 1..(n + m) PROVE Queued'[i] = (Queued \o js)[i]
    OBVIOUS
  <2> DEFINE at == IF rd + i - 1 < N THEN rd + i - 1 ELSE rd + i - 1 - N
             k == (at - wr) % N
  <2>2. at \in 0..(N - 1) /\ at \in Slots
    BY <1>1, RingSize DEF Slots
  <2>3. k = (IF wr <= at THEN at - wr ELSE at - wr + N)
    <3>1. at - wr \in Int /\ -N <= at - wr /\ at - wr < 2 * N
      BY <1>1, <2>2, RingSize
    <3>2. k = IF at - wr < 0 THEN at - wr + N ELSE IF at - wr < N THEN at - wr ELSE at - wr - N
      BY <3>1, RingTurn
    <3>3. QED
      BY <1>1, <2>2, <3>2, RingSize
  <2>4. Queued'[i] = slots'[at]
    BY <1>2, <1>5, <1>6
  <2>5. slots'[at] = IF k < m THEN js[k + 1] ELSE slots[at]
    BY <2>2 DEF Push
  <2> HIDE DEF at, k, n, m
  <2>6. CASE i <= n
    <3>1. ~(k < m)
      BY <1>1, <2>2, <2>3, <2>6, RingSize DEF at
    <3>2. Queued[i] = slots[at]
      BY <1>1, <2>6, QueuedIs DEF at, n
    <3>3. (Queued \o js)[i] = Queued[i]
      BY <2>6, <1>1, QueuedIs DEF n
    <3>4. QED
      BY <2>4, <2>5, <3>1, <3>2, <3>3
  <2>7. CASE i > n
    <3>1. k = i - n - 1 /\ k < m
      BY <1>1, <2>1, <2>2, <2>3, <2>7, RingSize DEF at
    <3>2. (Queued \o js)[i] = js[i - n]
      BY <2>1, <2>7, <1>1, QueuedIs DEF n, m
    <3>3. k + 1 = i - n
      BY <1>1, <2>1, <3>1
    <3>4. QED
      BY <2>4, <2>5, <3>1, <3>2, <3>3
  <2>8. i <= n \/ i > n
    BY <1>1, <2>1
  <2>9. QED
    BY <2>6, <2>7, <2>8
<1>8. Queued \o js \in Seq(Jobs) /\ Len(Queued \o js) = n + m
  BY QueuedIs
<1>9. Queued' = Queued \o js
  BY <1>5, <1>6, <1>7, <1>8, SeqEqual
<1>10. QED
  BY <1>9 DEF Push

\* The end of a job step takes the job it ran, and bit 14 tells whether one is left.
LEMMA PopQueued ==
  ASSUME RingTypeOK, wr # rd, End
  PROVE  Queued' = Tail(Queued) /\ bit14' = (Tail(Queued) # <<>>)
<1> DEFINE n == Len(Queued)
<1>1. /\ wr \in 0..(N - 1) /\ rd \in 0..(N - 1) /\ n \in Nat /\ n >= 1 /\ n < N
      /\ n = (IF rd <= wr THEN wr - rd ELSE wr - rd + N)
  BY QueuedIs, RingSize DEF RingTypeOK, Slots
<1>2. /\ rd' = (IF rd + 1 < N THEN rd + 1 ELSE 0) /\ wr' = wr /\ slots' = slots
      /\ bit14' = (wr # rd')
  BY <1>1, IndexIs, RingSize DEF End, Bit14After
<1>3. wr' \in Slots /\ rd' \in Slots /\ slots' \in [Slots -> Jobs]
  BY <1>1, <1>2, RingSize DEF RingTypeOK, Slots
<1>4. Queued' = Between(wr', rd', slots')
  BY DEF Queued, Between
<1>5. /\ Queued' \in Seq(Jobs) /\ Len(Queued') = (IF rd' <= wr' THEN wr' - rd' ELSE wr' - rd' + N)
      /\ \A i \in 1..Len(Queued') :
           Queued'[i] = slots'[IF rd' + i - 1 < N THEN rd' + i - 1 ELSE rd' + i - 1 - N]
  BY <1>3, <1>4, RingIsQueue
<1>6. Len(Queued') = n - 1
  BY <1>1, <1>2, <1>5, RingSize
<1>7. /\ Tail(Queued) \in Seq(Jobs) /\ Len(Tail(Queued)) = n - 1
      /\ \A i \in 1..(n - 1) : Tail(Queued)[i] = Queued[i + 1]
  BY <1>1, QueuedIs
<1>8. \A i \in 1..(n - 1) : Queued'[i] = Queued[i + 1]
  <2>1. SUFFICES ASSUME NEW i \in 1..(n - 1) PROVE Queued'[i] = Queued[i + 1]
    OBVIOUS
  <2>2. i + 1 \in 1..n /\ i \in 1..Len(Queued') /\ rd + (i + 1) - 1 = rd + i
    BY <1>1, <1>6
  <2>3. Queued[i + 1] = slots[IF rd + i < N THEN rd + i ELSE rd + i - N]
    BY <2>2, QueuedIs
  <2>4. Queued'[i] = slots[IF rd' + i - 1 < N THEN rd' + i - 1 ELSE rd' + i - 1 - N]
    BY <1>2, <1>5, <2>2
  <2>5. (IF rd' + i - 1 < N THEN rd' + i - 1 ELSE rd' + i - 1 - N)
          = (IF rd + i < N THEN rd + i ELSE rd + i - N)
    BY <1>1, <1>2, <2>1, RingSize
  <2>6. QED
    BY <2>3, <2>4, <2>5
<1>9. Queued' = Tail(Queued)
  BY <1>5, <1>6, <1>7, <1>8, SeqEqual
<1>10. wr # rd' <=> n - 1 # 0
  BY <1>1, <1>2, RingSize
<1>11. bit14' = (Tail(Queued) # <<>>)
  <2>1. Tail(Queued) # <<>> <=> Len(Tail(Queued)) # 0
    BY <1>7, EmptySeq
  <2>2. bit14' \in BOOLEAN
    BY <1>2
  <2>3. QED
    BY <1>2, <1>7, <1>10, <2>1, <2>2
<1>12. QED
  BY <1>9, <1>11

-----------------------------------------------------------------------------
(* The queue's moves, under the game's own order: C6 first, and alone.     *)

\* C6 is queued alone, so that its set-up's push finds room; it is never queued
\* again.  The 68000 waits until bit 14 tells it the queue is empty.
SetUp ==
  /\ GameOrder
  /\ step # "idle" => Queued # <<>>
  /\ game = "start" => Queued = <<>>
  /\ game = "waits" =>
       /\ \/ Queued = <<>> \/ Queued = <<"C6">> \/ Queued = <<"MW">>
          \/ Queued = <<"C6", "MW">> /\ step = "end"
       /\ Queued # <<>> => bit14
  /\ game = "plays" => \A i \in 1..Len(Queued) : Queued[i] # "C6"

LEMMA RoomIs ==
  ASSUME RingTypeOK
  PROVE  /\ ~Full(1) => Len(Queued) + 1 < N
         /\ RoomForF4 => Len(Queued) + 2 < N
<1>1. /\ wr \in 0..(N - 1) /\ rd \in 0..(N - 1) /\ N \in Nat /\ N >= 4
      /\ Len(Queued) = (IF rd <= wr THEN wr - rd ELSE wr - rd + N)
  BY QueuedIs, RingSize DEF RingTypeOK, Slots
<1>2. ASSUME NEW n \in 1..2 PROVE (wr + n) % N = IF wr + n < N THEN wr + n ELSE wr + n - N
  <2>1. wr + n \in Int /\ 0 <= wr + n /\ wr + n < 2 * N
    BY <1>1
  <2>2. Index(wr + n) = IF wr + n < N THEN wr + n ELSE wr + n - N
    BY <1>1, <2>1, IndexIs
  <2>3. QED
    BY <2>2 DEF Index
<1>3. /\ (wr + 1) % N = IF wr + 1 < N THEN wr + 1 ELSE wr + 1 - N
      /\ (wr + 2) % N = IF wr + 2 < N THEN wr + 2 ELSE wr + 2 - N
  BY <1>2
<1>4. QED
  BY <1>1, <1>3 DEF Full, RoomForF4

\* What each step does to the queue and to bit 14.
LEMMA QueueMoves ==
  ASSUME RingTypeOK, SetUp
  PROVE  /\ PostC6 => Queued' = <<"C6">> /\ bit14' = TRUE
         /\ PostJob => Queued' = Queued \o <<"job">> /\ bit14' = TRUE
         /\ PostF4 => Queued' = Queued \o <<"F4", "SAVE">> /\ bit14' = TRUE
         /\ PostF5 => Queued' = Queued \o <<"RESCALE">> /\ bit14' = TRUE
         /\ PostB6 => \/ Queued' = Queued \o <<"RESTORE">> /\ bit14' = TRUE
                      \/ sess' = sess /\ Queued' = Queued /\ bit14' = bit14
         /\ RunC6 => \/ Queued = <<"C6">> /\ Queued' = <<"C6", "MW">> /\ bit14' = TRUE
                     \/ Queued' = Queued /\ bit14' = bit14
         /\ End => /\ Queued # <<>> /\ Queued' = Tail(Queued)
                   /\ bit14' = (Tail(Queued) # <<>>)
         /\ UNCHANGED ringVars => Queued' = Queued /\ bit14' = bit14
<1>1. /\ <<"C6">> \in Seq(Jobs) /\ <<"MW">> \in Seq(Jobs) /\ <<"job">> \in Seq(Jobs)
      /\ <<"F4", "SAVE">> \in Seq(Jobs) /\ <<"RESCALE">> \in Seq(Jobs)
      /\ <<"RESTORE">> \in Seq(Jobs)
  BY DEF Jobs
<1>2. Queued \in Seq(Jobs) /\ Len(Queued) \in Nat /\ N \in Nat /\ N >= 4
  BY QueuedIs, RingSize
<1>3. UNCHANGED ringVars => Queued' = Queued /\ bit14' = bit14
  BY DEF ringVars, Queued
<1>4. ASSUME PostC6 PROVE Queued' = <<"C6">> /\ bit14' = TRUE
  <2>1. Queued = <<>> /\ Len(Queued) + Len(<<"C6">>) < N
    BY <1>2, <1>4 DEF PostC6, SetUp
  <2>2. Queued' = Queued \o <<"C6">> /\ bit14' = TRUE
    BY <1>1, <1>4, <2>1, PushQueued DEF PostC6
  <2>3. QED
    BY <1>1, <2>1, <2>2, ConcatEmptySeq
<1>5. ASSUME PostJob PROVE Queued' = Queued \o <<"job">> /\ bit14' = TRUE
  BY <1>1, <1>5, RoomIs, PushQueued DEF PostJob
<1>6. ASSUME PostF4 PROVE Queued' = Queued \o <<"F4", "SAVE">> /\ bit14' = TRUE
  BY <1>1, <1>6, RoomIs, PushQueued DEF PostF4
<1>7. ASSUME PostF5 PROVE Queued' = Queued \o <<"RESCALE">> /\ bit14' = TRUE
  BY <1>1, <1>7, RoomIs, PushQueued DEF PostF5
<1>8. ASSUME PostB6
      PROVE  \/ Queued' = Queued \o <<"RESTORE">> /\ bit14' = TRUE
             \/ sess' = sess /\ Queued' = Queued /\ bit14' = bit14
  <2>1. CASE Full(1)
    BY <1>3, <1>8, <2>1 DEF PostB6, B6Sess
  <2>2. CASE ~Full(1)
    BY <1>1, <1>8, <2>2, RoomIs, PushQueued DEF PostB6
  <2>3. QED
    BY <2>1, <2>2
<1>9. ASSUME RunC6
      PROVE  \/ Queued = <<"C6">> /\ Queued' = <<"C6", "MW">> /\ bit14' = TRUE
             \/ Queued' = Queued /\ bit14' = bit14
  <2>1. CASE UNCHANGED ringVars
    BY <1>3, <2>1
  <2>2. CASE Push(<<"MW">>)
    <3>1. Queued # <<>> /\ Queued[1] = "C6" /\ 1 \in 1..Len(Queued)
      BY <1>9, QueuedIs DEF RunC6, SetUp
    <3>2. Queued = <<"C6">>
      BY <1>9, <3>1 DEF RunC6, SetUp, RingTypeOK
    <3>3. Len(Queued) + Len(<<"MW">>) < N
      BY <1>2, <3>2
    <3>4. Queued' = Queued \o <<"MW">> /\ bit14' = TRUE
      BY <1>1, <2>2, <3>3, PushQueued
    <3>5. <<"C6">> \o <<"MW">> = <<"C6", "MW">>
      <4>1. /\ <<"C6">> \o <<"MW">> \in Seq(Jobs) /\ Len(<<"C6">> \o <<"MW">>) = 2
            /\ (<<"C6">> \o <<"MW">>)[1] = "C6" /\ (<<"C6">> \o <<"MW">>)[2] = "MW"
        BY <1>1
      <4>2. <<"C6", "MW">> \in Seq(Jobs) /\ Len(<<"C6", "MW">>) = 2
        BY DEF Jobs
      <4>3. \A i \in 1..2 : (<<"C6">> \o <<"MW">>)[i] = <<"C6", "MW">>[i]
        BY <4>1
      <4>4. QED
        BY <4>1, <4>2, <4>3, SeqEqual
    <3>6. QED
      BY <3>2, <3>4, <3>5
  <2>3. QED
    BY <1>9, <2>1, <2>2 DEF RunC6
<1>10. ASSUME End
       PROVE  Queued # <<>> /\ Queued' = Tail(Queued) /\ bit14' = (Tail(Queued) # <<>>)
  BY <1>10, QueuedIs, PopQueued DEF End, SetUp
<1>11. QED
  BY <1>3, <1>4, <1>5, <1>6, <1>7, <1>8, <1>9, <1>10

Behind(q, js) ==
  /\ q \o js \in Seq(Jobs) /\ Len(q \o js) = Len(q) + Len(js)
  /\ \A i \in 1..Len(q) : (q \o js)[i] = q[i]
  /\ \A i \in 1..Len(js) : (q \o js)[Len(q) + i] = js[i]

LEMMA BehindIs == ASSUME NEW q \in Seq(Jobs), NEW js \in Seq(Jobs) PROVE Behind(q, js)
BY DEF Behind

LEMMA SetUpStep == ASSUME RingTypeOK, SetUp, [RingNext]_jobRingVars PROVE SetUp'
<1>1. /\ Queued \in Seq(Jobs) /\ Len(Queued) \in Nat /\ GameOrder
      /\ Queued # <<>> => Len(Queued) >= 1 /\ Job = Queued[1]
  BY QueuedIs DEF SetUp
<1>2. CASE PostC6
  BY <1>1, <1>2, QueueMoves DEF PostC6, SetUp
<1>3. CASE GamePlays
  <2>1. Queued' = Queued /\ bit14' = bit14 /\ Queued = <<>>
    BY <1>3, QueueMoves DEF GamePlays, SetUp
  <2>2. QED
    BY <1>1, <1>3, <2>1 DEF GamePlays, SetUp
<1>4. ASSUME NEW js \in Seq(Jobs), Queued' = Queued \o js, Len(js) >= 1, game = "plays",
             game' = game, step' = step, \A i \in 1..Len(js) : js[i] # "C6"
      PROVE  SetUp'
  <2>1. /\ Queued' \in Seq(Jobs) /\ Len(Queued') = Len(Queued) + Len(js)
        /\ \A i \in 1..Len(Queued) : Queued'[i] = Queued[i]
        /\ \A i \in 1..Len(js) : Queued'[Len(Queued) + i] = js[i]
    BY <1>1, <1>4, BehindIs DEF Behind
  <2>2. ASSUME NEW i \in 1..Len(Queued') PROVE Queued'[i] # "C6"
    <3>1. CASE i <= Len(Queued)
      BY <1>1, <1>4, <2>1, <2>2, <3>1 DEF SetUp
    <3>2. CASE i > Len(Queued)
      <4>1. i - Len(Queued) \in 1..Len(js) /\ Len(Queued) + (i - Len(Queued)) = i
        BY <1>1, <1>4, <2>1, <2>2, <3>2
      <4>2. QED
        BY <1>4, <2>1, <4>1
    <3>3. QED
      BY <1>1, <2>1, <2>2, <3>1, <3>2
  <2>3. Queued' # <<>>
    BY <1>1, <1>4, <2>1
  <2>4. QED
    BY <1>1, <1>4, <2>2, <2>3 DEF SetUp
<1>5. /\ <<"job">> \in Seq(Jobs) /\ <<"F4", "SAVE">> \in Seq(Jobs)
      /\ <<"RESCALE">> \in Seq(Jobs) /\ <<"RESTORE">> \in Seq(Jobs)
      /\ Len(<<"job">>) >= 1 /\ Len(<<"F4", "SAVE">>) >= 1
      /\ Len(<<"RESCALE">>) >= 1 /\ Len(<<"RESTORE">>) >= 1
      /\ \A i \in 1..Len(<<"job">>) : <<"job">>[i] # "C6"
      /\ \A i \in 1..Len(<<"F4", "SAVE">>) : <<"F4", "SAVE">>[i] # "C6"
      /\ \A i \in 1..Len(<<"RESCALE">>) : <<"RESCALE">>[i] # "C6"
      /\ \A i \in 1..Len(<<"RESTORE">>) : <<"RESTORE">>[i] # "C6"
  BY DEF Jobs
<1>6. CASE PostJob
  <2>1. Queued' = Queued \o <<"job">> /\ game = "plays" /\ game' = game /\ step' = step
    BY <1>1, <1>6, QueueMoves DEF PostJob, MayPost
  <2>2. QED
    BY <1>4, <1>5, <2>1
<1>7. CASE PostF4
  <2>1. Queued' = Queued \o <<"F4", "SAVE">> /\ game = "plays" /\ game' = game /\ step' = step
    BY <1>1, <1>7, QueueMoves DEF PostF4, MayPost
  <2>2. QED
    BY <1>4, <1>5, <2>1
<1>8. CASE PostF5
  <2>1. Queued' = Queued \o <<"RESCALE">> /\ game = "plays" /\ game' = game /\ step' = step
    BY <1>1, <1>8, QueueMoves DEF PostF5, MayPost
  <2>2. QED
    BY <1>4, <1>5, <2>1
<1>9. CASE PostB6
  <2>1. CASE Queued' = Queued \o <<"RESTORE">>
    <3>1. game = "plays" /\ game' = game /\ step' = step
      BY <1>1, <1>9 DEF PostB6, MayPost
    <3>2. QED
      BY <1>4, <1>5, <2>1, <3>1
  <2>2. CASE Queued' = Queued
    BY <1>1, <1>9, <2>2 DEF PostB6, MayPost, SetUp
  <2>3. QED
    BY <1>9, <2>1, <2>2, QueueMoves
<1>10. CASE Begin
  <2>1. Queued' = Queued /\ bit14' = bit14 /\ Queued # <<>>
    BY <1>10, QueueMoves, QueuedIs DEF Begin
  <2>2. ~(Queued = <<"C6", "MW">> /\ game = "waits")
    BY <1>10 DEF Begin, SetUp
  <2>3. QED
    BY <1>10, <2>1, <2>2 DEF Begin, SetUp
<1>11. CASE RunC6
  <2>1. Queued # <<>> /\ step' = "end" /\ game' = game /\ game # "start" /\ game # "plays"
    <3>1. Queued # <<>> /\ Queued[1] = "C6" /\ 1 \in 1..Len(Queued)
      BY <1>1, <1>11 DEF RunC6, SetUp
    <3>2. QED
      BY <1>11, <3>1 DEF RunC6, SetUp
  <2>2. CASE Queued = <<"C6">> /\ Queued' = <<"C6", "MW">> /\ bit14' = TRUE
    BY <1>1, <2>1, <2>2 DEF SetUp
  <2>3. CASE Queued' = Queued /\ bit14' = bit14
    BY <1>1, <2>1, <2>3 DEF SetUp
  <2>4. QED
    BY <1>11, <2>2, <2>3, QueueMoves
<1>12. CASE RunPlain \/ RunSave \/ Open \/ RunRescale \/ CopyOut \/ Unpend \/ RunRestore \/ Close
  <2>1. step # "idle" /\ step # "end" /\ game' = game /\ UNCHANGED ringVars
    BY <1>12
       DEF RunPlain, RunSave, Open, RunRescale, CopyOut, Unpend, RunRestore, Close, ringVars
  <2>2. Queued' = Queued /\ bit14' = bit14 /\ Queued # <<>>
    BY <2>1, QueueMoves DEF SetUp
  <2>3. QED
    BY <1>1, <2>1, <2>2 DEF SetUp
<1>13. CASE End
  <2>1. /\ Queued # <<>> /\ Queued' = Tail(Queued) /\ bit14' = (Tail(Queued) # <<>>)
        /\ step' = "idle" /\ game' = game
    BY <1>13, QueueMoves DEF End
  <2>2. /\ Tail(Queued) \in Seq(Jobs) /\ Len(Tail(Queued)) = Len(Queued) - 1
        /\ \A i \in 1..Len(Tail(Queued)) : Tail(Queued)[i] = Queued[i + 1]
    BY <1>1, <2>1
  <2>3. game = "plays" => \A i \in 1..Len(Queued') : Queued'[i] # "C6"
    BY <1>1, <2>1, <2>2 DEF SetUp
  <2>4. game = "waits" => Queued' = <<>> \/ Queued' = <<"MW">>
    <3>1. /\ Tail(<<"C6">>) = <<>> /\ Tail(<<"MW">>) = <<>>
          /\ Tail(<<"C6", "MW">>) = <<"MW">>
      OBVIOUS
    <3>2. QED
      BY <2>1, <3>1 DEF SetUp
  <2>5. QED
    BY <1>1, <2>1, <2>3, <2>4 DEF SetUp
<1>14. CASE UNCHANGED jobRingVars
  BY <1>14, QueueMoves DEF jobRingVars, ringVars, SetUp
<1>15. QED
  BY <1>2, <1>3, <1>6, <1>7, <1>8, <1>9, <1>10, <1>11, <1>12, <1>13, <1>14
     DEF RingNext, Posts, JobStep

-----------------------------------------------------------------------------
(* The zoom's way back, and the queue as the cart chip's.                  *)

\* A queued SAVE or RESTORE that has still to open the session or to give the page back.
Returns(i) == Queued[i] \in {"SAVE", "RESTORE"} /\ (i = 1 => step \in {"idle", "body", "open"})

\* B6 and F4 close a session before their jobs run: until one has, it is in the queue.
WayBack ==
  /\ zoom.ramdp = "stamps" \/ step = "zoom" =>
       sess.open \/ \E i \in 1..Len(Queued) : Returns(i)
  /\ step = "close" => zoom.ramdp # "stamps"

LEMMA WayBackStep ==
  ASSUME RingTypeOK, ZoomInv, SetUp, WayBack, [RingNext]_jobRingVars PROVE WayBack'
<1>1. /\ Queued \in Seq(Jobs) /\ Len(Queued) \in Nat
      /\ Queued # <<>> => Len(Queued) >= 1 /\ Job = Queued[1]
  BY QueuedIs
<1>2. ASSUME NEW js \in Seq(Jobs), Queued' = Queued \o js, step' = step, zoom' = zoom,
             \/ sess'.open = sess.open
             \/ \E i \in 1..Len(js) : js[i] \in {"SAVE", "RESTORE"} /\ (Queued # <<>> \/ step = "idle")
      PROVE  WayBack'
  <2>1. /\ Queued' \in Seq(Jobs) /\ Len(Queued') = Len(Queued) + Len(js) /\ Len(js) \in Nat
        /\ \A i \in 1..Len(Queued) : Queued'[i] = Queued[i]
        /\ \A i \in 1..Len(js) : Queued'[Len(Queued) + i] = js[i]
    BY <1>1, <1>2, BehindIs DEF Behind
  <2>2. \A i \in 1..Len(Queued) : Returns(i) => i \in 1..Len(Queued') /\ Returns(i)'
    BY <1>1, <1>2, <2>1 DEF Returns
  <2>3. CASE sess'.open = sess.open
    BY <1>2, <2>2, <2>3 DEF WayBack
  <2>4. CASE \E i \in 1..Len(js) : js[i] \in {"SAVE", "RESTORE"} /\ (Queued # <<>> \/ step = "idle")
    <3>1. PICK i \in 1..Len(js) : js[i] \in {"SAVE", "RESTORE"} /\ (Queued # <<>> \/ step = "idle")
      BY <2>4
    <3>2. PICK k \in 1..Len(Queued') : Queued'[k] = js[i] /\ (k = 1 => step = "idle")
      BY <1>1, <2>1, <3>1
    <3>3. Returns(k)'
      BY <1>2, <3>1, <3>2 DEF Returns
    <3>4. QED
      BY <1>2, <3>2, <3>3 DEF WayBack
  <2>5. QED
    BY <1>2, <2>3, <2>4
<1>3. /\ <<"C6">> \in Seq(Jobs) /\ <<"job">> \in Seq(Jobs) /\ <<"F4", "SAVE">> \in Seq(Jobs)
      /\ <<"RESCALE">> \in Seq(Jobs) /\ <<"RESTORE">> \in Seq(Jobs)
      /\ 2 \in 1..Len(<<"F4", "SAVE">>) /\ <<"F4", "SAVE">>[2] = "SAVE"
      /\ 1 \in 1..Len(<<"RESTORE">>) /\ <<"RESTORE">>[1] = "RESTORE"
  BY DEF Jobs
<1>4. CASE PostC6
  <2>1. Queued = <<>> /\ step = "idle" /\ UNCHANGED <<step, sess, zoom>>
    BY <1>4 DEF PostC6, SetUp
  <2>2. \A i \in 1..Len(Queued) : FALSE
    BY <2>1
  <2>3. QED
    BY <2>1, <2>2 DEF WayBack
<1>5. CASE PostJob
  <2>1. Queued' = Queued \o <<"job">> /\ UNCHANGED <<step, sess, zoom>>
    BY <1>5, QueueMoves DEF PostJob
  <2>2. QED
    BY <1>2, <1>3, <2>1
<1>6. CASE PostF4
  <2>1. Queued' = Queued \o <<"F4", "SAVE">> /\ UNCHANGED <<step, zoom>>
    BY <1>6, QueueMoves DEF PostF4
  <2>2. Queued # <<>> \/ step = "idle"
    BY DEF SetUp
  <2>3. QED
    BY <1>2, <1>3, <2>1, <2>2
<1>7. CASE PostF5
  <2>1. Queued' = Queued \o <<"RESCALE">> /\ UNCHANGED <<step, zoom>> /\ sess'.open = sess.open
    BY <1>7, QueueMoves DEF PostF5, RingTypeOK
  <2>2. QED
    BY <1>2, <1>3, <2>1
<1>8. CASE PostB6
  <2>1. UNCHANGED <<step, zoom>> /\ (Queued # <<>> \/ step = "idle")
    BY <1>8 DEF PostB6, SetUp
  <2>2. CASE Queued' = Queued \o <<"RESTORE">>
    BY <1>2, <1>3, <2>1, <2>2
  <2>3. CASE sess' = sess /\ Queued' = Queued
    BY <2>1, <2>3 DEF WayBack, Returns
  <2>4. QED
    BY <1>8, <2>2, <2>3, QueueMoves
<1>9. ASSUME Queued' = Queued, step # "idle", step # "end",
             \/ step = "body" /\ Job \notin {"SAVE", "RESTORE"}
             \/ step \notin {"body", "open"},
             sess'.open = sess.open, step' # "close",
             (zoom'.ramdp = "stamps" \/ step' = "zoom") =>
               zoom.ramdp = "stamps" \/ step = "zoom" \/ sess.open
      PROVE  WayBack'
  <2>1. Queued # <<>>
    BY <1>9 DEF SetUp
  <2>2. \A i \in 1..Len(Queued) : Returns(i) => i # 1
    BY <1>1, <1>9, <2>1 DEF Returns
  <2>3. \A i \in 1..Len(Queued) : Returns(i) => Returns(i)'
    BY <1>9, <2>2 DEF Returns
  <2>4. QED
    BY <1>9, <2>3 DEF WayBack
<1>10. ringVars' = ringVars => Queued' = Queued
  BY QueueMoves
<1>11. CASE Begin
  <2>1. Queued' = Queued /\ step = "idle" /\ step' = "body" /\ sess' = sess /\ zoom' = zoom
    BY <1>10, <1>11 DEF Begin
  <2>2. QED
    BY <2>1 DEF WayBack, Returns
<1>12. CASE RunPlain
  BY <1>9, <1>10, <1>12 DEF RunPlain
<1>13. CASE RunC6
  <2>1. Job = "C6" /\ step = "body" /\ step' = "end" /\ sess' = sess /\ zoom' = zoom
    BY <1>13 DEF RunC6
  <2>2. CASE Queued' = Queued
    BY <1>9, <2>1, <2>2
  <2>3. CASE Queued = <<"C6">>
    <3>1. \A i \in 1..Len(Queued) : ~Returns(i)
      BY <2>3 DEF Returns
    <3>2. sess.open \/ zoom.ramdp # "stamps"
      BY <3>1 DEF WayBack
    <3>3. QED
      BY <2>1, <3>2 DEF WayBack
  <2>4. QED
    BY <1>13, <2>2, <2>3, QueueMoves
<1>14. CASE RunSave
  <2>1. Queued' = Queued /\ step = "body" /\ step' = "open" /\ sess'.open = sess.open
        /\ zoom'.ramdp = zoom.ramdp
    BY <1>10, <1>14 DEF RunSave, RingTypeOK
  <2>2. \A i \in 1..Len(Queued) : Returns(i) => Returns(i)'
    BY <2>1 DEF Returns
  <2>3. QED
    BY <2>1, <2>2 DEF WayBack
<1>15. CASE Open
  BY <1>15 DEF Open, WayBack, RingTypeOK
<1>16. CASE RunRescale
  BY <1>9, <1>10, <1>16 DEF RunRescale
<1>17. CASE CopyOut
  BY <1>9, <1>10, <1>17 DEF CopyOut, RingTypeOK
<1>18. CASE Unpend
  BY <1>9, <1>10, <1>18 DEF Unpend, RingTypeOK
<1>19. CASE RunRestore
  BY <1>19 DEF RunRestore, ZoomInv, WayBack, RingTypeOK
<1>20. CASE Close
  BY <1>20 DEF Close, WayBack
<1>21. CASE End
  <2>1. /\ Queued # <<>> /\ Queued' = Tail(Queued) /\ step = "end" /\ step' = "idle"
        /\ sess' = sess /\ zoom' = zoom
    BY <1>21, QueueMoves DEF End
  <2>2. /\ Tail(Queued) \in Seq(Jobs) /\ Len(Tail(Queued)) = Len(Queued) - 1
        /\ \A i \in 1..Len(Tail(Queued)) : Tail(Queued)[i] = Queued[i + 1]
    BY <1>1, <2>1
  <2>3. ASSUME NEW i \in 1..Len(Queued), Returns(i)
        PROVE  i - 1 \in 1..Len(Queued') /\ Returns(i - 1)'
    <3>1. i # 1 /\ Queued[i] \in {"SAVE", "RESTORE"}
      BY <2>1, <2>3 DEF Returns
    <3>2. i - 1 \in 1..Len(Queued') /\ i - 1 + 1 = i
      BY <1>1, <2>1, <2>2, <2>3, <3>1
    <3>3. Queued'[i - 1] = Queued[i]
      BY <2>1, <2>2, <3>2
    <3>4. QED
      BY <2>1, <3>1, <3>2, <3>3 DEF Returns
  <2>4. QED
    BY <2>1, <2>3 DEF WayBack
<1>22. CASE UNCHANGED jobRingVars
  BY <1>10, <1>22 DEF jobRingVars, ringVars, WayBack, Returns
<1>23. QED
  <2>1. CASE GamePlays
    BY <1>10, <2>1 DEF GamePlays, WayBack, Returns
  <2>2. QED
    BY <1>4, <1>5, <1>6, <1>7, <1>8, <1>11, <1>12, <1>13, <1>14, <1>15, <1>16, <1>17, <1>18,
       <1>19, <1>20, <1>21, <1>22, <2>1 DEF RingNext, Posts, JobStep

RingInv == RingTypeOK /\ ZoomInv /\ SetUp /\ WayBack

LEMMA EmptyRing == ASSUME RingInit PROVE Queued = <<>>
BY RingTypeInit, QueuedIs DEF RingInit

LEMMA RingInvIs == ASSUME GameOrder PROVE RingSpec => []RingInv
<1>1. ASSUME RingInit PROVE RingInv
  <2>1. \A i \in 1..Len(Queued) : FALSE
    BY <1>1, EmptyRing
  <2>2. RingTypeOK /\ ZoomInv
    BY <1>1, RingTypeInit DEF RingInit, ZoomInv
  <2>3. QED
    BY <1>1, <2>1, <2>2, EmptyRing DEF RingInit, RingInv, SetUp, WayBack
<1>2. RingInv /\ [RingNext]_jobRingVars => RingInv'
  BY RingTypeStep, ZoomStep, SetUpStep, WayBackStep DEF RingInv
<1>3. QED
  BY <1>1, <1>2, PTL DEF RingSpec

\* With nothing queued, stamps over the page mean that B6 still finds a session to end.
THEOREM PageComesBack == ASSUME GameOrder PROVE RingSpec => []NeverStranded
<1>1. RingInv => NeverStranded
  <2>1. SUFFICES ASSUME RingInv, zoom.ramdp = "stamps", wr = rd PROVE sess.open
    BY DEF NeverStranded
  <2>2. Queued = <<>>
    BY <2>1, QueuedIs DEF RingInv
  <2>3. \A i \in 1..Len(Queued) : FALSE
    BY <2>2
  <2>4. QED
    BY <2>1, <2>3 DEF RingInv, WayBack
<1>2. QED
  BY RingInvIs, <1>1, PTL

LEMMA AppendedIs ==
  ASSUME NEW q \in Seq(Jobs), NEW j \in Jobs PROVE q \o <<j>> = Append(q, j)
OBVIOUS

LEMMA CartStep ==
  ASSUME RingInv, [RingNext]_jobRingVars PROVE [Cart!CartNext]_(Cart!cartVars)
<1>1. /\ RingTypeOK /\ SetUp /\ Queued \in Seq(Jobs)
      /\ {"C6", "MW", "job", "F4", "SAVE", "RESCALE", "RESTORE"} = Jobs
  BY QueuedIs DEF RingInv, Jobs
<1>2. ASSUME NEW j \in Jobs, Queued' = Queued \o <<j>>, bit14' = TRUE,
             (step' # "idle") = (step # "idle")
      PROVE  Cart!CartNext
  <2>1. Cart!Post(j)
    BY <1>1, <1>2, AppendedIs DEF Cart!Post
  <2>2. QED
    BY <2>1 DEF Cart!CartNext
<1>3. ASSUME Queued' = Queued, bit14' = bit14, (step' # "idle") = (step # "idle")
      PROVE  UNCHANGED Cart!cartVars
  BY <1>3 DEF Cart!cartVars
<1>4. CASE PostC6
  <2>1. Queued' = Queued \o <<"C6">> /\ bit14' = TRUE
    <3>1. Queued = <<>> /\ <<"C6">> \in Seq(Jobs)
      BY <1>1, <1>4 DEF PostC6, SetUp, Jobs
    <3>2. Queued \o <<"C6">> = <<"C6">>
      BY <3>1, ConcatEmptySeq
    <3>3. QED
      BY <1>1, <1>4, <3>2, QueueMoves
  <2>2. QED
    BY <1>1, <1>2, <1>4, <2>1 DEF PostC6
<1>5. CASE PostJob
  BY <1>1, <1>2, <1>5, QueueMoves DEF PostJob
<1>6. CASE PostF4
  <2>1. Cart!PostTwo("F4", "SAVE")
    BY <1>1, <1>6, QueueMoves DEF PostF4, Cart!PostTwo
  <2>2. QED
    BY <1>1, <2>1 DEF Cart!CartNext
<1>7. CASE PostF5
  BY <1>1, <1>2, <1>7, QueueMoves DEF PostF5
<1>8. CASE PostB6
  BY <1>1, <1>2, <1>3, <1>8, QueueMoves DEF PostB6
<1>9. CASE RunC6
  <2>1. step = "body" /\ step' = "end"
    BY <1>9 DEF RunC6
  <2>2. CASE Queued = <<"C6">> /\ Queued' = <<"C6", "MW">> /\ bit14' = TRUE
    <3>1. Queued' = Append(Queued, "MW")
      BY <2>2
    <3>2. Cart!Post("MW")
      BY <2>1, <2>2, <3>1 DEF Cart!Post
    <3>3. QED
      BY <1>1, <3>2 DEF Cart!CartNext
  <2>3. CASE Queued' = Queued /\ bit14' = bit14
    BY <1>3, <2>1, <2>3
  <2>4. QED
    BY <1>1, <1>9, <2>2, <2>3, QueueMoves
<1>10. CASE Begin
  <2>1. Queued # <<>> /\ Queued' = Queued /\ bit14' = bit14 /\ step = "idle" /\ step' = "body"
    BY <1>1, <1>10, QueueMoves, QueuedIs DEF Begin
  <2>2. Cart!Start
    BY <2>1 DEF Cart!Start
  <2>3. QED
    BY <2>2 DEF Cart!CartNext
<1>11. CASE End
  <2>1. /\ Queued' = Tail(Queued) /\ bit14' = (Tail(Queued) # <<>>)
        /\ step = "end" /\ step' = "idle"
    BY <1>1, <1>11, QueueMoves DEF End
  <2>2. Cart!Finish
    BY <2>1 DEF Cart!Finish
  <2>3. QED
    BY <2>2 DEF Cart!CartNext
<1>12. CASE RunPlain \/ RunSave \/ Open \/ RunRescale \/ CopyOut \/ Unpend \/ RunRestore \/ Close
  <2>1. step # "idle" /\ step' # "idle" /\ UNCHANGED ringVars
    BY <1>12
       DEF RunPlain, RunSave, Open, RunRescale, CopyOut, Unpend, RunRestore, Close, ringVars
  <2>2. QED
    BY <1>1, <1>3, <2>1, QueueMoves
<1>13. CASE GamePlays \/ UNCHANGED jobRingVars
  <2>1. UNCHANGED ringVars /\ step' = step
    BY <1>13 DEF GamePlays, jobRingVars, ringVars
  <2>2. QED
    BY <1>1, <1>3, <2>1, QueueMoves
<1>14. QED
  BY <1>4, <1>5, <1>6, <1>7, <1>8, <1>9, <1>10, <1>11, <1>12, <1>13
     DEF RingNext, Posts, JobStep

\* The ring, for every size, is the cart chip's job queue: no post is lost or overwritten,
\* the jobs run in the order of the posts, one at a time, and bit 14 is set while one is
\* queued or running.  It needs the game's order, because C6's set-up does not look for room.
THEOREM RingIsCart == ASSUME GameOrder PROVE RingSpec => ImplementsCart
<1>1. RingInit => Cart!CartInit
  BY EmptyRing DEF RingInit, Cart!CartInit
<1>2. RingInv /\ [RingNext]_jobRingVars => [Cart!CartNext]_(Cart!cartVars)
  BY CartStep
<1>3. QED
  BY <1>1, <1>2, RingInvIs, PTL DEF RingSpec, ImplementsCart
-----------------------------------------------------------------------------
(* The engine queue: the arrivals, and the invariant.                      *)

Arrivals == 0..MaxPosts

(* The arrival that a number of the register stands for.                   *)
Of(x) == CHOOSE k \in Arrivals : Num(k) = x
SeenAt == Of(seen)
DoneAt == Of(done)

Counted ==
  /\ arr \in Arrivals
  /\ SeenAt \in 0..arr /\ seen = Num(SeenAt)
  /\ DoneAt \in 0..SeenAt /\ done = Num(DoneAt)

MailType == [at : {"free", "posted", "held"}, num : Arrivals, kind : Kinds]
ItemType == [num : Arrivals, kind : Kinds \cup {"call"}]

Shape ==
  /\ mail \in [Mbox -> MailType]
  /\ l1 \in BOOLEAN /\ urgent \in BOOLEAN /\ run \in BOOLEAN /\ late \in BOOLEAN
  /\ todo \in {<<>>, <<"A">>, <<"B">>, <<"A", "B">>, <<"B", "A">>}
  /\ items \in Seq(ItemType)
  /\ tim6 \in Seq(Arrivals) /\ stage \in Stages
  /\ instants \in 0..MaxInstants /\ calls \in 0..MaxCalls
  /\ newest \in Arrivals
  /\ stage # "idle" => items # <<>>
  /\ todo # <<>> => l1

(* What waits in the mailboxes: a posted arrival is newer than the newest  *)
(* served, and L1's list is the oldest of them, in their order.            *)
Mails ==
  /\ \A m \in Mbox : mail[m].at # "free" => mail[m].num \in 1..arr
  /\ \A m \in Mbox : mail[m].at = "posted" => SeenAt < mail[m].num
  /\ \A i \in 1..Len(todo) : mail[todo[i]].at = "posted"
  /\ Len(todo) = 2 => mail[todo[1]].num < mail[todo[2]].num
  /\ \A i \in 1..Len(todo), m \in Mbox :
       mail[m].at = "posted" /\ (\A j \in 1..Len(todo) : todo[j] # m)
         => mail[todo[i]].num < mail[m].num

(* The queue is in arrival order, behind DONE and before what is held back. *)
InQueue(its, ml) ==
  /\ \A i \in 1..Len(its) : its[i].num # NoArrival => DoneAt < its[i].num /\ its[i].num <= SeenAt
  /\ \A i, j \in 1..Len(its) :
       i < j /\ its[i].num # NoArrival /\ its[j].num # NoArrival => its[i].num < its[j].num
  /\ \A m \in Mbox : ml[m].at = "held" =>
       /\ DoneAt < ml[m].num /\ ml[m].num <= SeenAt
       /\ \A i \in 1..Len(its) : its[i].num < ml[m].num
  /\ ml["A"].at # "free" /\ ml["B"].at # "free" => ml["A"].num # ml["B"].num
Ordered == InQueue(items, mail)

(* The arrivals whose engine part is still to come.                        *)
Coming(its, ml) ==
  {its[i].num : i \in 1..Len(its)} \cup
  {ml[m].num : m \in {b \in Mbox : ml[b].at # "free" /\ Pushes(ml[b].kind)}}
Ran == IF stage = "put" THEN {NoArrival, Head(items).num} ELSE {NoArrival}
Owed ==
  /\ due = Coming(items, mail) \ Ran
  /\ newest <= SeenAt
  /\ \A k \in due : newest < k

Blocks ==
  stage \in {"body", "put"} /\ Head(items).num # NoArrival /\ ~late =>
    ~run /\ (tim6 # <<>> => DoneAt < Head(tim6))

IInv == Counted /\ Shape /\ Mails /\ Ordered /\ Owed /\ Blocks
-----------------------------------------------------------------------------
(* The numbers.                                                            *)

LEMMA Small ==
  /\ NumMod \in Nat /\ MaxPosts \in Nat /\ First \in 0..(NumMod - 1)
  /\ 2 * MaxPosts + 1 < NumMod /\ NumMod \div 2 \in Nat
  /\ MaxPosts < NumMod \div 2 /\ NumMod \div 2 <= NumMod - MaxPosts - 1
BY EngineQueueAssumption

LEMMA NumTurn ==
  ASSUME NEW x \in Int, -NumMod <= x, x < 2 * NumMod
  PROVE  x % NumMod = IF x < 0 THEN x + NumMod ELSE IF x < NumMod THEN x ELSE x - NumMod
<1>1. NumMod \in Nat \ {0}
  BY Small
<1>2. QED
  BY <1>1, OneTurn

LEMMA NumIs ==
  ASSUME NEW k \in Arrivals
  PROVE  /\ Num(k) = IF First + k < NumMod THEN First + k ELSE First + k - NumMod
         /\ Num(k) \in 0..(NumMod - 1)
<1>1. First + k \in Int /\ -NumMod <= First + k /\ 0 <= First + k /\ First + k < 2 * NumMod
  BY Small DEF Arrivals
<1> DEFINE x == First + k
<1>2. x % NumMod = IF x < 0 THEN x + NumMod ELSE IF x < NumMod THEN x ELSE x - NumMod
  BY <1>1, NumTurn
<1>3. QED
  BY <1>1, <1>2, Small DEF Num, Arrivals

(* How far one arrival's number is past another's.                         *)
LEMMA Distance ==
  ASSUME NEW j \in Arrivals, NEW k \in Arrivals
  PROVE  (Num(k) - Num(j)) % NumMod = IF j <= k THEN k - j ELSE NumMod + k - j
<1> DEFINE x == Num(k) - Num(j)
<1>1. x \in Int /\ -NumMod <= x /\ x < 2 * NumMod
  BY NumIs, Small
<1>2. x \in {k - j, k - j + NumMod, k - j - NumMod}
  BY NumIs, Small DEF Arrivals
<1>3. x % NumMod = IF x < 0 THEN x + NumMod ELSE IF x < NumMod THEN x ELSE x - NumMod
  BY <1>1, NumTurn
<1> HIDE DEF x
<1>4. x % NumMod = IF j <= k THEN k - j ELSE NumMod + k - j
  BY <1>1, <1>2, <1>3, NumIs, Small DEF Arrivals, x
<1>5. QED
  BY <1>4 DEF x

LEMMA NumNext ==
  ASSUME NEW j \in Arrivals, NEW n \in Int, j + n \in Arrivals
  PROVE  (Num(j) + n) % NumMod = Num(j + n)
<1>1. Num(j) + n \in Int /\ -NumMod <= Num(j) + n /\ Num(j) + n < 2 * NumMod
  BY NumIs, Small DEF Arrivals
<1>2. QED
  BY <1>1, NumTurn, NumIs, Small DEF Arrivals

LEMMA OfNum ==
  ASSUME NEW k \in Arrivals
  PROVE  Of(Num(k)) = k
<1>1. \A j \in Arrivals : Num(j) = Num(k) => j = k
  BY NumIs, Small DEF Arrivals
<1>2. QED
  BY <1>1 DEF Of

LEMMA ReachedIs ==
  ASSUME NEW j \in Arrivals, NEW k \in Arrivals
  PROVE  Reached(Num(j), Num(k)) <=> k <= j
BY Distance, Small DEF Reached, Arrivals

LEMMA NewerIs ==
  ASSUME NEW j \in Arrivals, NEW k \in Arrivals
  PROVE  Newer(Num(j), Num(k)) <=> k < j
<1>1. (NumMod \div 2 - 1) \in Int /\ MaxPosts <= NumMod \div 2 - 1
  BY Small
<1>2. QED
  BY <1>1, Distance, Small DEF Newer, Arrivals

LEMMA AheadIs ==
  ASSUME Counted, NEW k \in Arrivals
  PROVE  Ahead(Num(k)) = IF DoneAt <= k THEN k - DoneAt ELSE NumMod + k - DoneAt
<1>1. DoneAt \in Arrivals /\ done = Num(DoneAt)
  BY Small DEF Counted, Arrivals
<1>2. QED
  BY <1>1, Distance DEF Ahead

LEMMA MinOf ==
  ASSUME NEW T \in SUBSET Nat, T # {}
  PROVE  Min(T) \in T /\ \A y \in T : Min(T) <= y
<1>1. \E x \in T : \A y \in T : <<y, x>> \notin OpToRel(<, Nat)
  BY NatLessThanWellFounded, WFMin
<1>2. \E x \in T : \A y \in T : x <= y
  <2>1. PICK x \in T : \A y \in T : <<y, x>> \notin OpToRel(<, Nat)
    BY <1>1
  <2> DEFINE R == {ss \in Nat \X Nat : ss[1] < ss[2]}
  <2>2. OpToRel(<, Nat) = R
    BY DEF OpToRel
  <2>3. \A y \in T : x <= y
    <3>1. SUFFICES ASSUME NEW y \in T, y < x PROVE FALSE
      BY SMT
    <3>2. <<y, x>> \in R
      BY <3>1, SMT
    <3>3. QED
      BY <3>2, <2>1, <2>2
  <2>4. QED
    BY <2>3
<1>3. QED
  BY <1>2 DEF Min

LEMMA OneOf == ASSUME NEW m \in Mbox PROVE SetToSeq({m}) = <<m>>
<1>1. Cardinality({m}) = 1
  BY FS_Singleton
<1>2. <<m>> \in [1..1 -> {m}] /\ IsInjective(<<m>>)
  BY DEF IsInjective
<1>3. \A f \in [1..1 -> {m}] : f = <<m>>
  OBVIOUS
<1>4. QED
  BY <1>1, <1>2, <1>3 DEF SetToSeq
-----------------------------------------------------------------------------
(* The steps.                                                              *)

LEMMA SameNumbers == UNCHANGED <<seen, done>> => SeenAt' = SeenAt /\ DoneAt' = DoneAt
BY DEF SeenAt, DoneAt, Of

LEMMA InvInit == Init => IInv
<1>1. SUFFICES ASSUME Init PROVE IInv
  OBVIOUS
<1>2. 0 \in Arrivals /\ First = Num(0)
  BY Small, NumIs DEF Arrivals
<1>3. SeenAt = 0 /\ DoneAt = 0
  BY <1>1, <1>2, OfNum DEF Init, SeenAt, DoneAt
<1>4. Counted
  BY <1>1, <1>2, <1>3 DEF Init, Counted
<1>5. Shape
  <2>1. 0 \in 0..MaxInstants /\ 0 \in 0..MaxCalls
    BY EngineQueueAssumption
  <2>2. mail \in [Mbox -> MailType]
    BY <1>1, <1>2 DEF Init, Free, Kinds, NoArrival, MailType
  <2>3. items \in Seq(ItemType) /\ tim6 \in Seq(Arrivals)
    BY <1>1 DEF Init
  <2>4. /\ l1 \in BOOLEAN /\ urgent \in BOOLEAN /\ run \in BOOLEAN /\ late \in BOOLEAN
        /\ todo = <<>> /\ stage = "idle" /\ newest = 0
    BY <1>1 DEF Init
  <2>5. QED
    BY <1>1, <1>2, <2>1, <2>2, <2>3, <2>4 DEF Init, Shape, Stages
<1>6. Mails /\ Ordered
  <2>1. items = <<>> /\ todo = <<>> /\ Len(items) = 0 /\ Len(todo) = 0
    BY <1>1 DEF Init
  <2>2. \A m \in Mbox : mail[m].at = "free"
    BY <1>1 DEF Init, Free
  <2>3. QED
    BY <2>1, <2>2 DEF Mails, Ordered, InQueue, Mbox
<1>7. Owed
  <2>1. Coming(items, mail) = {}
    BY <1>1 DEF Init, Coming, Free
  <2>2. QED
    BY <1>1, <1>3, <2>1 DEF Init, Owed
<1>8. Blocks
  BY <1>1 DEF Init, Blocks
<1>9. QED
  BY <1>4, <1>5, <1>6, <1>7, <1>8 DEF IInv

LEMMA PostStep == ASSUME IInv, NEW m \in Mbox, NEW k \in Kinds, Post(m, k) PROVE IInv'
<1>1. /\ arr < MaxPosts /\ mail[m].at = "free" /\ arr' = arr + 1
      /\ mail' = [mail EXCEPT ![m] = [at |-> "posted", num |-> arr + 1, kind |-> k]]
      /\ due' = IF Pushes(k) THEN due \cup {arr + 1} ELSE due
      /\ UNCHANGED <<l1, todo, items, stage, urgent, seen, done, tim6, run, instants, late,
                     calls, newest>>
  BY DEF Post, cpuVars, synthVars
<1>2. SeenAt' = SeenAt /\ DoneAt' = DoneAt
  BY <1>1, SameNumbers
<1>3. Counted'
  BY <1>1, <1>2, Small DEF IInv, Counted, Arrivals
<1>4. arr \in Nat /\ arr + 1 \in Arrivals /\ SeenAt < arr + 1
  BY <1>1, Small DEF IInv, Counted, Arrivals
<1>5. Shape'
  BY <1>1, <1>4 DEF IInv, Shape, MailType
<1>6. /\ mail'[m] = [at |-> "posted", num |-> arr + 1, kind |-> k]
      /\ \A b \in Mbox : b # m => mail'[b] = mail[b]
  BY <1>1 DEF IInv, Shape
<1>7. Mails'
  <2>1. \A b \in Mbox : mail'[b].at # "free" => mail'[b].num \in 1..arr'
    BY <1>1, <1>4, <1>6 DEF IInv, Mails
  <2>2. \A b \in Mbox : mail'[b].at = "posted" => SeenAt' < mail'[b].num
    BY <1>2, <1>4, <1>6 DEF IInv, Mails
  <2>3. \A i \in 1..Len(todo) : todo[i] \in Mbox /\ todo[i] # m /\ mail[todo[i]].at = "posted"
    BY <1>1 DEF IInv, Mails, Shape, Mbox
  <2>4. \A i \in 1..Len(todo) : mail'[todo[i]] = mail[todo[i]] /\ mail[todo[i]].num <= arr
    BY <1>6, <2>3 DEF IInv, Mails
  <2>5. Len(todo) = 2 => mail'[todo[1]].num < mail'[todo[2]].num
    BY <2>4 DEF IInv, Mails
  <2>6. \A i \in 1..Len(todo), b \in Mbox :
          mail'[b].at = "posted" /\ (\A j \in 1..Len(todo) : todo[j] # b)
            => mail'[todo[i]].num < mail'[b].num
    <3>1. SUFFICES ASSUME NEW i \in 1..Len(todo), NEW b \in Mbox, mail'[b].at = "posted",
                          \A j \in 1..Len(todo) : todo[j] # b
                   PROVE  mail'[todo[i]].num < mail'[b].num
      OBVIOUS
    <3>2. CASE b = m
      <4>1. mail[todo[i]].num \in Nat
        BY <2>3 DEF IInv, Shape, MailType, Arrivals
      <4>2. QED
        BY <1>4, <1>6, <2>4, <3>2, <4>1
    <3>3. CASE b # m
      BY <1>6, <2>4, <3>1, <3>3 DEF IInv, Mails
    <3>4. QED
      BY <3>2, <3>3
  <2>7. QED
    BY <1>1, <2>1, <2>2, <2>3, <2>4, <2>5, <2>6 DEF Mails
<1>8. Ordered'
  <2>1. \A b \in Mbox : mail'[b].at = "held" => mail[b].at = "held" /\ mail'[b] = mail[b]
    BY <1>6
  <2>2. mail'["A"].at # "free" /\ mail'["B"].at # "free" => mail'["A"].num # mail'["B"].num
    BY <1>4, <1>6 DEF IInv, Mails, Ordered, InQueue, Mbox
  <2>3. QED
    BY <1>1, <1>2, <2>1, <2>2 DEF IInv, Ordered, InQueue
<1>9. Owed'
  <2>1. Coming(items, mail') = IF Pushes(k) THEN Coming(items, mail) \cup {arr + 1}
                               ELSE Coming(items, mail)
    BY <1>1, <1>6 DEF Coming
  <2>2. Ran' = Ran /\ (stage = "put" => Head(items).num # arr + 1) /\ arr + 1 # NoArrival
    <3>1. stage = "put" => Head(items).num <= SeenAt \/ Head(items).num = NoArrival
      BY DEF IInv, Shape, Ordered, InQueue
    <3>2. QED
      BY <1>1, <1>4, <3>1 DEF Ran, NoArrival, IInv, Counted
  <2>3. due' = Coming(items, mail') \ Ran
    BY <1>1, <2>1, <2>2 DEF IInv, Owed, Ran
  <2>4. newest < arr + 1
    BY <1>4 DEF IInv, Owed, Counted, Shape, Arrivals
  <2>5. QED
    BY <1>1, <1>2, <2>2, <2>3, <2>4 DEF IInv, Owed
<1>10. Blocks'
  BY <1>1, <1>2 DEF IInv, Blocks
<1>11. QED
  BY <1>3, <1>5, <1>7, <1>8, <1>9, <1>10 DEF IInv

LEMMA ServeOrderIs ==
  ASSUME IInv, Cause # {}
  PROVE  /\ ServeOrder(Cause) \in {<<"A">>, <<"B">>, <<"A", "B">>, <<"B", "A">>}
         /\ \A m \in Mbox : m \in Cause <=> \E i \in 1..Len(ServeOrder(Cause)) : ServeOrder(Cause)[i] = m
         /\ Len(ServeOrder(Cause)) = 2 =>
              mail[ServeOrder(Cause)[1]].num < mail[ServeOrder(Cause)[2]].num
<1>1. Cause \subseteq Mbox
  BY DEF Cause, Waiting
<1>2. CASE Cause = {"A"}
  <2>1. ServeOrder(Cause) = <<"A">>
    BY <1>2, OneOf DEF ServeOrder, Mbox
  <2>2. QED
    BY <1>2, <2>1 DEF Mbox
<1>3. CASE Cause = {"B"}
  <2>1. ServeOrder(Cause) = <<"B">>
    BY <1>3, OneOf DEF ServeOrder, Mbox
  <2>2. QED
    BY <1>3, <2>1 DEF Mbox
<1>4. CASE Cause = Mbox
  <2>1. /\ mail["A"].at = "posted" /\ mail["B"].at = "posted"
        /\ mail["A"].num \in Arrivals /\ mail["B"].num \in Arrivals
        /\ mail["A"].num # mail["B"].num
    BY <1>4 DEF IInv, Shape, MailType, Ordered, InQueue, Cause, Waiting, Mbox
  <2>2. CASE mail["A"].num < mail["B"].num
    <3>1. ServeOrder(Cause) = <<"A", "B">>
      BY <1>4, <2>1, <2>2, NewerIs DEF ServeOrder
    <3>2. QED
      BY <1>4, <2>2, <3>1 DEF Mbox
  <2>3. CASE mail["B"].num < mail["A"].num
    <3>1. ServeOrder(Cause) = <<"B", "A">>
      BY <1>4, <2>1, <2>3, NewerIs DEF ServeOrder, Arrivals
    <3>2. QED
      BY <1>4, <2>3, <3>1 DEF Mbox
  <2>4. QED
    BY <2>1, <2>2, <2>3 DEF Arrivals
<1>5. QED
  BY <1>1, <1>2, <1>3, <1>4 DEF Mbox

LEMMA LookStep == ASSUME IInv, L1Look PROVE IInv'
<1>1. /\ Cause # {} /\ l1' = TRUE /\ todo' = ServeOrder(Cause)
      /\ UNCHANGED <<arr, mail, items, stage, urgent, seen, done, tim6, run, instants, late,
                     calls, due, newest>>
  BY DEF L1Look, synthVars, ghostVars
<1>2. SeenAt' = SeenAt /\ DoneAt' = DoneAt
  BY <1>1, SameNumbers
<1>3. Counted' /\ Ordered' /\ Owed' /\ Blocks'
  BY <1>1, <1>2 DEF IInv, Counted, Ordered, InQueue, Owed, Coming, Ran, Blocks
<1>4. Shape'
  BY <1>1, ServeOrderIs DEF IInv, Shape
<1>5. Mails'
  <2>1. \A i \in 1..Len(todo') : todo'[i] \in Cause
    BY <1>1, ServeOrderIs DEF Mbox
  <2>2. \A m \in Mbox : mail[m].at = "posted" => \E j \in 1..Len(todo') : todo'[j] = m
    BY <1>1, ServeOrderIs DEF Cause, Waiting
  <2>3. QED
    BY <1>1, <1>2, <2>1, <2>2, ServeOrderIs DEF IInv, Mails, Cause, Waiting
<1>6. QED
  BY <1>3, <1>4, <1>5 DEF IInv

LEMMA AppendIs ==
  ASSUME NEW T, NEW q \in Seq(T), NEW e \in T
  PROVE  /\ Append(q, e) \in Seq(T) /\ Len(q) \in Nat /\ Len(Append(q, e)) = Len(q) + 1
         /\ \A i \in 1..Len(q) : Append(q, e)[i] = q[i] /\ q[i] \in T
         /\ Append(q, e)[Len(q) + 1] = e /\ Append(q, e) # <<>>
         /\ q # <<>> => Head(Append(q, e)) = Head(q)
OBVIOUS

LEMMA ServeStep == ASSUME IInv, L1Serve PROVE IInv'
<1> DEFINE m == Head(todo)  n == mail[m].num  k == mail[m].kind
           holds == k # "plain" /\ HoldsBack
           pushes == Pushes(k) /\ ~HoldsBack
<1>1. /\ todo # <<>> /\ todo' = Tail(todo)
      /\ mail' = [mail EXCEPT ![m] = IF holds THEN HeldAs(@) ELSE Free]
      /\ items' = IF pushes THEN Append(items, Item(mail[m])) ELSE items
      /\ seen' = IF Ahead(Num(n)) > Ahead(seen) /\ Ahead(Num(n)) < NumMod \div 2
                 THEN Num(n) ELSE seen
      /\ l1 /\ UNCHANGED <<arr, l1, stage, urgent, done, tim6, run, instants, late, calls,
                           due, newest>>
  BY DEF L1Serve, synthVars, ghostVars
<1>2. /\ m \in Mbox /\ m = todo[1] /\ mail[m].at = "posted" /\ n \in 1..arr /\ n \in Arrivals
      /\ k \in Kinds /\ SeenAt < n
  <2>1. m = todo[1] /\ m \in Mbox /\ 1 \in 1..Len(todo)
    BY <1>1 DEF IInv, Shape, Mbox
  <2>2. mail[m].at = "posted"
    BY <2>1 DEF IInv, Mails
  <2>3. QED
    BY <2>1, <2>2 DEF IInv, Mails, Shape, MailType
<1> HIDE DEF m
<1>3. seen' = Num(n)
  <2>1. Ahead(Num(n)) = n - DoneAt
    BY <1>2, AheadIs, Small DEF IInv, Counted, Arrivals
  <2>2. Ahead(seen) = SeenAt - DoneAt
    BY AheadIs, Small DEF IInv, Counted, Arrivals
  <2>3. QED
    BY <1>1, <1>2, <2>1, <2>2, Small DEF IInv, Counted, Arrivals
<1>4. SeenAt' = n /\ DoneAt' = DoneAt
  BY <1>1, <1>2, <1>3, OfNum DEF SeenAt, DoneAt, Of
<1>5. Counted'
  BY <1>1, <1>2, <1>3, <1>4, Small DEF IInv, Counted, Arrivals
<1>6. /\ \A b \in Mbox : b # m => mail'[b] = mail[b]
      /\ mail'[m] = IF holds THEN HeldAs(mail[m]) ELSE Free
      /\ mail' \in [Mbox -> MailType]
  <2>1. HeldAs(mail[m]) \in MailType
    BY <1>2 DEF IInv, Shape, HeldAs, MailType
  <2>2. Free \in MailType
    BY Small DEF Free, NoArrival, Arrivals, Kinds, MailType
  <2>3. QED
    BY <1>1, <1>2, <2>1, <2>2 DEF IInv, Shape
<1>7. Item(mail[m]) \in ItemType /\ Item(mail[m]).num = n
  BY <1>2 DEF Item, ItemType
<1>8. /\ items \in Seq(ItemType) /\ Len(items) \in Nat /\ items' \in Seq(ItemType)
      /\ Len(items') = IF pushes THEN Len(items) + 1 ELSE Len(items)
      /\ \A i \in 1..Len(items) : items'[i] = items[i] /\ items[i].num \in Arrivals
      /\ pushes => items'[Len(items) + 1].num = n
      /\ items # <<>> => items' # <<>> /\ Head(items') = Head(items)
  <2>1. items \in Seq(ItemType) /\ Len(items) \in Nat
    BY DEF IInv, Shape
  <2>2. \A i \in 1..Len(items) : items[i].num \in Arrivals
    <3>1. \A i \in 1..Len(items) : items[i] \in ItemType
      BY <2>1
    <3>2. QED
      BY <3>1 DEF ItemType
  <2>3. CASE pushes
    <3>1. items' = Append(items, Item(mail[m]))
      BY <1>1, <2>3
    <3>2. QED
      BY <1>7, <2>1, <2>2, <2>3, <3>1, AppendIs
  <2>4. CASE ~pushes
    BY <1>1, <2>1, <2>2, <2>4
  <2>5. QED
    BY <2>3, <2>4
<1>9. Shape'
  <2>1. todo' \in {<<>>, <<"A">>, <<"B">>}
    <3>1. todo \in {<<"A">>, <<"B">>, <<"A", "B">>, <<"B", "A">>}
      BY <1>1 DEF IInv, Shape
    <3>2. Tail(<<"A">>) = <<>> /\ Tail(<<"B">>) = <<>>
          /\ Tail(<<"A", "B">>) = <<"B">> /\ Tail(<<"B", "A">>) = <<"A">>
      OBVIOUS
    <3>3. QED
      BY <1>1, <3>1, <3>2
  <2>2. QED
    BY <1>1, <1>6, <1>8, <2>1 DEF IInv, Shape
<1>10. \A b \in Mbox : mail'[b].at = "posted" => b # m /\ mail[b].at = "posted" /\ n < mail[b].num
  <2>1. SUFFICES ASSUME NEW b \in Mbox, mail'[b].at = "posted"
                 PROVE  b # m /\ mail[b].at = "posted" /\ n < mail[b].num
    OBVIOUS
  <2>2. b # m /\ mail[b].at = "posted"
    BY <1>2, <1>6, <2>1 DEF HeldAs, Free, IInv, Shape, MailType
  <2>3. CASE Len(todo) = 2 /\ todo[2] = b
    BY <1>2, <2>2, <2>3 DEF IInv, Mails
  <2>4. CASE ~(Len(todo) = 2 /\ todo[2] = b)
    <3>1. \A j \in 1..Len(todo) : todo[j] # b
      BY <1>2, <2>2, <2>4 DEF IInv, Shape
    <3>2. 1 \in 1..Len(todo)
      BY <1>1 DEF IInv, Shape
    <3>3. QED
      BY <1>2, <2>2, <3>1, <3>2 DEF IInv, Mails
  <2>5. QED
    BY <2>2, <2>3, <2>4
<1>11. Mails'
  <2>1. \A b \in Mbox : mail'[b].at # "free" => mail'[b].num \in 1..arr
    BY <1>2, <1>6 DEF HeldAs, Free, IInv, Mails, Shape, MailType
  <2>2. \A i \in 1..Len(todo') : /\ Len(todo) = 2 /\ i = 1 /\ todo'[1] = todo[2] /\ todo[2] # m
                                 /\ todo[2] \in Mbox /\ mail'[todo'[i]] = mail[todo[2]]
                                 /\ mail[todo[2]].at = "posted"
    <3>1. SUFFICES ASSUME NEW i \in 1..Len(todo')
                   PROVE  /\ Len(todo) = 2 /\ i = 1 /\ todo'[1] = todo[2] /\ todo[2] # m
                          /\ todo[2] \in Mbox /\ mail'[todo'[i]] = mail[todo[2]]
                          /\ mail[todo[2]].at = "posted"
      OBVIOUS
    <3>2. Len(todo) = 2 /\ i = 1 /\ todo'[1] = todo[2] /\ todo[2] # m /\ todo[2] \in Mbox
      BY <1>1, <1>2 DEF IInv, Shape, Mbox
    <3>3. QED
      BY <1>6, <3>2 DEF IInv, Mails
  <2>3. \A i \in 1..Len(todo'), b \in Mbox :
          mail'[b].at = "posted" /\ (\A j \in 1..Len(todo') : todo'[j] # b)
            => mail'[todo'[i]].num < mail'[b].num
    <3>1. SUFFICES ASSUME NEW i \in 1..Len(todo'), NEW b \in Mbox, mail'[b].at = "posted",
                          \A j \in 1..Len(todo') : todo'[j] # b
                   PROVE  mail'[todo'[i]].num < mail'[b].num
      OBVIOUS
    <3>2. b # m /\ mail[b].at = "posted" /\ mail'[b] = mail[b]
      BY <1>6, <1>10, <3>1
    <3>3. \A j \in 1..Len(todo) : todo[j] # b
      BY <1>2, <2>2, <3>1, <3>2
    <3>4. QED
      BY <2>2, <3>2, <3>3 DEF IInv, Mails
  <2>4. Len(todo') # 2
    BY <2>2
  <2>5. QED
    BY <1>1, <1>4, <1>6, <1>10, <2>1, <2>2, <2>3, <2>4 DEF Mails
<1>12. Ordered'
  <2>1. \A i \in 1..Len(items) : items[i].num \in Nat /\ items[i].num < n
    BY <1>2, <1>8, Small DEF IInv, Ordered, InQueue, Counted, Arrivals, NoArrival
  <2>2. \A b \in Mbox : mail'[b].at = "held" =>
          \/ b = m /\ holds /\ mail'[b].num = n
          \/ b # m /\ mail'[b] = mail[b]
    BY <1>6 DEF HeldAs, Free, IInv, Shape, MailType
  <2>3. pushes => \A b \in Mbox : mail'[b].at # "held"
    BY <1>6, <2>2 DEF HoldsBack, Held, Waiting
  <2>4. \A i \in 1..Len(items') : items'[i].num # NoArrival => DoneAt < items'[i].num /\ items'[i].num <= n
    BY <1>2, <1>8, Small, <2>1 DEF IInv, Ordered, InQueue, Counted, Arrivals, NoArrival
  <2>5. \A i, j \in 1..Len(items') :
          i < j /\ items'[i].num # NoArrival /\ items'[j].num # NoArrival
            => items'[i].num < items'[j].num
    BY <1>8, <2>1 DEF IInv, Ordered, InQueue
  <2>6. \A b \in Mbox : mail'[b].at = "held" =>
          /\ DoneAt < mail'[b].num /\ mail'[b].num <= n
          /\ \A i \in 1..Len(items') : items'[i].num < mail'[b].num
    <3>1. SUFFICES ASSUME NEW b \in Mbox, mail'[b].at = "held"
                   PROVE  /\ DoneAt < mail'[b].num /\ mail'[b].num <= n
                          /\ \A i \in 1..Len(items') : items'[i].num < mail'[b].num
      OBVIOUS
    <3>2. items' = items
      BY <1>1, <2>3, <3>1
    <3>3. CASE b = m
      BY <1>2, <2>1, <2>2, <3>1, <3>2, <3>3 DEF IInv, Counted, Arrivals
    <3>4. CASE b # m
      <4>1. mail[b].num \in Arrivals /\ mail[b].at = "held" /\ mail'[b] = mail[b]
        BY <2>2, <3>1, <3>4 DEF IInv, Shape, MailType
      <4>2. DoneAt < mail[b].num /\ mail[b].num <= SeenAt
        BY <4>1 DEF IInv, Ordered, InQueue
      <4>3. QED
        BY <1>2, <3>2, <4>1, <4>2, Small DEF IInv, Ordered, InQueue, Counted, Arrivals
    <3>5. QED
      BY <3>3, <3>4
  <2>7. mail'["A"].at # "free" /\ mail'["B"].at # "free" => mail'["A"].num # mail'["B"].num
    BY <1>2, <1>6 DEF HeldAs, Free, IInv, Ordered, InQueue, Mbox, Shape, MailType
  <2>8. QED
    BY <1>4, <2>4, <2>5, <2>6, <2>7 DEF Ordered, InQueue
<1>13. Owed'
  <2>1. holds \/ pushes \/ ~Pushes(k)
    BY DEF Pushes
  <2>2. Coming(items', mail') = Coming(items, mail)
    <3> DEFINE its(q) == {q[i].num : i \in 1..Len(q)}
               mls(f) == {f[b].num : b \in {c \in Mbox : f[c].at # "free" /\ Pushes(f[c].kind)}}
    <3>1. CASE holds
      <4>1. mail'[m].num = n /\ mail'[m].kind = k /\ mail'[m].at = "held"
        BY <1>2, <1>6, <3>1 DEF HeldAs, IInv, Shape
      <4>2. mls(mail') = mls(mail)
        BY <1>2, <1>6, <4>1
      <4>3. items' = items
        BY <1>1, <3>1
      <4>4. QED
        BY <4>2, <4>3 DEF Coming
    <3>2. CASE ~holds /\ ~pushes
      <4>1. ~Pushes(k) /\ items' = items
        BY <1>1, <2>1, <3>2
      <4>2. mls(mail') = mls(mail)
        BY <1>2, <1>6, <3>2, <4>1 DEF Free
      <4>3. QED
        BY <4>1, <4>2 DEF Coming
    <3>3. CASE ~holds /\ pushes
      <4>1. mls(mail) = mls(mail') \cup {n}
        BY <1>2, <1>6, <3>3 DEF Free
      <4>2. its(items') = its(items) \cup {n}
        <5>1. Len(items') = Len(items) + 1 /\ items'[Len(items) + 1].num = n
          BY <1>8, <3>3
        <5>2. QED
          BY <1>8, <5>1
      <4>3. QED
        BY <4>1, <4>2 DEF Coming
    <3>4. QED
      BY <3>1, <3>2, <3>3
  <2>3. Ran' = Ran
    BY <1>1, <1>8 DEF Ran, IInv, Shape
  <2>4. newest <= n
    BY <1>2 DEF IInv, Owed, Counted, Shape, Arrivals
  <2>5. QED
    BY <1>1, <1>4, <2>2, <2>3, <2>4 DEF IInv, Owed
<1>14. Blocks'
  BY <1>1, <1>4, <1>8 DEF IInv, Blocks, Shape
<1>15. QED
  BY <1>5, <1>9, <1>11, <1>12, <1>13, <1>14 DEF IInv

(* What done_value answers: the newest arrival with nothing older waiting. *)
LEMMA DoneValueIs ==
  ASSUME Counted, NEW its \in Seq(ItemType), NEW ml \in [Mbox -> MailType], InQueue(its, ml)
  PROVE  \E d \in DoneAt..SeenAt :
           /\ DoneValue(its, ml) = Num(d)
           /\ \A i \in 1..Len(its) : its[i].num # NoArrival => d < its[i].num
           /\ \A m \in Mbox : ml[m].at = "held" => d < ml[m].num
<1> DEFINE queued == {its[i].num : i \in 1..Len(its)} \ {NoArrival}
           back == {ml[m].num : m \in {b \in Mbox : ml[b].at = "held"}}
           far == {Ahead(Num(k)) : k \in queued \cup back} \cup {Ahead(seen) + 1}
           best == Min(far)
           d == DoneAt + best - 1
<1>1. /\ SeenAt \in Arrivals /\ DoneAt \in Arrivals /\ DoneAt <= SeenAt
      /\ seen = Num(SeenAt) /\ done = Num(DoneAt)
  BY Small DEF Counted, Arrivals
<1>2. \A k \in queued \cup back : k \in Arrivals /\ DoneAt < k /\ k <= SeenAt
  <2>1. \A i \in 1..Len(its) : its[i].num \in Arrivals
    <3>1. \A i \in 1..Len(its) : its[i] \in ItemType
      OBVIOUS
    <3>2. QED
      BY <3>1 DEF ItemType
  <2>2. \A m \in Mbox : ml[m].num \in Arrivals
    BY DEF MailType
  <2>3. QED
    BY <2>1, <2>2 DEF InQueue
<1>3. \A k \in queued \cup back : Ahead(Num(k)) = k - DoneAt
  <2>1. SUFFICES ASSUME NEW k \in queued \cup back PROVE Ahead(Num(k)) = k - DoneAt
    OBVIOUS
  <2>2. k \in Arrivals /\ DoneAt < k
    BY <1>2
  <2> HIDE DEF queued, back
  <2>3. QED
    BY <1>1, <2>2, AheadIs, Small DEF Arrivals
<1>4. Ahead(seen) = SeenAt - DoneAt
  BY <1>1, AheadIs, Small DEF Arrivals
<1> HIDE DEF queued, back
<1>5. far \in SUBSET Nat /\ far # {}
  BY <1>1, <1>2, <1>3, <1>4, Small DEF Arrivals
<1>6. best \in far /\ \A y \in far : best <= y
  BY <1>5, MinOf
<1>7. /\ best \in Nat /\ best >= 1 /\ best <= SeenAt - DoneAt + 1
      /\ \A k \in queued \cup back : best <= k - DoneAt
  BY <1>1, <1>2, <1>3, <1>4, <1>5, <1>6, Small DEF Arrivals
<1>8. DoneValue(its, ml) = (done + best - 1) % NumMod
  BY DEF DoneValue, queued, back
<1> HIDE DEF far, best
<1>9. d \in DoneAt..SeenAt /\ \A k \in queued \cup back : d < k
  BY <1>1, <1>2, <1>7, Small DEF Arrivals
<1>10. (done + best - 1) % NumMod = Num(d)
  <2>1. best - 1 \in Int /\ DoneAt + (best - 1) \in Arrivals
    BY <1>1, <1>7, Small DEF Arrivals
  <2>2. (Num(DoneAt) + (best - 1)) % NumMod = Num(DoneAt + (best - 1))
    BY <1>1, <2>1, NumNext
  <2>3. done \in Int /\ DoneAt \in Int
    BY <1>1, NumIs, Small DEF Arrivals
  <2>4. done + best - 1 = done + (best - 1) /\ d = DoneAt + (best - 1)
    BY <1>7, <2>3
  <2>5. QED
    BY <1>1, <2>2, <2>4
<1>11. QED
  <2>1. \A i \in 1..Len(its) : its[i].num # NoArrival => its[i].num \in queued
    BY DEF queued
  <2>2. \A m \in Mbox : ml[m].at = "held" => ml[m].num \in back
    BY DEF back
  <2>3. QED
    BY <1>8, <1>9, <1>10, <2>1, <2>2

(* One turn of take_held keeps the order and what is still to come.        *)
LEMMA TakeIs ==
  ASSUME Counted, NEW its \in Seq(ItemType), NEW ml \in [Mbox -> MailType], InQueue(its, ml),
         NEW s, s = Take([items |-> its, mail |-> ml])
  PROVE  /\ s = [items |-> s.items, mail |-> s.mail]
         /\ s.items \in Seq(ItemType) /\ s.mail \in [Mbox -> MailType]
         /\ InQueue(s.items, s.mail)
         /\ Coming(s.items, s.mail) = Coming(its, ml)
         /\ \A m \in Mbox : s.mail[m] = ml[m] \/ (ml[m].at = "held" /\ s.mail[m] = Free)
<1> DEFINE back == {b \in Mbox : ml[b].at = "held"}
           m == CHOOSE b \in back : \A o \in back : Ahead(Num(ml[b].num)) <= Ahead(Num(ml[o].num))
<1>1. CASE back = {} \/ Len(its) >= QN
  <2>1. s = [items |-> its, mail |-> ml]
    BY <1>1 DEF Take
  <2>2. s.items = its /\ s.mail = ml /\ s = [items |-> s.items, mail |-> s.mail]
    BY <2>1
  <2>3. QED
    BY <2>2
<1>2. CASE back # {} /\ ~(Len(its) >= QN)
  <2>1. /\ s = [items |-> IF Pushes(ml[m].kind) THEN Append(its, Item(ml[m])) ELSE its,
                mail |-> [ml EXCEPT ![m] = Free]]
    BY <1>2 DEF Take
  <2>2. /\ \A b \in Mbox : ml[b].num \in Arrivals
        /\ \A b \in back : Ahead(Num(ml[b].num)) = ml[b].num - DoneAt
        /\ DoneAt \in Arrivals
    <3>1. \A b \in Mbox : ml[b].num \in Arrivals
      BY DEF MailType
    <3>2. DoneAt \in Arrivals
      BY Small DEF Counted, Arrivals
    <3>3. \A b \in back : Ahead(Num(ml[b].num)) = ml[b].num - DoneAt
      BY <3>1, <3>2, AheadIs, Small DEF InQueue, Arrivals
    <3>4. QED
      BY <3>1, <3>2, <3>3
  <2>3. \E b \in back : \A o \in back : Ahead(Num(ml[b].num)) <= Ahead(Num(ml[o].num))
    BY <1>2, <2>2, Small DEF Mbox, Arrivals
  <2>4. m \in back /\ \A o \in back : ml[m].num <= ml[o].num
    BY <2>2, <2>3, Small DEF Arrivals
  <2> HIDE DEF m
  <2> DEFINE n == ml[m].num
  <2>5. /\ m \in Mbox /\ ml[m].at = "held" /\ n \in Arrivals /\ DoneAt < n /\ n <= SeenAt
        /\ Item(ml[m]) \in ItemType /\ Item(ml[m]).num = n
        /\ \A i \in 1..Len(its) : its[i].num < n
    BY <2>2, <2>4 DEF InQueue, Item, ItemType, MailType
  <2>6. /\ s.mail[m] = Free /\ \A b \in Mbox : b # m => s.mail[b] = ml[b]
        /\ s.mail \in [Mbox -> MailType]
    <3>1. Free \in MailType
      BY Small DEF Free, MailType, Kinds, NoArrival, Arrivals
    <3>2. QED
      BY <2>1, <2>5, <3>1
  <2>7. \A b \in Mbox : s.mail[b].at = "held" => b # m /\ b \in back /\ s.mail[b] = ml[b] /\ n < ml[b].num
    <3>1. SUFFICES ASSUME NEW b \in Mbox, s.mail[b].at = "held"
                   PROVE  b # m /\ b \in back /\ s.mail[b] = ml[b] /\ n < ml[b].num
      OBVIOUS
    <3>2. b # m /\ s.mail[b] = ml[b] /\ b \in back
      BY <2>6, <3>1 DEF Free
    <3>3. ml[b].num # n
      BY <2>5, <3>1, <3>2 DEF InQueue, Mbox
    <3>4. QED
      BY <2>2, <2>4, <3>2, <3>3 DEF Arrivals
  <2>8. s.mail["A"].at # "free" /\ s.mail["B"].at # "free" => s.mail["A"].num # s.mail["B"].num
    BY <2>5, <2>6 DEF Free, Mbox
  <2>9. its \in Seq(ItemType) /\ Len(its) \in Nat /\ \A i \in 1..Len(its) : its[i].num \in Arrivals
    <3>1. \A i \in 1..Len(its) : its[i] \in ItemType
      OBVIOUS
    <3>2. QED
      BY <3>1 DEF ItemType
  <2>10. s = [items |-> s.items, mail |-> s.mail]
    BY <2>1
  <2>11. \A b \in Mbox : s.mail[b] = ml[b] \/ (ml[b].at = "held" /\ s.mail[b] = Free)
    BY <2>5, <2>6
  <2>12. CASE Pushes(ml[m].kind)
    <3>1. s.items = Append(its, Item(ml[m]))
      BY <2>1, <2>12
    <3>2. /\ s.items \in Seq(ItemType) /\ Len(s.items) = Len(its) + 1
          /\ \A i \in 1..Len(its) : s.items[i] = its[i]
          /\ s.items[Len(its) + 1].num = n
      <4> DEFINE e == Item(ml[m])
      <4>1. e \in ItemType /\ e.num = n /\ s.items = Append(its, e)
        BY <2>5, <3>1
      <4> HIDE DEF e, n
      <4>2. /\ Append(its, e) \in Seq(ItemType) /\ Len(Append(its, e)) = Len(its) + 1
            /\ \A i \in 1..Len(its) : Append(its, e)[i] = its[i]
            /\ Append(its, e)[Len(its) + 1] = e
        BY <4>1, AppendIs
      <4>3. QED
        BY <4>1, <4>2
    <3> HIDE DEF n
    <3>3. InQueue(s.items, s.mail)
      <4>1. \A i \in 1..Len(s.items) : s.items[i].num # NoArrival =>
              DoneAt < s.items[i].num /\ s.items[i].num <= SeenAt
        BY <2>5, <2>9, <3>2 DEF InQueue, n
      <4>2. \A i, j \in 1..Len(s.items) :
              i < j /\ s.items[i].num # NoArrival /\ s.items[j].num # NoArrival
                => s.items[i].num < s.items[j].num
        BY <2>5, <2>9, <3>2 DEF InQueue, n
      <4>3. \A b \in Mbox : s.mail[b].at = "held" =>
              /\ DoneAt < s.mail[b].num /\ s.mail[b].num <= SeenAt
              /\ \A i \in 1..Len(s.items) : s.items[i].num < s.mail[b].num
        BY <2>5, <2>7, <2>9, <3>2 DEF InQueue, n
      <4>4. QED
        BY <2>8, <4>1, <4>2, <4>3 DEF InQueue
    <3>4. Coming(s.items, s.mail) = Coming(its, ml)
      <4>1. {s.items[i].num : i \in 1..Len(s.items)} = {its[i].num : i \in 1..Len(its)} \cup {n}
        BY <2>9, <3>2
      <4>2. {ml[b].num : b \in {c \in Mbox : ml[c].at # "free" /\ Pushes(ml[c].kind)}}
              = {s.mail[b].num : b \in {c \in Mbox : s.mail[c].at # "free" /\ Pushes(s.mail[c].kind)}}
                  \cup {n}
        BY <2>5, <2>6, <2>12 DEF Free, n
      <4>3. QED
        BY <4>1, <4>2 DEF Coming
    <3>5. QED
      BY <2>6, <2>10, <2>11, <3>2, <3>3, <3>4
  <2>13. CASE ~Pushes(ml[m].kind)
    <3>1. s.items = its
      BY <2>1, <2>13
    <3>2. InQueue(s.items, s.mail)
      BY <2>7, <2>8, <3>1 DEF InQueue
    <3>3. Coming(s.items, s.mail) = Coming(its, ml)
      <4>1. {ml[b].num : b \in {c \in Mbox : ml[c].at # "free" /\ Pushes(ml[c].kind)}}
              = {s.mail[b].num : b \in {c \in Mbox : s.mail[c].at # "free" /\ Pushes(s.mail[c].kind)}}
        BY <2>5, <2>6, <2>13 DEF Free
      <4>2. QED
        BY <3>1, <4>1 DEF Coming
    <3>4. QED
      BY <2>6, <2>10, <2>11, <3>1, <3>2, <3>3
  <2>14. QED
    BY <2>12, <2>13
<1>3. QED
  BY <1>1, <1>2

(* DONE := done_value, on a queue and mailboxes in order.                  *)
LEMMA DoneSet ==
  ASSUME IInv, UNCHANGED <<arr, seen>>,
         items' \in Seq(ItemType), mail' \in [Mbox -> MailType], InQueue(items', mail'),
         done' = DoneValue(items', mail')
  PROVE  Counted' /\ SeenAt' = SeenAt /\ DoneAt <= DoneAt' /\ Ordered'
<1>1. Counted
  BY DEF IInv
<1>2. PICK d \in DoneAt..SeenAt :
        /\ DoneValue(items', mail') = Num(d)
        /\ \A i \in 1..Len(items') : items'[i].num # NoArrival => d < items'[i].num
        /\ \A m \in Mbox : mail'[m].at = "held" => d < mail'[m].num
  BY <1>1, DoneValueIs
<1>3. d \in Arrivals /\ DoneAt <= d /\ d <= SeenAt
  BY <1>1, Small DEF Counted, Arrivals
<1>4. SeenAt' = SeenAt /\ DoneAt' = d
  BY <1>2, <1>3, OfNum DEF SeenAt, DoneAt, Of
<1>5. Counted'
  BY <1>1, <1>2, <1>3, <1>4, Small DEF Counted, Arrivals
<1>6. Ordered'
  BY <1>2, <1>4 DEF Ordered, InQueue
<1>7. QED
  BY <1>3, <1>4, <1>5, <1>6

LEMMA L1EndStep == ASSUME IInv, L1End PROVE IInv'
<1>1. /\ l1' = FALSE /\ todo = <<>>
      /\ done' = IF items = <<>> THEN DoneValue(items, mail) ELSE done
      /\ UNCHANGED <<arr, mail, todo, items, stage, urgent, seen, tim6, run, instants, late,
                     calls, due, newest>>
  BY DEF L1End, synthVars, ghostVars
<1>2. Counted' /\ SeenAt' = SeenAt /\ (items # <<>> => DoneAt' = DoneAt) /\ Ordered'
  <2>1. CASE items = <<>>
    BY <1>1, <2>1, DoneSet DEF IInv, Shape, Ordered
  <2>2. CASE items # <<>>
    BY <1>1, <2>2, SameNumbers DEF IInv, Counted, Ordered, InQueue
  <2>3. QED
    BY <2>1, <2>2
<1>3. Shape' /\ Mails' /\ Owed'
  BY <1>1, <1>2 DEF IInv, Shape, Mails, Owed, Coming, Ran
<1>4. Blocks'
  BY <1>1, <1>2 DEF IInv, Blocks, Shape
<1>5. QED
  BY <1>2, <1>3, <1>4 DEF IInv

LEMMA CallStep == ASSUME IInv, JobCall PROVE IInv'
<1> DEFINE c == [num |-> NoArrival, kind |-> "call"]
<1>1. /\ stage = "idle" /\ calls < MaxCalls /\ calls' = calls + 1 /\ items' = Append(items, c)
      /\ UNCHANGED <<arr, mail, l1, todo, stage, urgent, seen, done, tim6, run, instants, late,
                     due, newest>>
  BY DEF JobCall, synthVars, ghostVars
<1>2. SeenAt' = SeenAt /\ DoneAt' = DoneAt
  BY <1>1, SameNumbers
<1>3. c \in ItemType /\ c.num = NoArrival
  BY Small DEF ItemType, NoArrival, Arrivals
<1> HIDE DEF c
<1>4. items \in Seq(ItemType)
  BY DEF IInv, Shape
<1>5. /\ items' \in Seq(ItemType) /\ Len(items) \in Nat /\ Len(items') = Len(items) + 1
      /\ \A i \in 1..Len(items) : items'[i] = items[i]
      /\ items'[Len(items) + 1].num = NoArrival
  BY <1>1, <1>3, <1>4, AppendIs
<1>6. Counted' /\ Mails' /\ Blocks'
  BY <1>1, <1>2 DEF IInv, Counted, Mails, Blocks
<1>7. Shape'
  BY <1>1, <1>5, EngineQueueAssumption DEF IInv, Shape
<1>8. Ordered'
  <2>1. \A m \in Mbox : mail[m].at = "held" => NoArrival < mail[m].num
    BY Small DEF IInv, Ordered, InQueue, Counted, NoArrival, Shape, MailType, Arrivals
  <2>2. QED
    BY <1>1, <1>2, <1>5, <2>1 DEF IInv, Ordered, InQueue
<1>9. Owed'
  <2>1. {items'[i].num : i \in 1..Len(items')} = {items[i].num : i \in 1..Len(items)} \cup {NoArrival}
    BY <1>5
  <2>2. Coming(items', mail') = Coming(items, mail) \cup {NoArrival}
    BY <1>1, <2>1 DEF Coming
  <2>3. QED
    BY <1>1, <1>2, <2>2 DEF IInv, Owed, Ran
<1>10. QED
  BY <1>6, <1>7, <1>8, <1>9 DEF IInv

LEMMA BetweenStep == ASSUME IInv, UrgentStart \/ UrgentEnd PROVE IInv'
<1>1. /\ urgent' \in BOOLEAN
      /\ UNCHANGED <<arr, mail, l1, todo, items, stage, seen, done, tim6, run, instants, late,
                     calls, due, newest>>
  BY DEF UrgentStart, UrgentEnd, synthVars, ghostVars
<1>2. SeenAt' = SeenAt /\ DoneAt' = DoneAt
  BY <1>1, SameNumbers
<1>3. QED
  BY <1>1, <1>2
     DEF IInv, Counted, Shape, Mails, Ordered, InQueue, Owed, Coming, Ran, Blocks

(* From the first critical section to the begin: nothing moves but stage.  *)
LEMMA StartStep == ASSUME IInv, ItemStart PROVE IInv'
<1>1. /\ items # <<>> /\ stage = "idle" /\ stage' = "begin" /\ items' = items
      /\ UNCHANGED <<arr, mail, l1, todo, urgent, seen, done, tim6, run, instants, late, calls,
                     due, newest>>
  BY DEF ItemStart, Started, synthVars, ghostVars
<1>2. SeenAt' = SeenAt /\ DoneAt' = DoneAt
  BY <1>1, SameNumbers
<1>3. Counted' /\ Mails' /\ Ordered' /\ Owed' /\ Blocks'
  BY <1>1, <1>2 DEF IInv, Counted, Mails, Ordered, InQueue, Owed, Coming, Ran, Blocks
<1>4. Shape'
  BY <1>1 DEF IInv, Shape, Stages
<1>5. QED
  BY <1>3, <1>4 DEF IInv

(* A begin leaves only when no block runs and the head instant, if there   *)
(* is one, waits for an arrival after DONE.                                *)
LEMMA BeginStep == ASSUME IInv, ItemBegin PROVE IInv'
<1>1. /\ stage = "begin" /\ ~SynthBusy /\ stage' = "body"
      /\ UNCHANGED <<arr, mail, l1, todo, items, urgent, seen, done, tim6, run, instants, late,
                     calls, due, newest>>
  BY DEF ItemBegin, synthVars, ghostVars
<1>2. SeenAt' = SeenAt /\ DoneAt' = DoneAt
  BY <1>1, SameNumbers
<1>3. Counted' /\ Mails' /\ Ordered' /\ Owed'
  BY <1>1, <1>2 DEF IInv, Counted, Mails, Ordered, InQueue, Owed, Coming, Ran
<1>4. Shape'
  BY <1>1 DEF IInv, Shape, Stages
<1>5. Blocks'
  <2>1. ~run /\ ~HeadReady
    BY <1>1 DEF SynthBusy
  <2>2. tim6 # <<>> => Head(tim6) \in Arrivals
    BY DEF IInv, Shape
  <2>3. DoneAt \in Arrivals /\ done = Num(DoneAt)
    BY Small DEF IInv, Counted, Arrivals
  <2>4. tim6 # <<>> => DoneAt < Head(tim6)
    BY <2>1, <2>2, <2>3, ReachedIs, Small DEF HeadReady, Arrivals
  <2>5. QED
    BY <1>1, <1>2, <2>1, <2>4 DEF Blocks
<1>6. QED
  BY <1>3, <1>4, <1>5 DEF IInv

(* What the queue's head is, when there is one.                            *)
LEMMA HeadIs ==
  ASSUME IInv, items # <<>>
  PROVE  /\ Head(items) = items[1] /\ 1 \in 1..Len(items) /\ Len(items) \in Nat
         /\ Head(items) \in ItemType /\ Head(items).num \in Arrivals
         /\ Head(items).num # NoArrival => DoneAt < Head(items).num /\ Head(items).num <= SeenAt
<1>1. Head(items) = items[1] /\ 1 \in 1..Len(items) /\ Len(items) \in Nat /\ items[1] \in ItemType
  BY DEF IInv, Shape
<1>2. QED
  BY <1>1 DEF ItemType, IInv, Ordered, InQueue

(* Everything else to come is newer than the head.                         *)
LEMMA HeadOldest ==
  ASSUME IInv, items # <<>>, Head(items).num # NoArrival,
         NEW k \in Coming(items, mail) \ {NoArrival, Head(items).num}
  PROVE  Head(items).num < k
<1>1. CASE \E i \in 1..Len(items) : k = items[i].num
  <2>1. PICK i \in 1..Len(items) : k = items[i].num
    BY <1>1
  <2>2. i # 1
    BY <2>1, HeadIs
  <2>3. QED
    BY <2>1, <2>2, HeadIs DEF IInv, Ordered, InQueue
<1>2. CASE \E m \in Mbox : mail[m].at # "free" /\ k = mail[m].num
  <2>1. PICK m \in Mbox : mail[m].at # "free" /\ k = mail[m].num
    BY <1>2
  <2>2. mail[m].at \in {"posted", "held"} /\ k \in Arrivals
    BY <2>1 DEF IInv, Shape, MailType
  <2>3. CASE mail[m].at = "posted"
    <3>1. SeenAt < k
      BY <2>1, <2>3 DEF IInv, Mails
    <3>2. SeenAt \in Int /\ k \in Int
      BY <2>2, Small DEF IInv, Counted, Arrivals
    <3>3. QED
      BY <3>1, <3>2, HeadIs, Small DEF Arrivals
  <2>4. CASE mail[m].at = "held"
    BY <2>1, <2>4, HeadIs DEF IInv, Ordered, InQueue
  <2>5. QED
    BY <2>2, <2>3, <2>4
<1>3. QED
  BY <1>1, <1>2 DEF Coming

LEMMA BodyStep == ASSUME IInv, ItemBody PROVE IInv'
<1> DEFINE n == Head(items).num
<1>1. /\ stage = "body" /\ stage' = "put" /\ due' = due \ {n} /\ newest' = Max({newest, n})
      /\ UNCHANGED <<arr, mail, l1, todo, items, urgent, seen, done, tim6, run, instants, late,
                     calls>>
  BY DEF ItemBody, synthVars
<1>2. SeenAt' = SeenAt /\ DoneAt' = DoneAt
  BY <1>1, SameNumbers
<1>3. items # <<>> /\ n \in Arrivals /\ newest \in Arrivals
  BY <1>1, HeadIs DEF IInv, Shape
<1>4. newest' = IF newest <= n THEN n ELSE newest
  <2>1. \A x, y \in Int : Max({x, y}) = IF x <= y THEN y ELSE x
    BY DEF Max
  <2>2. QED
    BY <1>1, <1>3, <2>1, Small DEF Arrivals
<1>5. Counted' /\ Mails' /\ Ordered' /\ Blocks'
  BY <1>1, <1>2 DEF IInv, Counted, Mails, Ordered, InQueue, Blocks
<1>6. Shape'
  BY <1>1, <1>3, <1>4 DEF IInv, Shape, Stages
<1>7. Owed'
  <2>1. due' = Coming(items, mail) \ {NoArrival, n}
    BY <1>1 DEF IInv, Owed, Ran
  <2>2. newest' <= SeenAt
    BY <1>3, <1>4, HeadIs, Small DEF IInv, Owed, Counted, Arrivals, NoArrival
  <2>3. ASSUME NEW k \in due' PROVE newest' < k
    <3>1. newest < k /\ k \in Coming(items, mail) \ {NoArrival, n}
      BY <1>1, <2>1, <2>3 DEF IInv, Owed
    <3>2. CASE n = NoArrival
      BY <1>3, <1>4, <3>1, <3>2, Small DEF NoArrival, Arrivals
    <3>3. CASE n # NoArrival
      BY <1>3, <1>4, <3>1, <3>3, HeadOldest
    <3>4. QED
      BY <3>2, <3>3
  <2>4. Coming(items', mail') = Coming(items, mail) /\ Ran' = {NoArrival, n}
    BY <1>1 DEF Coming, Ran
  <2>5. QED
    BY <1>2, <2>1, <2>2, <2>3, <2>4 DEF Owed
<1>8. QED
  BY <1>5, <1>6, <1>7 DEF IInv

(* The head leaves the queue, the held posts come in, DONE moves.          *)
LEMMA EndStep == ASSUME IInv, ItemEnd PROVE IInv'
<1> DEFINE rest == Tail(items)
           one == Take([items |-> rest, mail |-> mail])
           two == Take(one)
<1>1. /\ stage = "put" /\ stage' = "idle"
      /\ items' = two.items /\ mail' = two.mail /\ done' = DoneValue(two.items, two.mail)
      /\ UNCHANGED <<arr, l1, todo, urgent, seen, tim6, run, instants, late, calls, due, newest>>
  BY DEF ItemEnd, DoneAfter, synthVars, ghostVars
<1>2. items # <<>> /\ items \in Seq(ItemType) /\ mail \in [Mbox -> MailType] /\ Counted
  BY <1>1 DEF IInv, Shape
<1>3. /\ rest \in Seq(ItemType) /\ Len(rest) \in Nat /\ Len(items) = Len(rest) + 1
      /\ \A i \in 1..Len(rest) : rest[i] = items[i + 1]
  BY <1>2
<1> HIDE DEF rest
<1>4. InQueue(rest, mail)
  <2>1. InQueue(items, mail)
    BY DEF IInv, Ordered
  <2>2. \A i \in 1..Len(rest) : i + 1 \in 1..Len(items) /\ rest[i] = items[i + 1]
    BY <1>3
  <2>3. \A i \in 1..Len(rest) :
          rest[i].num # NoArrival => DoneAt < rest[i].num /\ rest[i].num <= SeenAt
    BY <2>1, <2>2 DEF InQueue
  <2>4. \A i, j \in 1..Len(rest) :
          i < j /\ rest[i].num # NoArrival /\ rest[j].num # NoArrival => rest[i].num < rest[j].num
    <3>1. SUFFICES ASSUME NEW i \in 1..Len(rest), NEW j \in 1..Len(rest), i < j,
                          rest[i].num # NoArrival, rest[j].num # NoArrival
                   PROVE  rest[i].num < rest[j].num
      OBVIOUS
    <3>2. i + 1 < j + 1
      BY <3>1
    <3>3. QED
      BY <2>1, <2>2, <3>1, <3>2 DEF InQueue
  <2>5. \A m \in Mbox : mail[m].at = "held" => \A i \in 1..Len(rest) : rest[i].num < mail[m].num
    BY <2>1, <2>2 DEF InQueue
  <2>6. QED
    BY <2>1, <2>3, <2>4, <2>5 DEF InQueue
<1>5. /\ one = [items |-> one.items, mail |-> one.mail]
      /\ one.items \in Seq(ItemType) /\ one.mail \in [Mbox -> MailType]
      /\ InQueue(one.items, one.mail)
      /\ Coming(one.items, one.mail) = Coming(rest, mail)
      /\ \A m \in Mbox : one.mail[m] = mail[m] \/ (mail[m].at = "held" /\ one.mail[m] = Free)
  BY <1>2, <1>3, <1>4, TakeIs
<1> HIDE DEF one
<1>6. /\ two.items \in Seq(ItemType) /\ two.mail \in [Mbox -> MailType]
      /\ InQueue(two.items, two.mail)
      /\ Coming(two.items, two.mail) = Coming(one.items, one.mail)
      /\ \A m \in Mbox : two.mail[m] = one.mail[m]
                           \/ (one.mail[m].at = "held" /\ two.mail[m] = Free)
  BY <1>2, <1>5, TakeIs
<1> HIDE DEF two
<1>7. /\ \A m \in Mbox : mail'[m] = mail[m] \/ (mail[m].at = "held" /\ mail'[m] = Free)
      /\ Coming(items', mail') = Coming(rest, mail)
  BY <1>1, <1>5, <1>6
<1>8. InQueue(items', mail') /\ items' \in Seq(ItemType) /\ mail' \in [Mbox -> MailType]
  BY <1>1, <1>6
<1>9. Counted' /\ SeenAt' = SeenAt /\ DoneAt <= DoneAt' /\ Ordered'
  BY <1>1, <1>8, DoneSet
<1>10. Shape'
  BY <1>1, <1>8 DEF IInv, Shape, Stages
<1>11. Mails'
  <2>1. \A m \in Mbox : mail'[m].at # "free" => mail'[m] = mail[m]
    BY <1>7 DEF Free
  <2>2. \A m \in Mbox : mail[m].at = "posted" => mail'[m] = mail[m]
    BY <1>7
  <2>3. \A i \in 1..Len(todo) : todo[i] \in Mbox /\ mail'[todo[i]] = mail[todo[i]]
                                /\ mail[todo[i]].at = "posted"
    BY <2>2 DEF IInv, Mails, Shape, Mbox
  <2>4. \A m \in Mbox : mail'[m].at # "free" => mail'[m].num \in 1..arr
    BY <2>1 DEF IInv, Mails
  <2>5. \A m \in Mbox : mail'[m].at = "posted" => SeenAt < mail'[m].num
    BY <2>1 DEF IInv, Mails
  <2>6. Len(todo) = 2 => mail'[todo[1]].num < mail'[todo[2]].num
    BY <2>3 DEF IInv, Mails
  <2>7. \A i \in 1..Len(todo), m \in Mbox :
          mail'[m].at = "posted" /\ (\A j \in 1..Len(todo) : todo[j] # m)
            => mail'[todo[i]].num < mail'[m].num
    BY <2>1, <2>3 DEF IInv, Mails
  <2>8. QED
    BY <1>1, <1>9, <2>3, <2>4, <2>5, <2>6, <2>7 DEF Mails
<1>12. Owed'
  <2> DEFINE n == Head(items).num
  <2>1. due = Coming(items, mail) \ {NoArrival, n}
    BY <1>1 DEF IInv, Owed, Ran
  <2>2. Coming(items, mail) = Coming(rest, mail) \cup {n}
    <3>1. {items[i].num : i \in 1..Len(items)} = {rest[i].num : i \in 1..Len(rest)} \cup {n}
      <4>1. \A i \in 1..Len(items) : i = 1 \/ (i - 1 \in 1..Len(rest) /\ items[i] = rest[i - 1])
        BY <1>3
      <4>2. \A i \in 1..Len(rest) : i + 1 \in 1..Len(items) /\ items[i + 1] = rest[i]
        BY <1>3
      <4>3. n = items[1].num /\ 1 \in 1..Len(items)
        BY <1>2, HeadIs
      <4>4. ASSUME NEW x PROVE x \in {items[i].num : i \in 1..Len(items)}
                                 <=> x = n \/ x \in {rest[i].num : i \in 1..Len(rest)}
        <5>1. ASSUME NEW i \in 1..Len(items), x = items[i].num
              PROVE  x = n \/ x \in {rest[j].num : j \in 1..Len(rest)}
          BY <4>1, <4>3, <5>1
        <5>2. ASSUME NEW i \in 1..Len(rest), x = rest[i].num
              PROVE  x \in {items[j].num : j \in 1..Len(items)}
          BY <4>2, <5>2
        <5>3. QED
          BY <4>3, <5>1, <5>2
      <4>5. QED
        BY <4>4
    <3>2. QED
      BY <3>1 DEF Coming
  <2>3. n # NoArrival => n \notin Coming(rest, mail)
    <3>1. SUFFICES ASSUME n # NoArrival PROVE n \notin Coming(rest, mail)
      OBVIOUS
    <3>2. \A i \in 1..Len(rest) : rest[i].num # n
      <4>1. \A i \in 1..Len(rest) : rest[i].num = NoArrival \/ items[1].num < rest[i].num
        BY <1>2, <1>3, <3>1, HeadIs DEF IInv, Ordered, InQueue
      <4>2. QED
        BY <1>2, <3>1, <4>1, HeadIs, Small DEF Arrivals
    <3>3. \A m \in Mbox : mail[m].at # "free" => mail[m].num # n
      <4>1. SUFFICES ASSUME NEW m \in Mbox, mail[m].at # "free" PROVE mail[m].num # n
        OBVIOUS
      <4>2. mail[m].at \in {"posted", "held"} /\ mail[m].num \in Arrivals
        BY <1>2, <4>1 DEF MailType
      <4>3. CASE mail[m].at = "held"
        BY <1>2, <4>3, <4>2, HeadIs, Small DEF IInv, Ordered, InQueue, Arrivals
      <4>4. CASE mail[m].at = "posted"
        <5>1. SeenAt < mail[m].num /\ SeenAt \in Int
          BY <4>4, Small DEF IInv, Mails, Counted, Arrivals
        <5>2. QED
          BY <1>2, <3>1, <4>2, <5>1, HeadIs, Small DEF Arrivals
      <4>5. QED
        BY <4>2, <4>3, <4>4
    <3>4. QED
      BY <3>2, <3>3 DEF Coming
  <2>4. due = Coming(rest, mail) \ {NoArrival}
    BY <2>1, <2>2, <2>3
  <2>5. Ran' = {NoArrival}
    BY <1>1 DEF Ran
  <2>6. QED
    BY <1>1, <1>7, <1>9, <2>4, <2>5 DEF IInv, Owed
<1>13. Blocks'
  BY <1>1 DEF Blocks
<1>14. QED
  BY <1>9, <1>10, <1>11, <1>12, <1>13 DEF IInv
-----------------------------------------------------------------------------
(* The synth.  An instant that comes while an item writes needs at least   *)
(* the item's own arrival; a block starts before that only by giving up.   *)
LEMMA SynthStep == ASSUME IInv, Synth PROVE IInv'
<1>1. /\ instants' \in 0..MaxInstants /\ tim6' \in Seq(Arrivals)
      /\ run' \in BOOLEAN /\ late' \in BOOLEAN /\ (late => late')
      /\ UNCHANGED <<arr, mail, l1, todo, items, stage, urgent, seen, done, calls, due, newest>>
  <2>1. CASE Tim6
    <3>1. instants' \in 0..MaxInstants
      BY <2>1, EngineQueueAssumption DEF Tim6, IInv, Shape
    <3>2. tim6' = tim6 \/ tim6' = Append(tim6, arr)
      BY <2>1 DEF Tim6
    <3>3. tim6' \in Seq(Arrivals)
      <4>1. tim6 \in Seq(Arrivals) /\ arr \in Arrivals
        BY DEF IInv, Shape, Counted
      <4>2. QED
        BY <3>2, <4>1, AppendIs
    <3>4. late' \in {TRUE, late} /\ run' = run
      BY <2>1 DEF Tim6
    <3>5. QED
      BY <2>1, <3>1, <3>3, <3>4 DEF Tim6, cpuVars, ghostVars, IInv, Shape
  <2>2. ASSUME NEW mixes \in BOOLEAN, Service(mixes) PROVE <1>1!:
    BY <2>2 DEF Service, cpuVars, ghostVars, IInv, Shape
  <2>3. CASE BlockDone
    BY <2>3 DEF BlockDone, cpuVars, ghostVars, IInv, Shape
  <2>4. QED
    BY <2>1, <2>2, <2>3 DEF Synth
<1>2. SeenAt' = SeenAt /\ DoneAt' = DoneAt
  BY <1>1, SameNumbers
<1>3. Counted' /\ Mails' /\ Ordered' /\ Owed'
  BY <1>1, <1>2 DEF IInv, Counted, Mails, Ordered, InQueue, Owed, Coming, Ran
<1>4. Shape'
  BY <1>1 DEF IInv, Shape
<1>5. Blocks'
  <2>1. SUFFICES ASSUME stage \in {"body", "put"}, Head(items).num # NoArrival, ~late'
                 PROVE  ~run' /\ (tim6' # <<>> => DoneAt < Head(tim6'))
    BY <1>1, <1>2 DEF Blocks
  <2>2. /\ ~run /\ (tim6 # <<>> => DoneAt < Head(tim6)) /\ items # <<>>
        /\ tim6 \in Seq(Arrivals)
    BY <1>1, <2>1 DEF IInv, Blocks, Shape
  <2>3. DoneAt < arr
    BY <2>1, <2>2, HeadIs, Small DEF IInv, Counted, Arrivals
  <2>4. DoneAt \in Arrivals /\ done = Num(DoneAt)
    BY Small DEF IInv, Counted, Arrivals
  <2>5. CASE Tim6
    <3>1. run' = run /\ (tim6' = tim6 \/ tim6' = Append(tim6, arr))
      BY <2>5 DEF Tim6
    <3>2. arr \in Arrivals
      BY DEF IInv, Counted
    <3>3. Head(Append(tim6, arr)) = IF tim6 = <<>> THEN arr ELSE Head(tim6)
      <4>1. CASE tim6 = <<>>
        BY <4>1
      <4>2. CASE tim6 # <<>>
        BY <2>2, <3>2, <4>2, AppendIs
      <4>3. QED
        BY <4>1, <4>2
    <3>4. QED
      BY <2>2, <2>3, <3>1, <3>3
  <2>6. ASSUME NEW mixes \in BOOLEAN, Service(mixes) PROVE FALSE
    <3>1. tim6 # <<>> /\ HeadReady
      BY <2>1, <2>6 DEF Service
    <3>2. Head(tim6) \in Arrivals
      BY <2>2, <3>1
    <3>3. Head(tim6) <= DoneAt
      BY <2>4, <3>1, <3>2, ReachedIs DEF HeadReady
    <3>4. QED
      BY <2>2, <2>4, <3>1, <3>2, <3>3, Small DEF Arrivals
  <2>7. CASE BlockDone
    BY <2>2, <2>7 DEF BlockDone
  <2>8. QED
    BY <2>5, <2>6, <2>7 DEF Synth
<1>6. QED
  BY <1>3, <1>4, <1>5 DEF IInv

LEMMA InvStep == IInv /\ [Next]_vars => IInv'
<1>1. SUFFICES ASSUME IInv, [Next]_vars PROVE IInv'
  OBVIOUS
<1>2. ASSUME NEW m \in Mbox, NEW k \in Kinds, Post(m, k) PROVE IInv'
  BY <1>1, <1>2, PostStep
<1>3. CASE L1
  BY <1>1, <1>3, LookStep, ServeStep, L1EndStep DEF L1
<1>4. CASE L2
  BY <1>1, <1>4, BetweenStep, CallStep, StartStep, BeginStep, BodyStep, EndStep DEF L2
<1>5. CASE Synth
  BY <1>1, <1>5, SynthStep
<1>6. CASE UNCHANGED vars
  <2>1. UNCHANGED <<arr, mail, l1, todo, items, stage, urgent, seen, done, tim6, run, instants,
                    late, calls, due, newest>>
    BY <1>6 DEF vars, cpuVars, synthVars, ghostVars
  <2>2. SeenAt' = SeenAt /\ DoneAt' = DoneAt
    BY <2>1, SameNumbers
  <2>3. QED
    BY <1>1, <2>1, <2>2
       DEF IInv, Counted, Shape, Mails, Ordered, InQueue, Owed, Coming, Ran, Blocks
<1>7. QED
  BY <1>1, <1>2, <1>3, <1>4, <1>5, <1>6 DEF Next, Idle

LEMMA InvHolds == Spec => []IInv
BY InvInit, InvStep, PTL DEF Spec
-----------------------------------------------------------------------------
(* The range of every variable; DONE and SEEN stay numbers of the register. *)
THEOREM TypeCorrect == Spec => []TypeOK
<1>1. IInv => TypeOK
  <2>1. SUFFICES ASSUME IInv PROVE TypeOK
    OBVIOUS
  <2>2. seen \in 0..(NumMod - 1) /\ done \in 0..(NumMod - 1) /\ arr \in 0..MaxPosts
    BY <2>1, NumIs, Small DEF IInv, Counted, Arrivals
  <2>3. todo \in Seq(Mbox)
    <3>1. /\ <<>> \in Seq(Mbox) /\ <<"A">> \in Seq(Mbox) /\ <<"B">> \in Seq(Mbox)
          /\ <<"A", "B">> \in Seq(Mbox) /\ <<"B", "A">> \in Seq(Mbox)
      BY DEF Mbox
    <3>2. QED
      BY <2>1, <3>1 DEF IInv, Shape
  <2>4. due \subseteq 1..MaxPosts
    <3>1. SUFFICES ASSUME NEW k \in due PROVE k \in 1..MaxPosts
      OBVIOUS
    <3>2. k \in Coming(items, mail) /\ k # NoArrival
      BY <2>1 DEF IInv, Owed, Ran
    <3>3. \A i \in 1..Len(items) : items[i] \in ItemType
      BY <2>1 DEF IInv, Shape
    <3>4. \A m \in Mbox : mail[m].num \in Arrivals
      BY <2>1 DEF IInv, Shape, MailType
    <3>5. k \in Arrivals
      BY <3>2, <3>3, <3>4 DEF Coming, ItemType
    <3>6. QED
      BY <3>2, <3>5, Small DEF Arrivals, NoArrival
  <2>5. QED
    BY <2>1, <2>2, <2>3, <2>4 DEF TypeOK, IInv, Shape, Arrivals, ItemType, MailType
<1>2. QED
  BY <1>1, InvHolds, PTL

(* DONE never passes an arrival whose engine part has not run, for every    *)
(* width of the numbers and wherever they start.                            *)
THEOREM DoneIsSafe == Spec => []DoneSafe
<1>1. IInv => DoneSafe
  <2>1. SUFFICES ASSUME IInv, NEW k \in due PROVE ~Reached(done, Num(k))
    BY DEF DoneSafe
  <2>2. DoneAt \in Arrivals /\ done = Num(DoneAt)
    BY <2>1, Small DEF IInv, Counted, Arrivals
  <2>3. k \in Coming(items, mail) /\ k # NoArrival
    BY <2>1 DEF IInv, Owed, Ran
  <2>4. k \in Arrivals /\ DoneAt < k
    <3>1. CASE \E i \in 1..Len(items) : k = items[i].num
      <4>1. \A i \in 1..Len(items) : items[i] \in ItemType
        BY <2>1 DEF IInv, Shape
      <4>2. QED
        BY <2>1, <2>3, <3>1, <4>1 DEF IInv, Ordered, InQueue, ItemType
    <3>2. CASE \E m \in Mbox : mail[m].at # "free" /\ k = mail[m].num
      <4>1. PICK m \in Mbox : mail[m].at # "free" /\ k = mail[m].num
        BY <3>2
      <4>2. mail[m].at \in {"posted", "held"} /\ k \in Arrivals
        BY <2>1, <4>1 DEF IInv, Shape, MailType
      <4>3. mail[m].at = "posted" => SeenAt < k /\ DoneAt <= SeenAt /\ SeenAt \in Int
        BY <2>1, <4>1, Small DEF IInv, Mails, Counted, Arrivals
      <4>4. mail[m].at = "held" => DoneAt < k
        BY <2>1, <4>1 DEF IInv, Ordered, InQueue
      <4>5. QED
        BY <2>2, <4>2, <4>3, <4>4, Small DEF Arrivals
    <3>3. QED
      BY <2>3, <3>1, <3>2 DEF Coming
  <2>5. QED
    BY <2>2, <2>4, ReachedIs, Small DEF Arrivals
<1>2. QED
  BY <1>1, InvHolds, PTL

(* The engine parts run in arrival order, held back or not.                 *)
THEOREM InArrivalOrder == Spec => []RunsInOrder
<1>1. IInv => RunsInOrder
  BY DEF IInv, Owed, RunsInOrder
<1>2. QED
  BY <1>1, InvHolds, PTL

(* A block sees the whole of an arrival's writes or nothing of them, until  *)
(* the synth gives up a wait.                                               *)
THEOREM BlocksAreWhole == Spec => []BlockWhole
<1>1. IInv => BlockWhole
  BY DEF IInv, Blocks, BlockWhole
<1>2. QED
  BY <1>1, InvHolds, PTL
=============================================================================
