---------------------------- MODULE LevelsProofs ----------------------------
(***************************************************************************)
(* Levels for every size of the two queues and every bound: no wake-up is  *)
(* lost, one L2c pass at a time, bit 14 set while a job waits, an item is  *)
(* never cut by the urgent finish, and the job queue is the cart chip's.   *)
(* The invariants are not inductive; what makes them so is Shape (where    *)
(* the L2b frames can be), Work (what a frame that runs an item or a job   *)
(* holds), Armed (when the urgent slot is right) and the four Cover        *)
(* conditions (who will still look at what is left over).                  *)
(***************************************************************************)
EXTENDS Levels, TLAPS, SequenceTheorems

\* Frames below the newest have opened MSI; at most one of those up to any
\* frame that has opened it is in a pass, and l2c_active says so.
Shape ==
  /\ \A f \in Frames : /\ f > depth => pc[f] = "off"
                       /\ f < depth => pc[f] \in MsiOpenPc
                       /\ f = depth => pc[f] # "off"
  /\ \A f, g \in Frames : g < f /\ pc[f] \in MsiOpenPc => pc[g] \notin ActivePc
  /\ active <=> \E f \in Frames : pc[f] \in ActivePc

\* The running item is the newest frame's, and is still in the queue; the
\* running job too, and a frame that waits has handed an item over.
Work ==
  /\ busy <=> depth > 0 /\ pc[depth] \in {"body", "finish"}
  /\ busy => items # <<>>
  /\ \A f \in Frames : pc[f] \in {"job", "wait", "tail"} => jobs # <<>>
  /\ \A f \in Frames : pc[f] = "wait" => calls # 0

\* Labels from which a frame goes back to clear MSIP and look at everything,
\* and those of a job, whose tail raises MSI.
Again == {"clear", "count", "mask", "start", "body", "finish", "arm", "unmask",
          "why", "pass", "passed"}
InJob == {"job", "wait", "tail", "tailpass"}

CoverItems ==
  items # <<>> => \/ msip \/ l1
                  \/ \E f \in Frames : pc[f] \in Again \cup InJob \cup {"look"}

CoverOwed ==
  PassOwed => \/ msip
              \/ \E f \in Frames : pc[f] \in Again \cup InJob \cup {"look", "owed"}

CoverJobs ==
  jobs # <<>> =>
    \/ msip
    \/ active /\ missed
    \/ \E f \in Frames :
         \/ pc[f] \in Again \cup InJob \cup {"look", "owed", "gate", "open", "jlook"}
         \/ pc[f] \in {"leave", "close"} /\ (ran[f] \/ missed)

\* Outside the item that is about to change it, the urgent slot is right.
Armed ==
  /\ ~l1
  /\ depth > 0 => pc[depth] \notin {"start", "body", "finish", "arm"}
  => (urgOn <=> TickWaits(items, busy))

\* song_main_pass does nothing while a job runs; song_pass_hold says so in a job only.
Held == hold => \E f \in Frames : pc[f] \in {"job", "wait", "tail"}

\* What an item or a job has left stale is seen by a pass still to come: a queued job's
\* tail asks for one, the tail that asks, the pass asked for, or a later item's.
Finishing == depth > 0 /\ pc[depth] = "finish"
CoverStale ==
  stale \cap {"item", "job"} # {} =>
    \/ jobs # <<>> \/ passTail
    \/ \E f \in Frames : pc[f] = "tailpass"
    \/ depth > 0 /\ pc[depth] = "pass" /\ "tail" \in why
    \/ items # <<>> /\ (Finishing => Len(items) > 1)

IInv ==
  /\ TypeOK /\ Shape /\ Work /\ Armed /\ Bit14Tracks /\ Held
  /\ CoverItems /\ CoverOwed /\ CoverJobs /\ CoverStale
-----------------------------------------------------------------------------
\* song_tick_due's answer is a truth value.
LEMMA TickWaitsBool == \A it, b : TickWaits(it, b) \in BOOLEAN
  BY DEF TickWaits

\* A job hands over two engine items at most.
LEMMA CallsRange == \A k : CallsOf(k) \subseteq 0..2
  BY DEF CallsOf

\* What the urgent finish leaves of the engine queue is a queue.
LEMMA SuffixType ==
  ASSUME NEW S, NEW s \in Seq(S), NEW k \in 1..Len(s)
  PROVE  SubSeq(s, k + 1, Len(s)) \in Seq(S) /\ Len(SubSeq(s, k + 1, Len(s))) <= Len(s)
<1>1. Len(s) \in Nat /\ \A i \in (k + 1)..Len(s) : s[i] \in S
  BY LenProperties, ElementOfSeq
<1>2. QED
  BY <1>1, SubSeqProperties

\* A push into a queue that is not full fits.
LEMMA AppendFits ==
  ASSUME NEW S, NEW s \in Seq(S), NEW e \in S, NEW N \in Nat, ~(Len(s) >= N)
  PROVE  Append(s, e) \in Seq(S) /\ Len(Append(s, e)) <= N
  BY LenProperties

\* A queue is not empty after a push.
LEMMA AppendNotEmpty ==
  ASSUME NEW S, NEW s \in Seq(S), NEW e \in S
  PROVE  Append(s, e) # <<>>
<1>1. Len(Append(s, e)) = Len(s) + 1 /\ Len(s) \in Nat
  BY LenProperties
<1>2. QED
  BY <1>1

\* Two items leave one.
LEMMA TailNotEmpty ==
  ASSUME NEW S, NEW s \in Seq(S), Len(s) > 1
  PROVE  Tail(s) # <<>>
<1>1. s # <<>> /\ Len(s) \in Nat
  BY LenProperties, EmptySeq
<1>2. Tail(s) \in Seq(S) /\ Len(Tail(s)) = Len(s) - 1
  BY <1>1, HeadTailProperties
<1> DEFINE k == Len(s)
<1>3. k \in Nat /\ k > 1
  BY <1>1
<1>4. Len(Tail(s)) = k - 1
  BY <1>2
<1> HIDE DEF k
<1>5. k - 1 # 0
  BY ONLY <1>3
<1>6. QED
  BY <1>4, <1>5, EmptySeq

\* A job's item never makes a tick wait.
LEMMA CallIsNoTick ==
  ASSUME NEW s \in Seq(ItemKinds), NEW b \in BOOLEAN
  PROVE  TickWaits(Append(s, "call"), b) <=> TickWaits(s, b)
<1>1. /\ Len(s) \in Nat /\ Len(Append(s, "call")) = Len(s) + 1
      /\ \A i \in 1..Len(s) : Append(s, "call")[i] = s[i]
      /\ Append(s, "call")[Len(s) + 1] = "call"
  BY LenProperties DEF ItemKinds
<1>2. QED
  BY <1>1 DEF TickWaits

\* Every step keeps the types of the levels and frames.
LEMMA CpuStep ==
  ASSUME TypeCpu, [Next]_vars
  PROVE  TypeCpu'
<1> USE LevelsAssumption
        DEF TypeCpu, Frames, PcLabels, MsiOpenPc, MtiOffPc, ActivePc, vars, l1Vars,
          synthVars, frameVars, localVars, l2cVars, jobVars, itemVars, owedVars,
          passVars
<1>1. ASSUME NEW mixed \in BOOLEAN, Instant(mixed) PROVE TypeCpu'
  BY <1>1 DEF Instant
<1>2. CASE L1Enter
  BY <1>2 DEF L1Enter
<1>3. ASSUME NEW k \in PostKinds, L1Post(k) PROVE TypeCpu'
  BY <1>3 DEF L1Post, HasItem, HasJob, ItemOf
<1>4. CASE L1Block
  BY <1>4 DEF L1Block
<1>5. CASE L1End
  BY <1>5 DEF L1End, L1Raise, PostOwesPass
<1>6. CASE UrgentFinish
  BY <1>6 DEF UrgentFinish, MtiOpen, ItemPass
<1>7. CASE L2bEnter
  BY <1>7 DEF L2bEnter, Room
<1>8. CASE Clear
  BY <1>8 DEF Clear, At, Jump, Goto
<1>9. CASE Look
  BY <1>9 DEF Look, At, Jump, Goto
<1>10. CASE Count
  BY <1>10 DEF Count, At, Jump, Goto
<1>11. CASE Mask
  BY <1>11 DEF Mask, At, Jump, Goto
<1>12. CASE Start
  BY <1>12 DEF Start, At, Jump, Goto
<1>13. CASE Body
  BY <1>13 DEF Body, ItemPass, At, Jump, Goto
<1>14. CASE Finish
  BY <1>14 DEF Finish, At, Jump, Goto
<1>15. CASE Arm
  BY <1>15 DEF Arm, ArmAfter, At, Jump, Goto
<1>16. CASE Unmask
  BY <1>16 DEF Unmask, Covered, At, Jump, Goto
<1>17. CASE Owed
  BY <1>17 DEF Owed, PassOwed, At, Jump, Goto
<1>18. CASE Why
  BY <1>18 DEF Why, At, Jump, Goto
<1>19. CASE Pass
  BY <1>19 DEF Pass, At, Jump, Goto
<1>20. CASE Passed
  BY <1>20 DEF Passed, Covered, At, Jump, Goto
<1>21. CASE Gate
  BY <1>21 DEF Gate, PassBelow, TellBelow, At, Jump, Goto
<1>22. CASE Open
  BY <1>22 DEF Open, PassBelow, At, Jump, Goto
<1>23. CASE JLook
  BY <1>23 DEF JLook, At, Jump, Goto
<1>24. CASE JobRun
  BY <1>24 DEF JobRun, At, Jump, Goto
<1>25. CASE JobWait
  BY <1>25 DEF JobWait, At, Jump, Goto
<1>26. CASE JobTail
  BY <1>26 DEF JobTail, Bit14After, At, Jump, Goto
<1>27. CASE TailPass
  BY <1>27 DEF TailPass, TailOwes, At, Jump, Goto
<1>28. CASE Leave
  BY <1>28 DEF Leave, At, Jump, Goto
<1>29. CASE Close
  BY <1>29 DEF Close, At, Jump, Goto
<1>30. CASE Exit
  BY <1>30 DEF Exit, At, Jump, Goto
<1>31. CASE UNCHANGED vars
  BY <1>31
<1>32. QED
  BY <1>1, <1>2, <1>3, <1>4, <1>5, <1>6, <1>7, <1>8, <1>9, <1>10, <1>11, <1>12, <1>13,
    <1>14, <1>15, <1>16, <1>17, <1>18, <1>19, <1>20, <1>21, <1>22, <1>23, <1>24, <1>25,
    <1>26, <1>27, <1>28, <1>29, <1>30, <1>31 DEF Next, Frame, ThreadIdle

\* Every step keeps the types of the main-loop pass's counters.
LEMMA PassStep ==
  ASSUME TypePass, TypeWork, [Next]_vars
  PROVE  TypePass'
<1> USE LevelsAssumption
        DEF TypePass, TypeWork, Sources, vars, l1Vars, synthVars, frameVars, localVars,
          l2cVars, jobVars, itemVars, owedVars, passVars
<1>1. ASSUME NEW mixed \in BOOLEAN, Instant(mixed) PROVE TypePass'
  BY <1>1 DEF Instant
<1>2. CASE L1Enter
  BY <1>2 DEF L1Enter
<1>3. ASSUME NEW k \in PostKinds, L1Post(k) PROVE TypePass'
  BY <1>3 DEF L1Post, HasItem, HasJob, ItemOf
<1>4. CASE L1Block
  BY <1>4 DEF L1Block
<1>5. CASE L1End
  BY <1>5 DEF L1End, L1Raise, PostOwesPass
<1>6. CASE UrgentFinish
  BY <1>6 DEF UrgentFinish, MtiOpen, ItemPass
<1>7. CASE L2bEnter
  BY <1>7 DEF L2bEnter, Room
<1>8. CASE Clear
  BY <1>8 DEF Clear, At, Jump, Goto
<1>9. CASE Look
  BY <1>9 DEF Look, At, Jump, Goto
<1>10. CASE Count
  BY <1>10 DEF Count, At, Jump, Goto
<1>11. CASE Mask
  BY <1>11 DEF Mask, At, Jump, Goto
<1>12. CASE Start
  BY <1>12 DEF Start, At, Jump, Goto
<1>13. CASE Body
  BY <1>13 DEF Body, ItemPass, At, Jump, Goto
<1>14. CASE Finish
  BY <1>14 DEF Finish, At, Jump, Goto
<1>15. CASE Arm
  BY <1>15 DEF Arm, ArmAfter, At, Jump, Goto
<1>16. CASE Unmask
  BY <1>16 DEF Unmask, Covered, At, Jump, Goto
<1>17. CASE Owed
  BY <1>17 DEF Owed, PassOwed, At, Jump, Goto
<1>18. CASE Why
  BY <1>18 DEF Why, At, Jump, Goto
<1>19. CASE Pass
  BY <1>19 DEF Pass, At, Jump, Goto
<1>20. CASE Passed
  BY <1>20 DEF Passed, Covered, At, Jump, Goto
<1>21. CASE Gate
  BY <1>21 DEF Gate, PassBelow, TellBelow, At, Jump, Goto
<1>22. CASE Open
  BY <1>22 DEF Open, PassBelow, At, Jump, Goto
<1>23. CASE JLook
  BY <1>23 DEF JLook, At, Jump, Goto
<1>24. CASE JobRun
  BY <1>24 DEF JobRun, At, Jump, Goto
<1>25. CASE JobWait
  BY <1>25 DEF JobWait, At, Jump, Goto
<1>26. CASE JobTail
  BY <1>26 DEF JobTail, Bit14After, At, Jump, Goto
<1>27. CASE TailPass
  BY <1>27 DEF TailPass, TailOwes, At, Jump, Goto
<1>28. CASE Leave
  BY <1>28 DEF Leave, At, Jump, Goto
<1>29. CASE Close
  BY <1>29 DEF Close, At, Jump, Goto
<1>30. CASE Exit
  BY <1>30 DEF Exit, At, Jump, Goto
<1>31. CASE UNCHANGED vars
  BY <1>31
<1>32. QED
  BY <1>1, <1>2, <1>3, <1>4, <1>5, <1>6, <1>7, <1>8, <1>9, <1>10, <1>11, <1>12, <1>13,
    <1>14, <1>15, <1>16, <1>17, <1>18, <1>19, <1>20, <1>21, <1>22, <1>23, <1>24, <1>25,
    <1>26, <1>27, <1>28, <1>29, <1>30, <1>31 DEF Next, Frame, ThreadIdle

\* Every step keeps the types of the two queues: none is popped when empty.
LEMMA WorkTypeStep ==
  ASSUME TypeWork, TypeCpu, Work, [Next]_vars
  PROVE  TypeWork'
<1> USE LevelsAssumption
        DEF TypeWork, TypeCpu, JobKinds, ItemKinds, PostKinds, Work, Frames, vars,
          l1Vars, synthVars, frameVars, localVars, l2cVars, jobVars, itemVars, owedVars,
          passVars
<1>1. ASSUME NEW mixed \in BOOLEAN, Instant(mixed) PROVE TypeWork'
  BY <1>1 DEF Instant
<1>2. CASE L1Enter
  BY <1>2 DEF L1Enter
<1>3. ASSUME NEW k \in PostKinds, L1Post(k) PROVE TypeWork'
  <2>1. jobs' \in Seq(JobKinds) /\ Len(jobs') <= JobSlots
    <3>1. CASE HasJob(k)
      <4>1. k \in JobKinds /\ ~(Len(jobs) >= JobSlots) /\ jobs' = Append(jobs, k)
        BY <1>3, <3>1, LenProperties DEF L1Post, HasJob
      <4>2. QED
        BY <4>1, AppendFits
    <3>2. CASE ~HasJob(k)
      BY <1>3, <3>2 DEF L1Post
    <3>3. QED
      BY <3>1, <3>2
  <2>2. items' \in Seq(ItemKinds) /\ Len(items') <= QN
    <3>1. CASE HasItem(k)
      <4>1. /\ ItemOf(k) \in ItemKinds /\ ~(Len(items) >= QN)
            /\ items' = Append(items, ItemOf(k))
        BY <1>3, <3>1 DEF L1Post, ItemOf, QueueFull
      <4>2. QED
        BY <4>1, AppendFits
    <3>2. CASE ~HasItem(k)
      BY <1>3, <3>2 DEF L1Post
    <3>3. QED
      BY <3>1, <3>2
  <2>3. bit14' \in BOOLEAN
    BY <1>3 DEF L1Post, HasJob
  <2>4. QED
    BY <1>3, <2>1, <2>2, <2>3 DEF L1Post
<1>4. CASE L1Block
  BY <1>4 DEF L1Block
<1>5. CASE L1End
  BY <1>5, TickWaitsBool DEF L1End, L1Raise, PostOwesPass
<1>6. CASE UrgentFinish
  <2>1. items' \in Seq(ItemKinds) /\ Len(items') <= QN
    <3>1. CASE busy
      BY <1>6, <3>1 DEF UrgentFinish
    <3>2. CASE ~busy
      <4>1. PICK k \in 1..Len(items) : items' = SubSeq(items, k + 1, Len(items))
        BY <1>6, <3>2 DEF UrgentFinish
      <4>2. Len(items) \in Nat
        BY LenProperties
      <4>3. QED
        BY <4>1, <4>2, SuffixType
    <3>3. QED
      BY <3>1, <3>2
  <2>2. urgOn' \in BOOLEAN
    BY <1>6, TickWaitsBool DEF UrgentFinish
  <2>3. QED
    BY <1>6, <2>1, <2>2 DEF UrgentFinish
<1>7. CASE L2bEnter
  BY <1>7 DEF L2bEnter, Room
<1>8. CASE Clear
  BY <1>8 DEF Clear, At, Jump, Goto
<1>9. CASE Look
  BY <1>9 DEF Look, At, Jump, Goto
<1>10. CASE Count
  BY <1>10 DEF Count, At, Jump, Goto
<1>11. CASE Mask
  BY <1>11 DEF Mask, At, Jump, Goto
<1>12. CASE Start
  BY <1>12 DEF Start, At, Jump, Goto
<1>13. CASE Body
  BY <1>13 DEF Body, ItemPass, At, Jump, Goto
<1>14. CASE Finish
  <2>1. items # <<>>
    BY <1>14 DEF Finish, At
  <2>2. Tail(items) \in Seq(ItemKinds) /\ Len(Tail(items)) <= QN
    BY <2>1, HeadTailProperties, LenProperties
  <2>3. QED
    BY <1>14, <2>2 DEF Finish
<1>15. CASE Arm
  BY <1>15, TickWaitsBool DEF Arm, ArmAfter, At, Jump, Goto
<1>16. CASE Unmask
  BY <1>16 DEF Unmask, Covered, At, Jump, Goto
<1>17. CASE Owed
  BY <1>17 DEF Owed, PassOwed, At, Jump, Goto
<1>18. CASE Why
  BY <1>18 DEF Why, At, Jump, Goto
<1>19. CASE Pass
  BY <1>19 DEF Pass, At, Jump, Goto
<1>20. CASE Passed
  BY <1>20 DEF Passed, Covered, At, Jump, Goto
<1>21. CASE Gate
  BY <1>21 DEF Gate, PassBelow, TellBelow, At, Jump, Goto
<1>22. CASE Open
  BY <1>22 DEF Open, PassBelow, At, Jump, Goto
<1>23. CASE JLook
  <2>1. calls' \in 0..2 /\ hold' \in BOOLEAN /\ UNCHANGED <<jobs, bit14>>
    BY <1>23, CallsRange DEF JLook
  <2>2. QED
    BY <1>23, <2>1 DEF JLook
<1>24. CASE JobRun
  <2>1. items' \in Seq(ItemKinds) /\ Len(items') <= QN
    <3>1. CASE items' = items
      BY <3>1
    <3>2. CASE items' # items
      <4>1. items' = Append(items, "call") /\ ~(Len(items) >= QN)
        BY <1>24, <3>2 DEF JobRun, QueueFull
      <4>2. QED
        BY <4>1, AppendFits
    <3>3. QED
      BY <3>1, <3>2
  <2>2. QED
    BY <1>24, <2>1 DEF JobRun
<1>25. CASE JobWait
  BY <1>25 DEF JobWait, At, Jump, Goto
<1>26. CASE JobTail
  <2>1. jobs # <<>>
    BY <1>26 DEF JobTail, At
  <2>2. Tail(jobs) \in Seq(JobKinds) /\ Len(Tail(jobs)) <= JobSlots
    BY <2>1, HeadTailProperties, LenProperties
  <2>3. bit14' \in BOOLEAN
    BY <1>26 DEF JobTail, Bit14After
  <2>4. QED
    BY <1>26, <2>2, <2>3 DEF JobTail
<1>27. CASE TailPass
  BY <1>27 DEF TailPass, TailOwes, At, Jump, Goto
<1>28. CASE Leave
  BY <1>28 DEF Leave, At, Jump, Goto
<1>29. CASE Close
  BY <1>29 DEF Close, At, Jump, Goto
<1>30. CASE Exit
  BY <1>30 DEF Exit, At, Jump, Goto
<1>31. CASE UNCHANGED vars
  BY <1>31
<1>32. QED
  BY <1>1, <1>2, <1>3, <1>4, <1>5, <1>6, <1>7, <1>8, <1>9, <1>10, <1>11, <1>12, <1>13,
    <1>14, <1>15, <1>16, <1>17, <1>18, <1>19, <1>20, <1>21, <1>22, <1>23, <1>24, <1>25,
    <1>26, <1>27, <1>28, <1>29, <1>30, <1>31 DEF Next, Frame, ThreadIdle

\* Every step keeps the frames in shape: a frame enters a pass only when no frame
\* below it is in one.
LEMMA ShapeStep ==
  ASSUME TypeCpu, Shape, [Next]_vars
  PROVE  Shape'
<1> USE LevelsAssumption
        DEF Shape, TypeCpu, Frames, ActivePc, MsiOpenPc, vars, l1Vars, synthVars,
          frameVars, localVars, l2cVars, jobVars, itemVars, owedVars, passVars
<1>1. ASSUME NEW mixed \in BOOLEAN, Instant(mixed) PROVE Shape'
  BY <1>1 DEF Instant
<1>2. CASE L1Enter
  BY <1>2 DEF L1Enter
<1>3. ASSUME NEW k \in PostKinds, L1Post(k) PROVE Shape'
  BY <1>3 DEF L1Post, HasItem, HasJob, ItemOf
<1>4. CASE L1Block
  BY <1>4 DEF L1Block
<1>5. CASE L1End
  BY <1>5 DEF L1End, L1Raise, PostOwesPass
<1>6. CASE UrgentFinish
  BY <1>6 DEF UrgentFinish, MtiOpen, ItemPass
<1>7. CASE L2bEnter
  BY <1>7 DEF L2bEnter, Room
<1>8. CASE Clear
  BY <1>8 DEF Clear, At, Jump, Goto
<1>9. CASE Look
  BY <1>9 DEF Look, At, Jump, Goto
<1>10. CASE Count
  BY <1>10 DEF Count, At, Jump, Goto
<1>11. CASE Mask
  BY <1>11 DEF Mask, At, Jump, Goto
<1>12. CASE Start
  BY <1>12 DEF Start, At, Jump, Goto
<1>13. CASE Body
  BY <1>13 DEF Body, ItemPass, At, Jump, Goto
<1>14. CASE Finish
  BY <1>14 DEF Finish, At, Jump, Goto
<1>15. CASE Arm
  BY <1>15 DEF Arm, ArmAfter, At, Jump, Goto
<1>16. CASE Unmask
  BY <1>16 DEF Unmask, Covered, At, Jump, Goto
<1>17. CASE Owed
  BY <1>17 DEF Owed, PassOwed, At, Jump, Goto
<1>18. CASE Why
  BY <1>18 DEF Why, At, Jump, Goto
<1>19. CASE Pass
  BY <1>19 DEF Pass, At, Jump, Goto
<1>20. CASE Passed
  BY <1>20 DEF Passed, Covered, At, Jump, Goto
<1>21. CASE Gate
  BY <1>21 DEF Gate, PassBelow, TellBelow, At, Jump, Goto
<1>22. CASE Open
  BY <1>22 DEF Open, PassBelow, At, Jump, Goto
<1>23. CASE JLook
  BY <1>23 DEF JLook, At, Jump, Goto
<1>24. CASE JobRun
  BY <1>24 DEF JobRun, At, Jump, Goto
<1>25. CASE JobWait
  BY <1>25 DEF JobWait, At, Jump, Goto
<1>26. CASE JobTail
  BY <1>26 DEF JobTail, Bit14After, At, Jump, Goto
<1>27. CASE TailPass
  BY <1>27 DEF TailPass, TailOwes, At, Jump, Goto
<1>28. CASE Leave
  BY <1>28 DEF Leave, At, Jump, Goto
<1>29. CASE Close
  BY <1>29 DEF Close, At, Jump, Goto
<1>30. CASE Exit
  BY <1>30 DEF Exit, At, Jump, Goto
<1>31. CASE UNCHANGED vars
  BY <1>31
<1>32. QED
  BY <1>1, <1>2, <1>3, <1>4, <1>5, <1>6, <1>7, <1>8, <1>9, <1>10, <1>11, <1>12, <1>13,
    <1>14, <1>15, <1>16, <1>17, <1>18, <1>19, <1>20, <1>21, <1>22, <1>23, <1>24, <1>25,
    <1>26, <1>27, <1>28, <1>29, <1>30, <1>31 DEF Next, Frame, ThreadIdle

\* Every step keeps what a running item or job relies on.
LEMMA WorkStep ==
  ASSUME TypeCpu, TypeWork, Shape, Work, [Next]_vars
  PROVE  Work'
<1> USE LevelsAssumption
        DEF Work, Shape, TypeCpu, TypeWork, Frames, ActivePc, MsiOpenPc, MtiOffPc,
          PcLabels, MtiOpen, vars, l1Vars, synthVars, frameVars, localVars, l2cVars,
          jobVars, itemVars, owedVars, passVars
<1>1. ASSUME NEW mixed \in BOOLEAN, Instant(mixed) PROVE Work'
  BY <1>1 DEF Instant
<1>2. CASE L1Enter
  BY <1>2 DEF L1Enter
<1>3. ASSUME NEW k \in PostKinds, L1Post(k) PROVE Work'
  <2>1. jobs # <<>> => jobs' # <<>>
    BY <1>3, AppendNotEmpty DEF L1Post, TypeWork, HasJob, JobKinds
  <2>2. items # <<>> => items' # <<>>
    <3>1. items' = items \/ items' = Append(items, ItemOf(k))
      BY <1>3 DEF L1Post
    <3>2. ItemOf(k) \in ItemKinds /\ items \in Seq(ItemKinds)
      BY DEF ItemOf, ItemKinds, TypeWork
    <3>3. QED
      BY <3>1, <3>2, AppendNotEmpty
  <2>3. UNCHANGED <<depth, pc, busy, calls>>
    BY <1>3 DEF L1Post, frameVars
  <2>4. QED
    BY <2>1, <2>2, <2>3 DEF Work
<1>4. CASE L1Block
  BY <1>4 DEF L1Block
<1>5. CASE L1End
  BY <1>5 DEF L1End, L1Raise, PostOwesPass
<1>6. CASE UrgentFinish
  BY <1>6 DEF UrgentFinish, MtiOpen, ItemPass
<1>7. CASE L2bEnter
  BY <1>7 DEF L2bEnter, Room
<1>8. CASE Clear
  BY <1>8 DEF Clear, At, Jump, Goto
<1>9. CASE Look
  BY <1>9 DEF Look, At, Jump, Goto
<1>10. CASE Count
  BY <1>10 DEF Count, At, Jump, Goto
<1>11. CASE Mask
  BY <1>11 DEF Mask, At, Jump, Goto
<1>12. CASE Start
  <2>1. ~busy /\ depth \in Frames /\ UNCHANGED <<depth, items, jobs, calls>>
    BY <1>12 DEF Start, At, Jump, Goto, Work, TypeCpu, Frames, jobVars
  <2>2. CASE items = <<>>
    BY <1>12, <2>1, <2>2 DEF Start, Jump, Goto, Work, TypeCpu, TypeWork
  <2>3. CASE items # <<>>
    <3>1. busy' /\ pc' = [pc EXCEPT ![depth] = "body"]
      BY <1>12, <2>1, <2>3 DEF Start, Jump, Goto
    <3>2. QED
      BY <2>1, <2>3, <3>1 DEF Work, TypeCpu, Frames
  <2>4. QED
    BY <2>2, <2>3
<1>13. CASE Body
  BY <1>13 DEF Body, ItemPass, At, Jump, Goto
<1>14. CASE Finish
  BY <1>14 DEF Finish, At, Jump, Goto
<1>15. CASE Arm
  BY <1>15 DEF Arm, ArmAfter, At, Jump, Goto
<1>16. CASE Unmask
  BY <1>16 DEF Unmask, Covered, At, Jump, Goto
<1>17. CASE Owed
  BY <1>17 DEF Owed, PassOwed, At, Jump, Goto
<1>18. CASE Why
  BY <1>18 DEF Why, At, Jump, Goto
<1>19. CASE Pass
  BY <1>19 DEF Pass, At, Jump, Goto
<1>20. CASE Passed
  BY <1>20 DEF Passed, Covered, At, Jump, Goto
<1>21. CASE Gate
  BY <1>21 DEF Gate, PassBelow, TellBelow, At, Jump, Goto
<1>22. CASE Open
  BY <1>22 DEF Open, PassBelow, At, Jump, Goto
<1>23. CASE JLook
  BY <1>23 DEF JLook, At, Jump, Goto
<1>24. CASE JobRun
  BY <1>24 DEF JobRun, At, Jump, Goto
<1>25. CASE JobWait
  <2>1. depth \in Frames /\ pc[depth] = "wait" /\ UNCHANGED <<depth, items, busy, jobs>>
    BY <1>25 DEF JobWait, At, Jump, Goto
  <2>2. PICK label \in {"wait", "job"} :
          /\ pc' = [pc EXCEPT ![depth] = label]
          /\ label = "wait" => UNCHANGED calls
    BY <1>25 DEF JobWait, At, Jump, Goto
  <2>3. pc'[depth] = label /\ \A f \in Frames \ {depth} : pc'[f] = pc[f] /\ pc[f] # "wait"
    BY <2>1, <2>2
  <2>4. \A f \in Frames : pc'[f] = "wait" => calls' # 0
    BY <2>1, <2>2, <2>3
  <2>5. jobs # <<>>
    BY <2>1
  <2>6. busy' => items' # <<>>
    BY <2>1
  <2>7. busy' <=> depth' > 0 /\ pc'[depth'] \in {"body", "finish"}
    BY <2>1, <2>3
  <2>8. QED
    BY <2>1, <2>4, <2>5, <2>6, <2>7
<1>26. CASE JobTail
  BY <1>26 DEF JobTail, Bit14After, At, Jump, Goto
<1>27. CASE TailPass
  BY <1>27 DEF TailPass, TailOwes, At, Jump, Goto
<1>28. CASE Leave
  BY <1>28 DEF Leave, At, Jump, Goto
<1>29. CASE Close
  BY <1>29 DEF Close, At, Jump, Goto
<1>30. CASE Exit
  <2>1. /\ depth \in Frames /\ depth' = depth - 1 /\ ~busy
        /\ pc' = [pc EXCEPT ![depth] = "off"]
        /\ UNCHANGED <<items, jobs, calls, busy>>
    BY <1>30 DEF Exit, At, Work, TypeCpu, Frames, jobVars, itemVars
  <2>2. ASSUME depth - 1 > 0 PROVE pc'[depth - 1] \in MsiOpenPc
    <3>1. depth - 1 \in Frames /\ depth - 1 < depth /\ depth - 1 # depth
      BY <2>1, <2>2, LevelsAssumption DEF Frames, TypeCpu
    <3>2. pc'[depth - 1] = pc[depth - 1]
      BY <2>1, <3>1 DEF TypeCpu
    <3>3. QED
      BY <3>1, <3>2 DEF Shape
  <2>3. QED
    BY <2>1, <2>2 DEF Work, TypeCpu, Frames, MsiOpenPc, ActivePc
<1>31. CASE UNCHANGED vars
  BY <1>31
<1>32. QED
  BY <1>1, <1>2, <1>3, <1>4, <1>5, <1>6, <1>7, <1>8, <1>9, <1>10, <1>11, <1>12, <1>13,
    <1>14, <1>15, <1>16, <1>17, <1>18, <1>19, <1>20, <1>21, <1>22, <1>23, <1>24, <1>25,
    <1>26, <1>27, <1>28, <1>29, <1>30, <1>31 DEF Next, Frame, ThreadIdle

\* Every step moves $1FE6 bit 14 and the job queue together.
LEMMA BitStep ==
  ASSUME Bit14Tracks, TypeWork, [Next]_vars
  PROVE  Bit14Tracks'
<1> USE LevelsAssumption
        DEF Bit14Tracks, TypeWork, vars, l1Vars, synthVars, frameVars, localVars,
          l2cVars, jobVars, itemVars, owedVars, passVars
<1>1. ASSUME NEW mixed \in BOOLEAN, Instant(mixed) PROVE Bit14Tracks'
  BY <1>1 DEF Instant
<1>2. CASE L1Enter
  BY <1>2 DEF L1Enter
<1>3. ASSUME NEW k \in PostKinds, L1Post(k) PROVE Bit14Tracks'
  <2>1. CASE HasJob(k)
    <3>1. k \in JobKinds
      BY <2>1 DEF HasJob, JobKinds
    <3>2. jobs' # <<>>
      BY <1>3, <2>1, <3>1, AppendNotEmpty DEF L1Post, TypeWork
    <3>3. bit14'
      BY <1>3, <2>1 DEF L1Post
    <3>4. QED
      BY <3>2, <3>3 DEF Bit14Tracks
  <2>2. CASE ~HasJob(k)
    BY <1>3, <2>2 DEF L1Post, Bit14Tracks
  <2>3. QED
    BY <2>1, <2>2
<1>4. CASE L1Block
  BY <1>4 DEF L1Block
<1>5. CASE L1End
  BY <1>5 DEF L1End, L1Raise, PostOwesPass
<1>6. CASE UrgentFinish
  BY <1>6 DEF UrgentFinish, MtiOpen, ItemPass
<1>7. CASE L2bEnter
  BY <1>7 DEF L2bEnter, Room
<1>8. CASE Clear
  BY <1>8 DEF Clear, At, Jump, Goto
<1>9. CASE Look
  BY <1>9 DEF Look, At, Jump, Goto
<1>10. CASE Count
  BY <1>10 DEF Count, At, Jump, Goto
<1>11. CASE Mask
  BY <1>11 DEF Mask, At, Jump, Goto
<1>12. CASE Start
  BY <1>12 DEF Start, At, Jump, Goto
<1>13. CASE Body
  BY <1>13 DEF Body, ItemPass, At, Jump, Goto
<1>14. CASE Finish
  BY <1>14 DEF Finish, At, Jump, Goto
<1>15. CASE Arm
  BY <1>15 DEF Arm, ArmAfter, At, Jump, Goto
<1>16. CASE Unmask
  BY <1>16 DEF Unmask, Covered, At, Jump, Goto
<1>17. CASE Owed
  BY <1>17 DEF Owed, PassOwed, At, Jump, Goto
<1>18. CASE Why
  BY <1>18 DEF Why, At, Jump, Goto
<1>19. CASE Pass
  BY <1>19 DEF Pass, At, Jump, Goto
<1>20. CASE Passed
  BY <1>20 DEF Passed, Covered, At, Jump, Goto
<1>21. CASE Gate
  BY <1>21 DEF Gate, PassBelow, TellBelow, At, Jump, Goto
<1>22. CASE Open
  BY <1>22 DEF Open, PassBelow, At, Jump, Goto
<1>23. CASE JLook
  BY <1>23 DEF JLook, At, Jump, Goto
<1>24. CASE JobRun
  BY <1>24 DEF JobRun, At, Jump, Goto
<1>25. CASE JobWait
  BY <1>25 DEF JobWait, At, Jump, Goto
<1>26. CASE JobTail
  BY <1>26 DEF JobTail, Bit14After, At, Jump, Goto
<1>27. CASE TailPass
  BY <1>27 DEF TailPass, TailOwes, At, Jump, Goto
<1>28. CASE Leave
  BY <1>28 DEF Leave, At, Jump, Goto
<1>29. CASE Close
  BY <1>29 DEF Close, At, Jump, Goto
<1>30. CASE Exit
  BY <1>30 DEF Exit, At, Jump, Goto
<1>31. CASE UNCHANGED vars
  BY <1>31
<1>32. QED
  BY <1>1, <1>2, <1>3, <1>4, <1>5, <1>6, <1>7, <1>8, <1>9, <1>10, <1>11, <1>12, <1>13,
    <1>14, <1>15, <1>16, <1>17, <1>18, <1>19, <1>20, <1>21, <1>22, <1>23, <1>24, <1>25,
    <1>26, <1>27, <1>28, <1>29, <1>30, <1>31 DEF Next, Frame, ThreadIdle

\* Every step that changes which ticks wait arms the urgent slot again, or belongs to
\* an item that will.
LEMMA ArmedStep ==
  ASSUME TypeCpu, TypeWork, Shape, Work, Armed, [Next]_vars
  PROVE  Armed'
<1> USE LevelsAssumption
        DEF Armed, Shape, Work, TypeCpu, Frames, MsiOpenPc, ActivePc, vars, l1Vars,
          synthVars, frameVars, localVars, l2cVars, jobVars, itemVars, owedVars,
          passVars
<1>1. ASSUME NEW mixed \in BOOLEAN, Instant(mixed) PROVE Armed'
  BY <1>1 DEF Instant
<1>2. CASE L1Enter
  BY <1>2 DEF L1Enter
<1>3. ASSUME NEW k \in PostKinds, L1Post(k) PROVE Armed'
  BY <1>3 DEF L1Post, HasItem, HasJob, ItemOf
<1>4. CASE L1Block
  BY <1>4 DEF L1Block
<1>5. CASE L1End
  BY <1>5 DEF L1End, L1Raise, PostOwesPass
<1>6. CASE UrgentFinish
  BY <1>6 DEF UrgentFinish, MtiOpen, ItemPass
<1>7. CASE L2bEnter
  BY <1>7 DEF L2bEnter, Room
<1>8. CASE Clear
  BY <1>8 DEF Clear, At, Jump, Goto
<1>9. CASE Look
  BY <1>9 DEF Look, At, Jump, Goto
<1>10. CASE Count
  BY <1>10 DEF Count, At, Jump, Goto
<1>11. CASE Mask
  BY <1>11 DEF Mask, At, Jump, Goto
<1>12. CASE Start
  BY <1>12 DEF Start, At, Jump, Goto
<1>13. CASE Body
  BY <1>13 DEF Body, ItemPass, At, Jump, Goto
<1>14. CASE Finish
  BY <1>14 DEF Finish, At, Jump, Goto
<1>15. CASE Arm
  BY <1>15 DEF Arm, ArmAfter, At, Jump, Goto
<1>16. CASE Unmask
  BY <1>16 DEF Unmask, Covered, At, Jump, Goto
<1>17. CASE Owed
  BY <1>17 DEF Owed, PassOwed, At, Jump, Goto
<1>18. CASE Why
  BY <1>18 DEF Why, At, Jump, Goto
<1>19. CASE Pass
  BY <1>19 DEF Pass, At, Jump, Goto
<1>20. CASE Passed
  BY <1>20 DEF Passed, Covered, At, Jump, Goto
<1>21. CASE Gate
  BY <1>21 DEF Gate, PassBelow, TellBelow, At, Jump, Goto
<1>22. CASE Open
  BY <1>22 DEF Open, PassBelow, At, Jump, Goto
<1>23. CASE JLook
  BY <1>23 DEF JLook, At, Jump, Goto
<1>24. CASE JobRun
  <2>1. urgOn' = urgOn /\ busy' = busy /\ l1' = l1 /\ ~l1
    BY <1>24 DEF JobRun, At, Jump, l1Vars
  <2>2. depth > 0 /\ pc[depth] = "job"
    BY <1>24 DEF JobRun, At
  <2>3. items' = items \/ items' = Append(items, "call")
    BY <1>24 DEF JobRun
  <2>4. TickWaits(items', busy') <=> TickWaits(items, busy)
    <3>1. CASE items' = items
      BY <2>1, <3>1
    <3>2. CASE items' = Append(items, "call")
      <4>1. TickWaits(Append(items, "call"), busy) <=> TickWaits(items, busy)
        BY CallIsNoTick DEF TypeWork
      <4>2. QED
        BY <2>1, <3>2, <4>1
    <3>3. QED
      BY <2>3, <3>1, <3>2
  <2>5. QED
    BY <2>1, <2>2, <2>4 DEF Armed
<1>25. CASE JobWait
  BY <1>25 DEF JobWait, At, Jump, Goto
<1>26. CASE JobTail
  BY <1>26 DEF JobTail, Bit14After, At, Jump, Goto
<1>27. CASE TailPass
  BY <1>27 DEF TailPass, TailOwes, At, Jump, Goto
<1>28. CASE Leave
  BY <1>28 DEF Leave, At, Jump, Goto
<1>29. CASE Close
  BY <1>29 DEF Close, At, Jump, Goto
<1>30. CASE Exit
  BY <1>30 DEF Exit, At, Jump, Goto
<1>31. CASE UNCHANGED vars
  BY <1>31
<1>32. QED
  BY <1>1, <1>2, <1>3, <1>4, <1>5, <1>6, <1>7, <1>8, <1>9, <1>10, <1>11, <1>12, <1>13,
    <1>14, <1>15, <1>16, <1>17, <1>18, <1>19, <1>20, <1>21, <1>22, <1>23, <1>24, <1>25,
    <1>26, <1>27, <1>28, <1>29, <1>30, <1>31 DEF Next, Frame, ThreadIdle

\* After every step someone will still look at a queued item.
LEMMA CoverItemsStep ==
  ASSUME TypeCpu, TypeWork, Shape, Work, CoverItems, [Next]_vars
  PROVE  CoverItems'
<1> USE LevelsAssumption
        DEF Again, InJob, CoverItems, Shape, Work, TypeCpu, TypeWork, Frames, vars,
          l1Vars, synthVars, frameVars, localVars, l2cVars, jobVars, itemVars, owedVars,
          passVars
<1>1. ASSUME NEW mixed \in BOOLEAN, Instant(mixed) PROVE CoverItems'
  BY <1>1 DEF Instant
<1>2. CASE L1Enter
  BY <1>2 DEF L1Enter
<1>3. ASSUME NEW k \in PostKinds, L1Post(k) PROVE CoverItems'
  BY <1>3 DEF L1Post, HasItem, HasJob, ItemOf
<1>4. CASE L1Block
  BY <1>4 DEF L1Block
<1>5. CASE L1End
  BY <1>5 DEF L1End, L1Raise, PostOwesPass
<1>6. CASE UrgentFinish
  BY <1>6 DEF UrgentFinish, MtiOpen, ItemPass
<1>7. CASE L2bEnter
  BY <1>7 DEF L2bEnter, Room
<1>8. CASE Clear
  BY <1>8 DEF Clear, At, Jump, Goto
<1>9. CASE Look
  BY <1>9 DEF Look, At, Jump, Goto
<1>10. CASE Count
  BY <1>10 DEF Count, At, Jump, Goto
<1>11. CASE Mask
  BY <1>11 DEF Mask, At, Jump, Goto
<1>12. CASE Start
  BY <1>12 DEF Start, At, Jump, Goto
<1>13. CASE Body
  BY <1>13 DEF Body, ItemPass, At, Jump, Goto
<1>14. CASE Finish
  BY <1>14 DEF Finish, At, Jump, Goto
<1>15. CASE Arm
  BY <1>15 DEF Arm, ArmAfter, At, Jump, Goto
<1>16. CASE Unmask
  BY <1>16 DEF Unmask, Covered, At, Jump, Goto
<1>17. CASE Owed
  BY <1>17 DEF Owed, PassOwed, At, Jump, Goto
<1>18. CASE Why
  BY <1>18 DEF Why, At, Jump, Goto
<1>19. CASE Pass
  BY <1>19 DEF Pass, At, Jump, Goto
<1>20. CASE Passed
  BY <1>20 DEF Passed, Covered, At, Jump, Goto
<1>21. CASE Gate
  BY <1>21 DEF Gate, PassBelow, TellBelow, At, Jump, Goto
<1>22. CASE Open
  BY <1>22 DEF Open, PassBelow, At, Jump, Goto
<1>23. CASE JLook
  BY <1>23 DEF JLook, At, Jump, Goto
<1>24. CASE JobRun
  BY <1>24 DEF JobRun, At, Jump, Goto
<1>25. CASE JobWait
  BY <1>25 DEF JobWait, At, Jump, Goto
<1>26. CASE JobTail
  BY <1>26 DEF JobTail, Bit14After, At, Jump, Goto
<1>27. CASE TailPass
  BY <1>27 DEF TailPass, TailOwes, At, Jump, Goto
<1>28. CASE Leave
  BY <1>28 DEF Leave, At, Jump, Goto
<1>29. CASE Close
  BY <1>29 DEF Close, At, Jump, Goto
<1>30. CASE Exit
  BY <1>30 DEF Exit, At, Jump, Goto
<1>31. CASE UNCHANGED vars
  BY <1>31
<1>32. QED
  BY <1>1, <1>2, <1>3, <1>4, <1>5, <1>6, <1>7, <1>8, <1>9, <1>10, <1>11, <1>12, <1>13,
    <1>14, <1>15, <1>16, <1>17, <1>18, <1>19, <1>20, <1>21, <1>22, <1>23, <1>24, <1>25,
    <1>26, <1>27, <1>28, <1>29, <1>30, <1>31 DEF Next, Frame, ThreadIdle

\* After every step someone will still look at an owed main-loop pass.
LEMMA CoverOwedStep ==
  ASSUME TypeCpu, Shape, CoverOwed, [Next]_vars
  PROVE  CoverOwed'
<1> USE LevelsAssumption
        DEF Again, InJob, CoverOwed, PassOwed, Shape, TypeCpu, Frames, vars, l1Vars,
          synthVars, frameVars, localVars, l2cVars, jobVars, itemVars, owedVars,
          passVars
<1>1. ASSUME NEW mixed \in BOOLEAN, Instant(mixed) PROVE CoverOwed'
  BY <1>1 DEF Instant
<1>2. CASE L1Enter
  BY <1>2 DEF L1Enter
<1>3. ASSUME NEW k \in PostKinds, L1Post(k) PROVE CoverOwed'
  BY <1>3 DEF L1Post, HasItem, HasJob, ItemOf
<1>4. CASE L1Block
  BY <1>4 DEF L1Block
<1>5. CASE L1End
  BY <1>5 DEF L1End, L1Raise, PostOwesPass
<1>6. CASE UrgentFinish
  BY <1>6 DEF UrgentFinish, MtiOpen, ItemPass
<1>7. CASE L2bEnter
  BY <1>7 DEF L2bEnter, Room
<1>8. CASE Clear
  BY <1>8 DEF Clear, At, Jump, Goto
<1>9. CASE Look
  BY <1>9 DEF Look, At, Jump, Goto
<1>10. CASE Count
  BY <1>10 DEF Count, At, Jump, Goto
<1>11. CASE Mask
  BY <1>11 DEF Mask, At, Jump, Goto
<1>12. CASE Start
  BY <1>12 DEF Start, At, Jump, Goto
<1>13. CASE Body
  BY <1>13 DEF Body, ItemPass, At, Jump, Goto
<1>14. CASE Finish
  BY <1>14 DEF Finish, At, Jump, Goto
<1>15. CASE Arm
  BY <1>15 DEF Arm, ArmAfter, At, Jump, Goto
<1>16. CASE Unmask
  BY <1>16 DEF Unmask, Covered, At, Jump, Goto
<1>17. CASE Owed
  BY <1>17 DEF Owed, PassOwed, At, Jump, Goto
<1>18. CASE Why
  BY <1>18 DEF Why, At, Jump, Goto
<1>19. CASE Pass
  BY <1>19 DEF Pass, At, Jump, Goto
<1>20. CASE Passed
  BY <1>20 DEF Passed, Covered, At, Jump, Goto
<1>21. CASE Gate
  BY <1>21 DEF Gate, PassBelow, TellBelow, At, Jump, Goto
<1>22. CASE Open
  BY <1>22 DEF Open, PassBelow, At, Jump, Goto
<1>23. CASE JLook
  BY <1>23 DEF JLook, At, Jump, Goto
<1>24. CASE JobRun
  BY <1>24 DEF JobRun, At, Jump, Goto
<1>25. CASE JobWait
  BY <1>25 DEF JobWait, At, Jump, Goto
<1>26. CASE JobTail
  BY <1>26 DEF JobTail, Bit14After, At, Jump, Goto
<1>27. CASE TailPass
  BY <1>27 DEF TailPass, TailOwes, At, Jump, Goto
<1>28. CASE Leave
  BY <1>28 DEF Leave, At, Jump, Goto
<1>29. CASE Close
  BY <1>29 DEF Close, At, Jump, Goto
<1>30. CASE Exit
  BY <1>30 DEF Exit, At, Jump, Goto
<1>31. CASE UNCHANGED vars
  BY <1>31
<1>32. QED
  BY <1>1, <1>2, <1>3, <1>4, <1>5, <1>6, <1>7, <1>8, <1>9, <1>10, <1>11, <1>12, <1>13,
    <1>14, <1>15, <1>16, <1>17, <1>18, <1>19, <1>20, <1>21, <1>22, <1>23, <1>24, <1>25,
    <1>26, <1>27, <1>28, <1>29, <1>30, <1>31 DEF Next, Frame, ThreadIdle

\* After every step someone will still look at a queued job: the raise is pending, a
\* frame is on its way to l3_job, or the frame below has been told (l2c_missed).
LEMMA CoverJobsStep ==
  ASSUME TypeCpu, TypeWork, Shape, CoverJobs, [Next]_vars
  PROVE  CoverJobs'
<1> USE LevelsAssumption
        DEF Again, InJob, CoverJobs, Shape, TypeCpu, TypeWork, Frames, ActivePc,
          MsiOpenPc, vars, l1Vars, synthVars, frameVars, localVars, l2cVars, jobVars,
          itemVars, owedVars, passVars
<1>1. ASSUME NEW mixed \in BOOLEAN, Instant(mixed) PROVE CoverJobs'
  BY <1>1 DEF Instant
<1>2. CASE L1Enter
  BY <1>2 DEF L1Enter
<1>3. ASSUME NEW k \in PostKinds, L1Post(k) PROVE CoverJobs'
  BY <1>3 DEF L1Post, HasItem, HasJob, ItemOf
<1>4. CASE L1Block
  BY <1>4 DEF L1Block
<1>5. CASE L1End
  BY <1>5 DEF L1End, L1Raise, PostOwesPass
<1>6. CASE UrgentFinish
  BY <1>6 DEF UrgentFinish, MtiOpen, ItemPass
<1>7. CASE L2bEnter
  BY <1>7 DEF L2bEnter, Room
<1>8. CASE Clear
  BY <1>8 DEF Clear, At, Jump, Goto
<1>9. CASE Look
  BY <1>9 DEF Look, At, Jump, Goto
<1>10. CASE Count
  BY <1>10 DEF Count, At, Jump, Goto
<1>11. CASE Mask
  BY <1>11 DEF Mask, At, Jump, Goto
<1>12. CASE Start
  BY <1>12 DEF Start, At, Jump, Goto
<1>13. CASE Body
  BY <1>13 DEF Body, ItemPass, At, Jump, Goto
<1>14. CASE Finish
  BY <1>14 DEF Finish, At, Jump, Goto
<1>15. CASE Arm
  BY <1>15 DEF Arm, ArmAfter, At, Jump, Goto
<1>16. CASE Unmask
  BY <1>16 DEF Unmask, Covered, At, Jump, Goto
<1>17. CASE Owed
  BY <1>17 DEF Owed, PassOwed, At, Jump, Goto
<1>18. CASE Why
  BY <1>18 DEF Why, At, Jump, Goto
<1>19. CASE Pass
  BY <1>19 DEF Pass, At, Jump, Goto
<1>20. CASE Passed
  BY <1>20 DEF Passed, Covered, At, Jump, Goto
<1>21. CASE Gate
  BY <1>21 DEF Gate, PassBelow, TellBelow, At, Jump, Goto
<1>22. CASE Open
  BY <1>22 DEF Open, PassBelow, At, Jump, Goto
<1>23. CASE JLook
  BY <1>23 DEF JLook, At, Jump, Goto
<1>24. CASE JobRun
  BY <1>24 DEF JobRun, At, Jump, Goto
<1>25. CASE JobWait
  BY <1>25 DEF JobWait, At, Jump, Goto
<1>26. CASE JobTail
  BY <1>26 DEF JobTail, Bit14After, At, Jump, Goto
<1>27. CASE TailPass
  BY <1>27 DEF TailPass, TailOwes, At, Jump, Goto
<1>28. CASE Leave
  BY <1>28 DEF Leave, At, Jump, Goto
<1>29. CASE Close
  BY <1>29 DEF Close, At, Jump, Goto
<1>30. CASE Exit
  BY <1>30 DEF Exit, At, Jump, Goto
<1>31. CASE UNCHANGED vars
  BY <1>31
<1>32. QED
  BY <1>1, <1>2, <1>3, <1>4, <1>5, <1>6, <1>7, <1>8, <1>9, <1>10, <1>11, <1>12, <1>13,
    <1>14, <1>15, <1>16, <1>17, <1>18, <1>19, <1>20, <1>21, <1>22, <1>23, <1>24, <1>25,
    <1>26, <1>27, <1>28, <1>29, <1>30, <1>31 DEF Next, Frame, ThreadIdle

\* Every step keeps the hold of song_main_pass inside a job.
LEMMA HeldStep ==
  ASSUME TypeCpu, TypeWork, Shape, Work, Held, [Next]_vars
  PROVE  Held'
<1> USE LevelsAssumption
        DEF Held, Shape, Work, TypeCpu, Frames, MsiOpenPc, ActivePc, vars, l1Vars, synthVars, frameVars, localVars,
          l2cVars, jobVars, itemVars, owedVars, passVars
<1>1. ASSUME NEW mixed \in BOOLEAN, Instant(mixed) PROVE Held'
  BY <1>1 DEF Instant
<1>2. CASE L1Enter
  BY <1>2 DEF L1Enter
<1>3. ASSUME NEW k \in PostKinds, L1Post(k) PROVE Held'
  BY <1>3 DEF L1Post, HasItem, HasJob, ItemOf
<1>4. CASE L1Block
  BY <1>4 DEF L1Block
<1>5. CASE L1End
  BY <1>5 DEF L1End, L1Raise, PostOwesPass
<1>6. CASE UrgentFinish
  BY <1>6 DEF UrgentFinish, MtiOpen, ItemPass
<1>7. CASE L2bEnter
  BY <1>7 DEF L2bEnter, Room
<1>8. CASE Clear
  BY <1>8 DEF Clear, At, Jump, Goto
<1>9. CASE Look
  BY <1>9 DEF Look, At, Jump, Goto
<1>10. CASE Count
  BY <1>10 DEF Count, At, Jump, Goto
<1>11. CASE Mask
  BY <1>11 DEF Mask, At, Jump, Goto
<1>12. CASE Start
  BY <1>12 DEF Start, At, Jump, Goto
<1>13. CASE Body
  BY <1>13 DEF Body, ItemPass, At, Jump, Goto
<1>14. CASE Finish
  BY <1>14 DEF Finish, At, Jump, Goto
<1>15. CASE Arm
  BY <1>15 DEF Arm, ArmAfter, At, Jump, Goto
<1>16. CASE Unmask
  BY <1>16 DEF Unmask, Covered, At, Jump, Goto
<1>17. CASE Owed
  BY <1>17 DEF Owed, PassOwed, At, Jump, Goto
<1>18. CASE Why
  BY <1>18 DEF Why, At, Jump, Goto
<1>19. CASE Pass
  BY <1>19 DEF Pass, At, Jump, Goto
<1>20. CASE Passed
  BY <1>20 DEF Passed, Covered, At, Jump, Goto
<1>21. CASE Gate
  BY <1>21 DEF Gate, PassBelow, TellBelow, At, Jump, Goto
<1>22. CASE Open
  BY <1>22 DEF Open, PassBelow, At, Jump, Goto
<1>23. CASE JLook
  <2>1. /\ depth \in Frames /\ pc[depth] = "jlook"
        /\ pc' = [pc EXCEPT ![depth] = IF jobs = <<>> THEN "leave" ELSE "job"]
    BY <1>23 DEF JLook, At, Jump, Goto
  <2>2. CASE jobs = <<>>
    BY <1>23, <2>1, <2>2 DEF JLook
  <2>3. CASE jobs # <<>>
    BY <2>1, <2>3
  <2>4. QED
    BY <2>2, <2>3
<1>24. CASE JobRun
  BY <1>24 DEF JobRun, At, Jump, Goto
<1>25. CASE JobWait
  BY <1>25 DEF JobWait, At, Jump, Goto
<1>26. CASE JobTail
  BY <1>26 DEF JobTail, Bit14After, At, Jump, Goto
<1>27. CASE TailPass
  BY <1>27 DEF TailPass, TailOwes, At, Jump, Goto
<1>28. CASE Leave
  BY <1>28 DEF Leave, At, Jump, Goto
<1>29. CASE Close
  BY <1>29 DEF Close, At, Jump, Goto
<1>30. CASE Exit
  BY <1>30 DEF Exit, At, Jump, Goto
<1>31. CASE UNCHANGED vars
  BY <1>31
<1>32. QED
  BY <1>1, <1>2, <1>3, <1>4, <1>5, <1>6, <1>7, <1>8, <1>9, <1>10, <1>11, <1>12, <1>13,
    <1>14, <1>15, <1>16, <1>17, <1>18, <1>19, <1>20, <1>21, <1>22, <1>23, <1>24, <1>25,
    <1>26, <1>27, <1>28, <1>29, <1>30, <1>31 DEF Next, Frame, ThreadIdle

\* After every step a main-loop pass is still to come for what an item or a job left.
LEMMA CoverStaleStep ==
  ASSUME TypeCpu, TypeWork, Shape, Work, Held, CoverStale, [Next]_vars
  PROVE  CoverStale'
<1> USE LevelsAssumption
        DEF CoverStale, Finishing, Held, Shape, Work, TypeCpu, TypeWork, Frames, MsiOpenPc,
          ActivePc, vars, l1Vars, synthVars, frameVars, localVars,
          l2cVars, jobVars, itemVars, owedVars, passVars
<1>1. ASSUME NEW mixed \in BOOLEAN, Instant(mixed) PROVE CoverStale'
  BY <1>1 DEF Instant
<1>2. CASE L1Enter
  BY <1>2 DEF L1Enter
<1>3. ASSUME NEW k \in PostKinds, L1Post(k) PROVE CoverStale'
  <2>1. /\ UNCHANGED <<passTail, depth, pc, why>>
        /\ stale' \cap {"item", "job"} = stale \cap {"item", "job"}
    BY <1>3 DEF L1Post
  <2>2. jobs # <<>> => jobs' # <<>>
    BY <1>3, AppendNotEmpty DEF L1Post, HasJob, JobKinds
  <2>3. /\ items # <<>> => items' # <<>>
        /\ items # <<>> /\ Len(items) > 1 => Len(items') > 1
    <3>1. items' = items \/ items' = Append(items, ItemOf(k))
      BY <1>3 DEF L1Post
    <3>2. ItemOf(k) \in ItemKinds /\ items \in Seq(ItemKinds) /\ Len(items) \in Nat
      BY LenProperties DEF ItemOf, ItemKinds
    <3>3. QED
      BY <3>1, <3>2, AppendNotEmpty
  <2>4. QED
    BY <2>1, <2>2, <2>3
<1>4. CASE L1Block
  BY <1>4 DEF L1Block
<1>5. CASE L1End
  BY <1>5 DEF L1End, L1Raise, PostOwesPass
<1>6. CASE UrgentFinish
  BY <1>6 DEF UrgentFinish, MtiOpen, ItemPass
<1>7. CASE L2bEnter
  BY <1>7 DEF L2bEnter, Room
<1>8. CASE Clear
  BY <1>8 DEF Clear, At, Jump, Goto
<1>9. CASE Look
  BY <1>9 DEF Look, At, Jump, Goto
<1>10. CASE Count
  BY <1>10 DEF Count, At, Jump, Goto
<1>11. CASE Mask
  BY <1>11 DEF Mask, At, Jump, Goto
<1>12. CASE Start
  BY <1>12 DEF Start, At, Jump, Goto
<1>13. CASE Body
  <2>1. /\ depth \in Frames /\ pc[depth] = "body" /\ pc' = [pc EXCEPT ![depth] = "finish"]
        /\ UNCHANGED <<depth, passTail, why, jobs, items>>
    BY <1>13 DEF Body, At, Jump, Goto
  <2>2. items # <<>> /\ Len(items) \in Nat /\ Len(items) >= 1
    BY <2>1, LenProperties
  <2> DEFINE k == Len(items)
  <2>3. CASE jobs = <<>> /\ Len(items) - 1 = 0
    <3>1. ~hold
      BY <2>3
    <3>2. stale' = {}
      BY <1>13, <2>3, <3>1 DEF Body, ItemPass
    <3>3. QED
      BY <3>2
  <2>4. CASE ~(jobs = <<>> /\ Len(items) - 1 = 0)
    <3>1. jobs' # <<>> \/ (items' # <<>> /\ Len(items') > 1)
      <4>1. CASE jobs # <<>>
        BY <2>1, <4>1
      <4>2. CASE Len(items) - 1 # 0
        <5>1. Len(items) > 1
          <6>1. k \in Nat /\ k >= 1 /\ k - 1 # 0
            BY <2>2, <4>2
          <6> HIDE DEF k
          <6>2. k > 1
            BY ONLY <6>1
          <6>3. QED
            BY <6>2 DEF k
        <5>2. QED
          BY <2>1, <2>2, <5>1
      <4>3. QED
        BY <2>4, <4>1, <4>2
    <3>2. QED
      BY <3>1 DEF CoverStale
  <2>5. QED
    BY <2>3, <2>4
<1>14. CASE Finish
  <2>1. /\ depth \in Frames /\ pc[depth] = "finish" /\ pc' = [pc EXCEPT ![depth] = "arm"]
        /\ items # <<>> /\ items' = Tail(items)
        /\ UNCHANGED <<depth, passTail, why, jobs, stale>>
    BY <1>14 DEF Finish, At, Jump, Goto
  <2>2. Len(items) > 1 => Tail(items) # <<>>
    BY TailNotEmpty
  <2>3. ~Finishing'
    BY <2>1
  <2>4. QED
    BY <2>1, <2>2, <2>3
<1>15. CASE Arm
  BY <1>15 DEF Arm, ArmAfter, At, Jump, Goto
<1>16. CASE Unmask
  BY <1>16 DEF Unmask, Covered, At, Jump, Goto
<1>17. CASE Owed
  BY <1>17 DEF Owed, PassOwed, At, Jump, Goto
<1>18. CASE Why
  BY <1>18 DEF Why, At, Jump, Goto
<1>19. CASE Pass
  BY <1>19 DEF Pass, At, Jump, Goto
<1>20. CASE Passed
  BY <1>20 DEF Passed, Covered, At, Jump, Goto
<1>21. CASE Gate
  BY <1>21 DEF Gate, PassBelow, TellBelow, At, Jump, Goto
<1>22. CASE Open
  BY <1>22 DEF Open, PassBelow, At, Jump, Goto
<1>23. CASE JLook
  BY <1>23 DEF JLook, At, Jump, Goto
<1>24. CASE JobRun
  BY <1>24 DEF JobRun, At, Jump, Goto
<1>25. CASE JobWait
  BY <1>25 DEF JobWait, At, Jump, Goto
<1>26. CASE JobTail
  BY <1>26 DEF JobTail, Bit14After, At, Jump, Goto
<1>27. CASE TailPass
  BY <1>27 DEF TailPass, TailOwes, At, Jump, Goto
<1>28. CASE Leave
  BY <1>28 DEF Leave, At, Jump, Goto
<1>29. CASE Close
  BY <1>29 DEF Close, At, Jump, Goto
<1>30. CASE Exit
  <2>1. /\ depth \in Frames /\ pc[depth] = "exit" /\ depth' = depth - 1
        /\ pc' = [pc EXCEPT ![depth] = "off"]
        /\ UNCHANGED <<items, passTail, why, jobs, stale>>
    BY <1>30 DEF Exit, At
  <2>2. ~Finishing'
    <3>1. CASE depth - 1 > 0
      <4>1. depth - 1 \in Frames /\ depth - 1 < depth /\ depth - 1 # depth
        BY <2>1, <3>1
      <4>2. pc'[depth - 1] = pc[depth - 1] /\ pc[depth - 1] \in MsiOpenPc
        BY <2>1, <4>1
      <4>3. QED
        BY <2>1, <4>2
    <3>2. CASE ~(depth - 1 > 0)
      BY <2>1, <3>2
    <3>3. QED
      BY <3>1, <3>2
  <2>3. QED
    BY <2>1, <2>2
<1>31. CASE UNCHANGED vars
  BY <1>31
<1>32. QED
  BY <1>1, <1>2, <1>3, <1>4, <1>5, <1>6, <1>7, <1>8, <1>9, <1>10, <1>11, <1>12, <1>13,
    <1>14, <1>15, <1>16, <1>17, <1>18, <1>19, <1>20, <1>21, <1>22, <1>23, <1>24, <1>25,
    <1>26, <1>27, <1>28, <1>29, <1>30, <1>31 DEF Next, Frame, ThreadIdle

\* Every step is a post, a start or a finish of the cart chip's job queue, or leaves it
\* alone.
LEMMA CartStep ==
  ASSUME TypeCpu, TypeWork, Shape, [Next]_vars
  PROVE  [Cart!CartNext]_(Cart!cartVars)
<1> USE LevelsAssumption
        DEF Cart!cartVars, JobRuns, Shape, TypeCpu, Frames, MsiOpenPc, ActivePc, vars,
          l1Vars, synthVars, frameVars, localVars, l2cVars, jobVars, itemVars, owedVars,
          passVars
<1>1. ASSUME NEW mixed \in BOOLEAN, Instant(mixed) PROVE [Cart!CartNext]_(Cart!cartVars)
  BY <1>1 DEF Instant
<1>2. CASE L1Enter
  BY <1>2 DEF L1Enter
<1>3. ASSUME NEW k \in PostKinds, L1Post(k) PROVE [Cart!CartNext]_(Cart!cartVars)
  <2>1. JobRuns' <=> JobRuns
    BY <1>3 DEF L1Post, JobRuns, frameVars
  <2>2. CASE HasJob(k)
    <3>1. k \in JobKinds /\ jobs' = Append(jobs, k)
      BY <1>3, <2>2 DEF L1Post, HasJob, JobKinds
    <3>2. bit14' = TRUE
      BY <1>3, <2>2 DEF L1Post, TypeWork
    <3>3. Cart!Post(k)
      BY <2>1, <3>1, <3>2 DEF Cart!Post
    <3>4. QED
      BY <3>1, <3>3 DEF Cart!CartNext
  <2>3. CASE ~HasJob(k)
    BY <1>3, <2>1, <2>3 DEF L1Post, TypeWork, Cart!cartVars
  <2>4. QED
    BY <2>2, <2>3
<1>4. CASE L1Block
  BY <1>4 DEF L1Block
<1>5. CASE L1End
  BY <1>5 DEF L1End, L1Raise, PostOwesPass
<1>6. CASE UrgentFinish
  BY <1>6 DEF UrgentFinish, MtiOpen, ItemPass
<1>7. CASE L2bEnter
  BY <1>7 DEF L2bEnter, Room
<1>8. CASE Clear
  BY <1>8 DEF Clear, At, Jump, Goto
<1>9. CASE Look
  BY <1>9 DEF Look, At, Jump, Goto
<1>10. CASE Count
  BY <1>10 DEF Count, At, Jump, Goto
<1>11. CASE Mask
  BY <1>11 DEF Mask, At, Jump, Goto
<1>12. CASE Start
  BY <1>12 DEF Start, At, Jump, Goto
<1>13. CASE Body
  BY <1>13 DEF Body, ItemPass, At, Jump, Goto
<1>14. CASE Finish
  BY <1>14 DEF Finish, At, Jump, Goto
<1>15. CASE Arm
  BY <1>15 DEF Arm, ArmAfter, At, Jump, Goto
<1>16. CASE Unmask
  BY <1>16 DEF Unmask, Covered, At, Jump, Goto
<1>17. CASE Owed
  BY <1>17 DEF Owed, PassOwed, At, Jump, Goto
<1>18. CASE Why
  BY <1>18 DEF Why, At, Jump, Goto
<1>19. CASE Pass
  BY <1>19 DEF Pass, At, Jump, Goto
<1>20. CASE Passed
  BY <1>20 DEF Passed, Covered, At, Jump, Goto
<1>21. CASE Gate
  BY <1>21 DEF Gate, PassBelow, TellBelow, At, Jump, Goto
<1>22. CASE Open
  BY <1>22 DEF Open, PassBelow, At, Jump, Goto
<1>23. CASE JLook
  <2>1. depth \in Frames /\ pc[depth] = "jlook"
    BY <1>23 DEF JLook, At, TypeCpu, Frames
  <2>2. ~JobRuns
    BY <2>1, LevelsAssumption DEF JobRuns, Shape, Frames, MsiOpenPc, ActivePc, TypeCpu
  <2>3. CASE jobs = <<>>
    <3>1. ~JobRuns' /\ UNCHANGED <<jobs, bit14>>
      BY <1>23, <2>1, <2>2, <2>3 DEF JLook, Jump, Goto, JobRuns, TypeCpu, jobVars
    <3>2. QED
      BY <2>2, <3>1 DEF JobRuns, Cart!cartVars
  <2>4. CASE jobs # <<>>
    <3>1. JobRuns' /\ UNCHANGED <<jobs, bit14>>
      BY <1>23, <2>1, <2>4 DEF JLook, Jump, Goto, JobRuns, TypeCpu, Frames
    <3>2. QED
      BY <2>2, <2>4, <3>1 DEF Cart!Start, Cart!CartNext
  <2>5. QED
    BY <2>3, <2>4
<1>24. CASE JobRun
  BY <1>24 DEF JobRun, At, Jump, Goto
<1>25. CASE JobWait
  BY <1>25 DEF JobWait, At, Jump, Goto
<1>26. CASE JobTail
  <2>1. depth \in Frames /\ pc[depth] = "tail"
    BY <1>26 DEF JobTail, At, TypeCpu, Frames
  <2>2. JobRuns
    BY <2>1 DEF JobRuns, Frames
  <2>3. ~JobRuns'
    BY <1>26, <2>1, LevelsAssumption
       DEF JobTail, Jump, Goto, JobRuns, Shape, Frames, MsiOpenPc, ActivePc, TypeCpu
  <2>4. jobs' = Tail(jobs) /\ bit14' = (Tail(jobs) # <<>>)
    BY <1>26 DEF JobTail, Bit14After
  <2>5. QED
    BY <2>2, <2>3, <2>4 DEF Cart!Finish, Cart!CartNext
<1>27. CASE TailPass
  BY <1>27 DEF TailPass, TailOwes, At, Jump, Goto
<1>28. CASE Leave
  BY <1>28 DEF Leave, At, Jump, Goto
<1>29. CASE Close
  BY <1>29 DEF Close, At, Jump, Goto
<1>30. CASE Exit
  BY <1>30 DEF Exit, At, Jump, Goto
<1>31. CASE UNCHANGED vars
  BY <1>31
<1>32. QED
  BY <1>1, <1>2, <1>3, <1>4, <1>5, <1>6, <1>7, <1>8, <1>9, <1>10, <1>11, <1>12, <1>13,
    <1>14, <1>15, <1>16, <1>17, <1>18, <1>19, <1>20, <1>21, <1>22, <1>23, <1>24, <1>25,
    <1>26, <1>27, <1>28, <1>29, <1>30, <1>31 DEF Next, Frame, ThreadIdle

-----------------------------------------------------------------------------
\* The inductive invariant holds of every behaviour.
LEMMA IInvHolds == Spec => []IInv
<1>1. Init => IInv
  <2>1. ASSUME Init PROVE TypeOK
    <3>1. TypeCpu
      <4>1. /\ served = {} /\ posts = 0 /\ instants = 0 /\ depth = 0
            /\ pc = [f \in Frames |-> "off"] /\ ran = [f \in Frames |-> FALSE]
        BY <2>1 DEF Init
      <4>2. /\ l1 \in BOOLEAN /\ causeBlk \in BOOLEAN /\ msip \in BOOLEAN
            /\ active \in BOOLEAN /\ missed \in BOOLEAN
        BY <2>1 DEF Init
      <4>3. QED
        BY <4>1, <4>2, LevelsAssumption DEF TypeCpu, PcLabels
    <3>2. TypeWork
      <4>1. jobs = <<>> /\ items = <<>> /\ calls = 0
        BY <2>1 DEF Init
      <4>2. bit14 \in BOOLEAN /\ hold \in BOOLEAN /\ busy \in BOOLEAN /\ urgOn \in BOOLEAN
        BY <2>1 DEF Init
      <4>3. QED
        BY <4>1, <4>2, EmptySeq, LevelsAssumption DEF TypeWork
    <3>3. TypePass
      BY <2>1 DEF Init, TypePass
    <3>4. QED
      BY <3>1, <3>2, <3>3 DEF TypeOK
  <2>2. Init => Shape /\ Work /\ Armed /\ Bit14Tracks /\ Held
    BY LevelsAssumption
       DEF Init, Shape, Work, Armed, Bit14Tracks, Held, TickWaits, Frames, ActivePc, MsiOpenPc
  <2>3. Init => CoverItems /\ CoverOwed /\ CoverJobs /\ CoverStale
    BY DEF Init, CoverItems, CoverOwed, CoverJobs, CoverStale, PassOwed
  <2>4. QED
    BY <2>1, <2>2, <2>3 DEF IInv
<1>2. IInv /\ [Next]_vars => IInv'
  BY CpuStep, PassStep, WorkTypeStep, ShapeStep, WorkStep, ArmedStep, BitStep,
     HeldStep, CoverItemsStep, CoverOwedStep, CoverJobsStep, CoverStaleStep
     DEF IInv, TypeOK
<1>3. QED
  BY <1>1, <1>2, PTL DEF Spec

\* Every variable keeps its type; in particular no queue is ever popped empty and
\* the frames never leave their bound.
THEOREM TypeCorrect == Spec => []TypeOK
<1>1. IInv => TypeOK
  BY DEF IInv
<1>2. QED
  BY IInvHolds, <1>1, PTL

\* l2b_msi and l2c_missed lose no wake-up: when no level runs and no raise is pending,
\* no item, no job and no main-loop pass is left over.
THEOREM NoWakeupIsLost == Spec => []NoLostWakeup
<1>1. IInv => NoLostWakeup
  <2>1. SUFFICES ASSUME IInv, Quiet PROVE items = <<>> /\ jobs = <<>> /\ ~PassOwed
    BY DEF NoLostWakeup
  <2>2. ~l1 /\ ~msip /\ \A f \in Frames : pc[f] = "off"
    BY <2>1 DEF Quiet, IInv, Shape, Frames
  <2>3. ~active
    BY <2>1, <2>2 DEF IInv, Shape, ActivePc
  <2>4. items = <<>>
    BY <2>1, <2>2 DEF IInv, CoverItems, Again, InJob
  <2>5. ~PassOwed
    BY <2>1, <2>2 DEF IInv, CoverOwed, Again, InJob
  <2>6. jobs = <<>>
    BY <2>1, <2>2, <2>3 DEF IInv, CoverJobs, Again, InJob
  <2>7. QED
    BY <2>4, <2>5, <2>6
<1>2. QED
  BY IInvHolds, <1>1, PTL

\* The main-loop pass is never left out: at rest, a pass has run since the last item and
\* the last job, wherever the holds, the skipped passes and the urgent finish fell.
THEOREM PassIsNotLeftOut == Spec => []PassCovers
<1>1. IInv /\ NoLostWakeup => PassCovers
  <2>1. SUFFICES ASSUME IInv, NoLostWakeup, Quiet PROVE stale \cap {"item", "job"} = {}
    BY DEF PassCovers
  <2>2. items = <<>> /\ jobs = <<>> /\ ~passTail /\ depth = 0
    BY <2>1 DEF NoLostWakeup, PassOwed, Quiet
  <2>3. \A f \in Frames : pc[f] = "off"
    BY <2>1, <2>2 DEF IInv, Shape, Frames
  <2>4. QED
    BY <2>1, <2>2, <2>3 DEF IInv, CoverStale
<1>2. QED
  BY IInvHolds, NoWakeupIsLost, <1>1, PTL

\* sched_l2c_once never runs two passes, however many L2bs nest.
THEOREM OnePassAtATime == Spec => []OnePass
<1>1. IInv => OnePass
  BY LevelsAssumption
     DEF IInv, TypeOK, TypeCpu, Shape, OnePass, Frames, ActivePc, MsiOpenPc
<1>2. QED
  BY IInvHolds, <1>1, PTL

\* $1FE6 bit 14 is set whenever a job is queued or runs, through every interleaving of
\* L1's posts and the job's tail.
THEOREM Bit14Holds == Spec => []Bit14Tracks
<1>1. IInv => Bit14Tracks
  BY DEF IInv
<1>2. QED
  BY IInvHolds, <1>1, PTL

\* The urgent finish never meets an item half way, and is armed exactly while a tick
\* waits whenever it can be taken.
THEOREM UrgentIsRight == Spec => [](UrgentWhole /\ UrgentFollows)
<1>1. IInv => UrgentWhole
  BY DEF IInv, Work, UrgentWhole, MtiOpen, MtiOffPc
<1>2. IInv => UrgentFollows
  BY DEF IInv, Armed, UrgentFollows, MtiOpen, MtiOffPc
<1>3. QED
  BY IInvHolds, <1>1, <1>2, PTL

\* The interrupt levels implement the safety part of CartJobs: jobs are started one at
\* a time and in order, and bit 14 is rewritten only as a job ends.
THEOREM LevelsImplementCart == Spec => Cart!CartInit /\ [][Cart!CartNext]_(Cart!cartVars)
<1>1. Init => Cart!CartInit
  BY DEF Init, Cart!CartInit, JobRuns
<1>2. IInv /\ [Next]_vars => [Cart!CartNext]_(Cart!cartVars)
  BY CartStep DEF IInv, TypeOK
<1>3. QED
  BY IInvHolds, <1>1, <1>2, PTL DEF Spec
=============================================================================
