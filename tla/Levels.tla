------------------------------- MODULE Levels -------------------------------
(***************************************************************************)
(* The interrupt levels of the firmware (core/sched/sched.c, FW_S5 build): *)
(*   L1  (MEI) serves the 68000's posts and the synth's block-done events, *)
(*   L2a (MTI) finishes a late song tick, interrupts off,                  *)
(*   L2b (MSI) runs the engine queue's items and the main-loop passes,     *)
(*   L2c, inside an L2b, runs one job of the cart chip's queue with MSI    *)
(*       open again, so that a fresh L2b may nest above it.                *)
(* One CPU: only the running L1, else the newest L2b, steps.  An L2b is a  *)
(* frame 1..depth with a label of its own, one label per access of shared  *)
(* state; a critical section (sched_crit_enter/leave) is one step.         *)
(***************************************************************************)
EXTENDS Integers, Sequences

CONSTANTS QN,          \* slots of the engine queue (SONG_Q_N)
          JobSlots,    \* usable slots of the job queue
          MaxDepth,    \* bound on L2b frames (the code has none)
          MaxPosts,    \* bound on the posts the 68000 makes
          MaxInstants, \* bound on the synth's block-done events
          LateTicks    \* whether a tick may wait until its urgent deadline

ASSUME LevelsAssumption ==
  /\ QN \in Nat \ {0} /\ JobSlots \in Nat \ {0}
  /\ MaxDepth \in Nat /\ MaxDepth >= 2
  /\ MaxPosts \in Nat /\ MaxInstants \in Nat
  /\ LateTicks \in BOOLEAN

Frames == 1..MaxDepth

\* What a post leaves to the levels below L1: nothing ("plain": refused, or
\* with no engine part), an engine item, a job, or (8C) both.
PostKinds == {"plain", "audio", "tick", "unpack", "setup", "song"}
HasItem(k) == k \in {"audio", "tick", "song"}
HasJob(k)  == k \in {"unpack", "setup", "song"}
JobKinds   == {"unpack", "setup", "song"}
ItemKinds  == {"post", "tick", "call"}
ItemOf(k)  == IF k = "tick" THEN "tick" ELSE "post"

\* Engine items a job hands over and waits for: 8C's module start, unless the
\* store lacks the module; C6's two audio parts.
CallsOf(k) == CASE k = "song" -> {0, 1} [] k = "setup" -> {2} [] OTHER -> {0}

VARIABLES
  l1, served,            \* L1 runs; what this entry has served so far
  causeBlk,              \* CAUSE.BLK
  posts, instants,       \* events so far (bounds only)
  msip,                  \* the software interrupt's pending bit
  depth, pc, ran,        \* the L2b frames; l3_job's answer in each
  n, p, why,             \* l2b_msi's locals (live only with MSI masked)
  active, missed,        \* l2c_active, l2c_missed
  jobs, bit14, hold,     \* the job queue, $1FE6 bit 14, song_pass_hold
  calls,                 \* items the running job has still to hand over
  items, busy,           \* the engine queue (the running item first), q_busy
  urgOn,                 \* the urgent slot is armed
  blkSeen, blkDone, postSeen, postDone, passTail,   \* main-loop passes owed
  blkNew,                \* STATUS.BLKCNT differs from pass_blk
  stale                  \* what has changed since the last main-loop pass

l1Vars    == <<l1, served, posts>>
synthVars == <<causeBlk, instants>>
frameVars == <<depth, pc, ran>>
localVars == <<n, p, why>>
l2cVars   == <<active, missed>>
jobVars   == <<jobs, bit14, hold, calls>>
itemVars  == <<items, busy>>
owedVars  == <<blkSeen, blkDone, postSeen, postDone, passTail>>
passVars  == <<blkNew, stale>>
vars == <<l1Vars, synthVars, msip, frameVars, localVars, l2cVars, jobVars,
          itemVars, urgOn, owedVars, passVars>>

\* Labels at which an L2b has opened MSI (brd_lines_on(BRD_LINE_MSI)), those
\* inside sched_l2c_once's pass, and those with MTI masked.
ActivePc  == {"jlook", "job", "wait", "tail", "tailpass", "leave"}
MsiOpenPc == ActivePc \cup {"open", "close"}
MtiOffPc  == {"start", "body", "finish", "arm", "unmask", "pass", "passed"}
PcLabels  == MsiOpenPc \cup MtiOffPc \cup
             {"off", "clear", "look", "count", "mask", "owed", "why", "gate", "exit"}

Sources == {"post", "block", "item", "job"}

Init ==
  /\ l1 = FALSE /\ served = {} /\ posts = 0
  /\ causeBlk = FALSE /\ instants = 0
  /\ msip = FALSE
  /\ depth = 0 /\ pc = [f \in Frames |-> "off"] /\ ran = [f \in Frames |-> FALSE]
  /\ n = 0 /\ p = 0 /\ why = {}
  /\ active = FALSE /\ missed = FALSE
  /\ jobs = <<>> /\ bit14 = TRUE /\ hold = FALSE /\ calls = 0
  /\ items = <<>> /\ busy = FALSE /\ urgOn = FALSE
  /\ blkSeen = 0 /\ blkDone = 0 /\ postSeen = 0 /\ postDone = 0 /\ passTail = FALSE
  /\ blkNew = FALSE /\ stale = {}
-----------------------------------------------------------------------------
\* song_tick_due: a tick is queued and not running.
TickWaits(it, b) == \E i \in 1..Len(it) : it[i] = "tick" /\ ~(b /\ i = 1)

\* A TIM6 instant is serviced, mixing a block or not; BUSY falls.
Instant(mixed) ==
  /\ instants < MaxInstants
  /\ instants' = instants + 1
  /\ causeBlk' = TRUE
  /\ blkNew' = (blkNew \/ mixed)
  /\ stale' = IF mixed THEN stale \cup {"block"} ELSE stale
  /\ UNCHANGED <<l1Vars, msip, frameVars, localVars, l2cVars, jobVars, itemVars,
                 urgOn, owedVars>>

QueueFull == Len(items) >= QN

\* CAUSE is not 0: a block has ended, or the 68000 posts.
L1Enter ==
  /\ ~l1
  /\ causeBlk \/ posts < MaxPosts
  /\ l1' = TRUE /\ served' = {}
  /\ UNCHANGED <<posts, synthVars, msip, frameVars, localVars, l2cVars, jobVars,
                 itemVars, urgOn, owedVars, passVars>>

\* One post: its 68000-visible part, its item to the engine queue, its job
\* (job_queued, disp_job_commit; F4's two are two posts here) to the job queue.
\* A full job queue refuses the post: a plain one.  A full engine queue holds it
\* back (EngineQueue): here it has not arrived until there is room, when L1's
\* entry stands for the one that take_held makes at an item's end.
L1Post(k) ==
  /\ l1 /\ posts < MaxPosts
  /\ HasItem(k) => ~QueueFull
  /\ HasJob(k) => Len(jobs) < JobSlots
  /\ posts' = posts + 1
  /\ served' = served \cup {"post"}
  /\ items' = IF HasItem(k) THEN Append(items, ItemOf(k)) ELSE items
  /\ jobs' = IF HasJob(k) THEN Append(jobs, k) ELSE jobs
  /\ bit14' = (bit14 \/ HasJob(k))
  /\ msip' = (msip \/ HasJob(k))
  /\ stale' = stale \cup {"post"}
  /\ UNCHANGED <<l1, synthVars, frameVars, localVars, l2cVars, hold, calls, busy,
                 urgOn, owedVars, blkNew>>

\* CAUSE.BLK: acknowledged, then counted, and L2b asked for the pass.
L1Block ==
  /\ l1 /\ causeBlk
  /\ causeBlk' = FALSE
  /\ served' = served \cup {"block"}
  /\ blkSeen' = blkSeen + 1
  /\ msip' = TRUE
  /\ UNCHANGED <<l1, posts, instants, frameVars, localVars, l2cVars, jobVars, itemVars,
                 urgOn, blkDone, postSeen, postDone, passTail, passVars>>

\* song_l1_end's answer, or a pass owed to a post that queued no item.
PostOwesPass == items = <<>> /\ "post" \in served
L1Raise_NoItems == PostOwesPass                  \* mutant: SCHED_BUG 11
L1Raise == items # <<>> \/ PostOwesPass

\* CAUSE is empty: song_l1_end, the pass owed when no item waits, s5_urgent_arm.
L1End ==
  /\ l1 /\ ~causeBlk /\ served # {}
  /\ l1' = FALSE
  /\ msip' = (msip \/ L1Raise)
  /\ postSeen' = IF PostOwesPass THEN postSeen + 1 ELSE postSeen
  /\ urgOn' = TickWaits(items, busy)
  /\ UNCHANGED <<served, posts, synthVars, frameVars, localVars, l2cVars, jobVars,
                 itemVars, blkSeen, blkDone, postDone, passTail, passVars>>
-----------------------------------------------------------------------------
\* board_item_pass after the last of the items: skipped while a job is queued
\* or another item waits; song_main_pass does nothing while a job runs.
ItemPass(left) ==
  LET runs == jobs = <<>> /\ left = 0 IN
  /\ blkNew' = (blkNew /\ ~runs)
  /\ stale' = IF runs /\ ~hold THEN {} ELSE stale \cup {"item"}

MtiOpen == ~l1 /\ (depth > 0 => pc[depth] \notin MtiOffPc)

\* L2a, wh_urgent: a waiting tick is overdue, so the queue is run up to a tick
\* (the last overdue one), interrupts off; nothing while an item is half way.
UrgentFinish ==
  /\ LateTicks /\ urgOn /\ MtiOpen
  /\ IF busy THEN UNCHANGED <<items, passVars>>
     ELSE \E k \in 1..Len(items) :
            /\ items[k] = "tick"
            /\ items' = SubSeq(items, k + 1, Len(items))
            /\ ItemPass(Len(items) - k)
  /\ urgOn' = TickWaits(items', busy)
  /\ UNCHANGED <<l1Vars, synthVars, msip, frameVars, localVars, l2cVars, jobVars,
                 busy, owedVars>>

\* The MSI is taken: from the thread, or above a frame that has opened it.
\* Room keeps the model's frames finite without ever blocking one: a frame
\* whose pass runs can always be nested on.
Room == IF active THEN depth < MaxDepth ELSE depth < MaxDepth - 1
L2bEnter ==
  /\ ~l1 /\ msip /\ Room
  /\ depth > 0 => pc[depth] \in MsiOpenPc
  /\ depth' = depth + 1
  /\ pc' = [pc EXCEPT ![depth + 1] = "clear"]
  /\ ran' = [ran EXCEPT ![depth + 1] = FALSE]
  /\ UNCHANGED <<l1Vars, synthVars, msip, localVars, l2cVars, jobVars, itemVars,
                 urgOn, owedVars, passVars>>

At(label) == ~l1 /\ depth > 0 /\ pc[depth] = label
Goto(label) == pc' = [pc EXCEPT ![depth] = label] /\ UNCHANGED depth
Jump(label) == Goto(label) /\ UNCHANGED <<ran, l1Vars, synthVars>>

\* l2b_msi: MSIP is cleared before anything is looked at.
Clear ==
  /\ At("clear") /\ Jump("look")
  /\ msip' = FALSE
  /\ UNCHANGED <<localVars, l2cVars, jobVars, itemVars, urgOn, owedVars, passVars>>

Look ==
  /\ At("look") /\ Jump(IF items # <<>> /\ ~busy THEN "count" ELSE "owed")
  /\ UNCHANGED <<msip, localVars, l2cVars, jobVars, itemVars, urgOn, owedVars, passVars>>

\* The blocks and posts that the item's own pass is to cover.
Count ==
  /\ At("count") /\ Jump("mask")
  /\ n' = blkSeen /\ p' = postSeen
  /\ UNCHANGED <<msip, why, l2cVars, jobVars, itemVars, urgOn, owedVars, passVars>>

Mask ==
  /\ At("mask") /\ Jump("start")
  /\ UNCHANGED <<msip, localVars, l2cVars, jobVars, itemVars, urgOn, owedVars, passVars>>

\* song_run_one: the first critical section, the item's body and its pass, the
\* last critical section; L1 may come between.
Start ==
  /\ At("start") /\ Jump(IF items = <<>> \/ busy THEN "arm" ELSE "body")
  /\ busy' = (busy \/ items # <<>>)
  /\ UNCHANGED <<msip, localVars, l2cVars, jobVars, items, urgOn, owedVars, passVars>>

Body ==
  /\ At("body") /\ Jump("finish")
  /\ ItemPass(Len(items) - 1)
  /\ UNCHANGED <<msip, localVars, l2cVars, jobVars, itemVars, urgOn, owedVars>>

Finish ==
  /\ At("finish") /\ Jump("arm")
  /\ items' = Tail(items) /\ busy' = FALSE
  /\ UNCHANGED <<msip, localVars, l2cVars, jobVars, urgOn, owedVars, passVars>>

ArmAfter == TickWaits(items, busy)

Arm ==
  /\ At("arm") /\ Jump("unmask")
  /\ urgOn' = ArmAfter
  /\ UNCHANGED <<msip, localVars, l2cVars, jobVars, itemVars, owedVars, passVars>>

\* MTI on again; the counts read before the item are now covered.
Covered(label) ==
  /\ At(label) /\ Jump("clear")
  /\ blkDone' = n /\ postDone' = p
  /\ UNCHANGED <<msip, localVars, l2cVars, jobVars, itemVars, urgOn,
                 blkSeen, postSeen, passTail, passVars>>
Unmask == Covered("unmask")
-----------------------------------------------------------------------------
\* The main-loop pass after a block, a post with no item, or a job's tail.
PassOwed == blkSeen # blkDone \/ postSeen # postDone \/ passTail

Owed ==
  /\ At("owed") /\ Jump(IF PassOwed THEN "why" ELSE "gate")
  /\ UNCHANGED <<msip, localVars, l2cVars, jobVars, itemVars, urgOn, owedVars, passVars>>

Why ==
  /\ At("why") /\ Jump("pass")
  /\ n' = blkSeen /\ p' = postSeen
  /\ why' = {w \in {"tail", "post", "block"} :
               \/ w = "tail" /\ passTail
               \/ w = "post" /\ postSeen # postDone
               \/ w = "block" /\ blkSeen # blkDone}
  /\ passTail' = FALSE
  /\ UNCHANGED <<msip, l2cVars, jobVars, itemVars, urgOn,
                 blkSeen, blkDone, postSeen, postDone, passVars>>

\* board_pass_bracket: a queued job's tail will run the pass; an instant that
\* mixed no block changed nothing.
Pass ==
  /\ At("pass") /\ Jump("passed")
  /\ IF ("tail" \notin why /\ jobs # <<>>) \/ (why = {"block"} /\ ~blkNew)
     THEN UNCHANGED passVars
     ELSE blkNew' = FALSE /\ stale' = IF hold THEN stale ELSE {}
  /\ UNCHANGED <<msip, localVars, l2cVars, jobVars, itemVars, urgOn, owedVars>>

Passed == Covered("passed")
-----------------------------------------------------------------------------
PassBelow == active

TellBelow_Never == FALSE                         \* mutant: SCHED_BUG 9
TellBelow == active

\* No item and no pass: L2c, unless a frame below is in it; that one is told
\* to look again, for this frame has cleared a raise it may depend on.
Gate ==
  /\ At("gate") /\ Jump(IF PassBelow THEN "exit" ELSE "open")
  /\ missed' = TellBelow
  /\ UNCHANGED <<msip, localVars, active, jobVars, itemVars, urgOn, owedVars, passVars>>

\* sched_l2c_once, MSI open from here on.
Open ==
  /\ At("open") /\ Jump(IF PassBelow THEN "close" ELSE "jlook")
  /\ active' = TRUE
  /\ UNCHANGED <<msip, localVars, missed, jobVars, itemVars, urgOn, owedVars, passVars>>

\* l3_job: the queue is read once; nothing queued is answered with 0.
JLook ==
  /\ At("jlook") /\ Jump(IF jobs = <<>> THEN "leave" ELSE "job")
  /\ IF jobs = <<>> THEN UNCHANGED jobVars
     ELSE /\ hold' = TRUE
          /\ calls' \in CallsOf(Head(jobs))
          /\ UNCHANGED <<jobs, bit14>>
  /\ UNCHANGED <<msip, localVars, l2cVars, itemVars, urgOn, owedVars, passVars>>

\* The job's body; song_job_done / song_call hand an item over, asking L2b for
\* room while the engine queue is full.
JobRun ==
  /\ At("job")
  /\ IF calls = 0 THEN Jump("tail") /\ UNCHANGED <<msip, items>>
     ELSE IF ~QueueFull
     THEN Jump("wait") /\ items' = Append(items, "call") /\ UNCHANGED msip
     ELSE Jump("job") /\ msip' = TRUE /\ UNCHANGED items
  /\ UNCHANGED <<localVars, l2cVars, jobVars, busy, urgOn, owedVars, passVars>>

\* song_job_waiting: raise MSI until the nested L2b has run the item.
JobWait ==
  /\ At("wait")
  /\ IF \E i \in 1..Len(items) : items[i] = "call"
     THEN Jump("wait") /\ msip' = TRUE /\ UNCHANGED calls
     ELSE Jump("job") /\ calls' = calls - 1 /\ UNCHANGED msip
  /\ UNCHANGED <<localVars, l2cVars, jobs, bit14, hold, itemVars, urgOn, owedVars, passVars>>

Bit14After_Early == jobs # <<>>                  \* mutant: DISP_BUG 3
Bit14After == Tail(jobs) # <<>>

\* The job step's end: q_rd, bit 14 and the hold in one critical section.
JobTail ==
  /\ At("tail") /\ Jump("tailpass")
  /\ jobs' = Tail(jobs) /\ bit14' = Bit14After
  /\ hold' = FALSE
  /\ stale' = stale \cup {"job"}
  /\ UNCHANGED <<msip, localVars, l2cVars, calls, itemVars, urgOn, owedVars, blkNew>>

TailOwes_Nothing == passTail                     \* mutant: SONG_BUG 34
TailOwes == TRUE

\* sched_pass_post, then l3_job answers 1.
TailPass ==
  /\ At("tailpass") /\ Goto("leave")
  /\ passTail' = TailOwes /\ msip' = TRUE
  /\ ran' = [ran EXCEPT ![depth] = TRUE]
  /\ UNCHANGED <<l1Vars, synthVars, localVars, l2cVars, jobVars, itemVars, urgOn,
                 blkSeen, blkDone, postSeen, postDone, passVars>>

Leave ==
  /\ At("leave") /\ Jump("close")
  /\ active' = FALSE
  /\ UNCHANGED <<msip, localVars, missed, jobVars, itemVars, urgOn, owedVars, passVars>>

\* MSI off again, and only then l2c_missed is read.
Close ==
  /\ At("close") /\ Goto(IF ran[depth] \/ missed THEN "clear" ELSE "exit")
  /\ ran' = [ran EXCEPT ![depth] = FALSE]
  /\ UNCHANGED <<msip, l1Vars, synthVars, localVars, l2cVars, jobVars, itemVars, urgOn,
                 owedVars, passVars>>

Exit ==
  /\ At("exit")
  /\ depth' = depth - 1
  /\ pc' = [pc EXCEPT ![depth] = "off"]
  /\ UNCHANGED <<ran, l1Vars, synthVars, msip, localVars, l2cVars, jobVars, itemVars,
                 urgOn, owedVars, passVars>>

\* The thread, with nothing of the game's to do (l3_idle).
ThreadIdle == ~l1 /\ depth = 0 /\ UNCHANGED vars

Frame == \/ Clear \/ Look \/ Count \/ Mask \/ Start \/ Body \/ Finish \/ Arm \/ Unmask
         \/ Owed \/ Why \/ Pass \/ Passed \/ Gate \/ Open \/ JLook \/ JobRun \/ JobWait
         \/ JobTail \/ TailPass \/ Leave \/ Close \/ Exit

Next == \/ \E mixed \in BOOLEAN : Instant(mixed)
        \/ L1Enter
        \/ \E k \in PostKinds : L1Post(k)
        \/ L1Block
        \/ L1End
        \/ UrgentFinish
        \/ L2bEnter
        \/ Frame
        \/ ThreadIdle

Spec == Init /\ [][Next]_vars

\* The CPU runs the innermost level, and a level-sensitive line that stays
\* pending while it is enabled is taken.
Fairness == /\ WF_vars(Frame)
            /\ WF_vars(L1Block \/ L1End \/ \E k \in PostKinds : L1Post(k))
            /\ WF_vars(causeBlk /\ L1Enter)
            /\ WF_vars(L2bEnter)
FairSpec == Spec /\ Fairness
-----------------------------------------------------------------------------
TypeCpu ==
  /\ l1 \in BOOLEAN /\ served \subseteq {"post", "block"} /\ posts \in 0..MaxPosts
  /\ causeBlk \in BOOLEAN /\ instants \in 0..MaxInstants /\ msip \in BOOLEAN
  /\ depth \in 0..MaxDepth /\ pc \in [Frames -> PcLabels] /\ ran \in [Frames -> BOOLEAN]
  /\ active \in BOOLEAN /\ missed \in BOOLEAN

TypeWork ==
  /\ jobs \in Seq(JobKinds) /\ Len(jobs) <= JobSlots
  /\ bit14 \in BOOLEAN /\ hold \in BOOLEAN /\ calls \in 0..2
  /\ items \in Seq(ItemKinds) /\ Len(items) <= QN
  /\ busy \in BOOLEAN /\ urgOn \in BOOLEAN

TypePass ==
  /\ n \in Nat /\ p \in Nat /\ why \subseteq {"tail", "post", "block"}
  /\ blkSeen \in Nat /\ blkDone \in Nat /\ postSeen \in Nat /\ postDone \in Nat
  /\ passTail \in BOOLEAN /\ blkNew \in BOOLEAN /\ stale \subseteq Sources

TypeOK == TypeCpu /\ TypeWork /\ TypePass

\* No level runs and no line is raised: nothing but a new event wakes the CPU.
Quiet == ~l1 /\ depth = 0 /\ ~msip

\* No lost wake-up (the R1 freeze fixed by l2c_missed): with no level running
\* and no raise pending, no item, no job and no main-loop pass is left over.
NoLostWakeup == Quiet => items = <<>> /\ jobs = <<>> /\ ~PassOwed

\* sched_l2c_once: however the L2bs nest, one of them at most is inside a pass,
\* and l2c_active says so; a second pass would run the same job twice.
OnePass ==
  /\ \A f, g \in 1..depth : pc[f] \in ActivePc /\ pc[g] \in ActivePc => f = g
  /\ active <=> \E f \in 1..depth : pc[f] \in ActivePc

\* $1FE6 bit 14, on which the 68000 spins, is never clear while a job is queued
\* or runs, through every interleaving of the posts and the job's tail (FZ4).
\* App init leaves it set; that each job's end clears it or not as it should is
\* in AllServed and ImplementsCart.
Bit14Tracks == jobs # <<>> => bit14

\* An item is atomic against the urgent finish: L2a is never taken while the
\* head of the queue is half way, when it could not run the late tick.
UrgentWhole == busy => ~MtiOpen

\* The urgent slot is armed exactly while a tick waits, whenever L2a can be
\* taken: no tick waits without its deadline, no deadline fires for nothing.
UrgentFollows == MtiOpen => (urgOn <=> TickWaits(items, busy))

\* The main-loop pass is never left out after an item or a job: when the CPU
\* comes to rest the 68000 reads bit 3 and $1B00 as that work left them.
PassCovers == Quiet => stale \cap {"item", "job"} = {}

\* Every post with a job gets bit 14 cleared again, every item is run.
AllServed == /\ jobs # <<>> ~> ~bit14
             /\ []<>(jobs = <<>> /\ items = <<>> /\ ~PassOwed)

\* The interrupt levels implement the cart chip's single main loop.
JobRuns == \E f \in 1..depth : pc[f] \in {"job", "wait", "tail"}
Cart == INSTANCE CartJobs
          WITH Job <- JobKinds, queue <- jobs, running <- JobRuns, pending <- bit14
ImplementsCart == Cart!CartSpec

=============================================================================
