---------------------------- MODULE EngineQueue ----------------------------
(***************************************************************************)
(* The ordered engine queue (core/song/song_oeq.c) between L1, which takes *)
(* the 68000's posts in arrival order and moves DONE, and the synth's      *)
(* TIM6 queue (rtl/PAPRIUM/paprium_synth_sched.sv), which mixes a block    *)
(* only once DONE has reached the arrivals it must follow.                 *)
(* Arrivals are counted 1, 2, ... here; the code and the synth see only    *)
(* their numbers modulo NumMod, First at the start.  Which level an item   *)
(* runs at, and that a raise reaches it, is in Levels.                     *)
(***************************************************************************)
EXTENDS Integers, Sequences, FiniteSetsExt, SequencesExt

CONSTANTS QN,          \* slots of the engine queue (SONG_Q_N)
          TimQN,       \* slots of the synth's TIM6 queue
          NumMod,      \* arrival numbers are modulo NumMod (2^16)
          First,       \* ARR when song_oeq_init ran
          MaxPosts,    \* bound on the posts the 68000 makes
          MaxInstants, \* bound on the TIM6 instants
          MaxCalls     \* bound on the items the jobs hand over

\* Half of the numbers are ahead of DONE: the protocol (one post per mailbox
\* until it is finished) keeps far fewer arrivals open; here the bound does.
ASSUME EngineQueueAssumption ==
  /\ QN \in Nat \ {0} /\ TimQN \in Nat \ {0}
  /\ MaxPosts \in Nat /\ MaxInstants \in Nat /\ MaxCalls \in Nat
  /\ NumMod \in Nat /\ NumMod > 2 * MaxPosts + 1
  /\ First \in 0..(NumMod - 1)

Mbox == {"A", "B"}

\* "plain": no engine part (not an audio post); "refused": an audio post that
\* song_gate refuses.  The tick (9494) comes on mailbox A.
Kinds == {"plain", "refused", "audio", "tick"}
Pushes(k) == k \in {"audio", "tick"}
NoArrival == 0         \* an item of a job's (SQ_JOB, SQ_CALL)

VARIABLES
  arr,                 \* arrivals so far; the synth's ARR is Num(arr)
  mail,                \* each mailbox: free, posted (its CAUSE bit is set) or held back
  l1, todo,            \* L1 runs; the mailboxes its CAUSE snapshot has left
  items, stage,        \* the engine queue, the running item first; where that item is
  urgent,              \* the urgent finish (L2a) runs the queue, interrupts off
  seen, done,          \* the newest arrival L1 has served; DONE
  tim6, run,           \* NEED of the queued instants; a block is being mixed
  instants, calls,     \* events so far (bounds only)
  late,                \* DIAG.TIMEOUTS is not 0
  due, newest          \* arrivals whose engine part has not run; the newest run

cpuVars   == <<l1, todo, items, stage, urgent, seen, done>>
synthVars == <<tim6, run, instants, late>>
ghostVars == <<due, newest>>
vars == <<arr, mail, cpuVars, synthVars, calls, ghostVars>>

Free == [at |-> "free", num |-> NoArrival, kind |-> "plain"]

Num_NoWrap(k) == First + k                       \* mutant: wider than the register
Num(k) == (First + k) % NumMod
Ahead(x) == (x - done) % NumMod            \* AHEAD(): how far past DONE
\* (int16_t)(x - y), seen as its sign only
Newer(x, y) == (x - y) % NumMod \in 1..(NumMod \div 2 - 1)
Reached(x, y) == (x - y) % NumMod < NumMod \div 2

Init ==
  /\ arr = 0 /\ mail = [m \in Mbox |-> Free]
  /\ l1 = FALSE /\ todo = <<>> /\ items = <<>> /\ stage = "idle" /\ urgent = FALSE
  /\ seen = First /\ done = First
  /\ tim6 = <<>> /\ run = FALSE /\ instants = 0 /\ late = FALSE
  /\ calls = 0 /\ due = {} /\ newest = 0

Waiting(at) == {m \in Mbox : mail[m].at = at}
Cause == Waiting("posted")
Held == Waiting("held")
-----------------------------------------------------------------------------
\* The 68000 posts on a mailbox that is finished.
Post(m, k) ==
  /\ arr < MaxPosts /\ mail[m].at = "free"
  /\ k = "tick" => m = "A"
  /\ arr' = arr + 1
  /\ mail' = [mail EXCEPT ![m] = [at |-> "posted", num |-> arr + 1, kind |-> k]]
  /\ due' = IF Pushes(k) THEN due \cup {arr + 1} ELSE due
  /\ UNCHANGED <<cpuVars, synthVars, calls, newest>>

\* Both mailboxes pending: the older first, by SEQLAT.
ServeOrder(c) ==
  IF c # Mbox THEN SetToSeq(c)
  ELSE IF Newer(Num(mail["B"].num), Num(mail["A"].num)) THEN <<"A", "B">>
  ELSE <<"B", "A">>

\* CAUSE is read at the entry, and again once everything it held is served.
L1Look ==
  /\ ~urgent /\ todo = <<>> /\ Cause # {}
  /\ l1' = TRUE /\ todo' = ServeOrder(Cause)
  /\ UNCHANGED <<arr, mail, items, stage, urgent, seen, done, synthVars, calls, ghostVars>>

\* song_arrive: held back by a full queue, and behind a post held already.
HoldsBack == Len(items) >= QN \/ Held # {}
HeldAs(p) == [p EXCEPT !.at = "held"]

Item(p) == [num |-> p.num, kind |-> p.kind]

\* One post: song_l1_seen, then the dispatcher, which finishes it unless held.
L1Serve ==
  /\ l1 /\ todo # <<>>
  /\ LET m == Head(todo)
         x == Num(mail[m].num)
         audio == mail[m].kind # "plain"
     IN /\ seen' = IF Ahead(x) > Ahead(seen) /\ Ahead(x) < NumMod \div 2 THEN x ELSE seen
        /\ mail' = [mail EXCEPT ![m] = IF audio /\ HoldsBack THEN HeldAs(@) ELSE Free]
        /\ items' = IF Pushes(mail[m].kind) /\ ~HoldsBack
                    THEN Append(items, Item(mail[m])) ELSE items
  /\ todo' = Tail(todo)
  /\ UNCHANGED <<arr, l1, stage, urgent, done, synthVars, calls, ghostVars>>

DoneValue_Newest(its, ml) == seen                \* mutant: done_value without its scan

\* done_value: one less than the oldest arrival still pending, queued or held
\* back; the newest served when none is.
DoneValue(its, ml) ==
  LET queued == {its[i].num : i \in 1..Len(its)} \ {NoArrival}
      back   == {ml[m].num : m \in {b \in Mbox : ml[b].at = "held"}}
      best   == Min({Ahead(Num(k)) : k \in queued \cup back} \cup {Ahead(seen) + 1})
  IN (done + best - 1) % NumMod

\* song_l1_end: DONE only when nothing waits.
L1End ==
  /\ l1 /\ todo = <<>> /\ Cause = {}
  /\ l1' = FALSE
  /\ done' = IF items = <<>> THEN DoneValue(items, mail) ELSE done
  /\ UNCHANGED <<arr, mail, todo, items, stage, urgent, seen, synthVars, calls, ghostVars>>
-----------------------------------------------------------------------------
\* song_tick_due: a tick waits, queued and not running or held back.
TickWaits ==
  \/ \E i \in (IF stage = "idle" THEN 1 ELSE 2)..Len(items) : items[i].kind = "tick"
  \/ \E m \in Held : mail[m].kind = "tick"

\* L2a: taken between two items only; a tick is overdue.
UrgentStart ==
  /\ ~l1 /\ ~urgent /\ stage = "idle" /\ TickWaits
  /\ urgent' = TRUE
  /\ UNCHANGED <<arr, mail, l1, todo, items, stage, seen, done, synthVars, calls, ghostVars>>

UrgentEnd ==
  /\ urgent /\ stage = "idle"
  /\ urgent' = FALSE
  /\ UNCHANGED <<arr, mail, l1, todo, items, stage, seen, done, synthVars, calls, ghostVars>>

\* A job hands an item over (song_job_done, song_call): L2c, no item running.
JobCall ==
  /\ ~l1 /\ ~urgent /\ stage = "idle"
  /\ calls < MaxCalls /\ Len(items) < QN
  /\ calls' = calls + 1
  /\ items' = Append(items, [num |-> NoArrival, kind |-> "call"])
  /\ UNCHANGED <<arr, mail, l1, todo, stage, urgent, seen, done, synthVars, ghostVars>>

Started_Swapped == IF Len(items) >= 2            \* mutant: SONG_BUG 6
                   THEN <<items[2], items[1]>> \o SubSeq(items, 3, Len(items)) ELSE items
Started == items

\* song_run_one's first critical section; in L2a only while a tick waits.
ItemStart ==
  /\ ~l1 /\ stage = "idle" /\ items # <<>>
  /\ urgent => TickWaits
  /\ stage' = "begin" /\ items' = Started
  /\ UNCHANGED <<arr, mail, l1, todo, urgent, seen, done, synthVars, calls, ghostVars>>

\* The synth's head instant may be mixed: DONE has reached its NEED, or the
\* queue is full.
HeadReady == tim6 # <<>> /\ Reached(done, Num(Head(tim6)))
SynthBusy_Run == run                             \* mutant: BUSY without the ready head
SynthBusy == run \/ HeadReady \/ Len(tim6) = TimQN

\* board_synth_begin: STATUS.BUSY is read until it is 0.
ItemBegin ==
  /\ ~l1 /\ stage = "begin" /\ ~SynthBusy
  /\ stage' = "body"
  /\ UNCHANGED <<arr, mail, l1, todo, items, urgent, seen, done, synthVars, calls, ghostVars>>

\* The item's body, its pass and board_synth_put: the synth's fields are written.
ItemBody ==
  /\ ~l1 /\ stage = "body"
  /\ stage' = "put"
  /\ due' = due \ {Head(items).num}
  /\ newest' = Max({newest, Head(items).num})
  /\ UNCHANGED <<arr, mail, l1, todo, items, urgent, seen, done, synthVars, calls>>

\* One turn of take_held's loop, on the queue and the mailboxes: the oldest
\* held post, if there is room, is gated, pushed and finished.
Take_None(s) == s                                \* mutant: take_held not called
Take(s) ==
  LET back == {m \in Mbox : s.mail[m].at = "held"} IN
  IF back = {} \/ Len(s.items) >= QN THEN s
  ELSE LET m == CHOOSE b \in back : \A o \in back :
                    Ahead(Num(s.mail[b].num)) <= Ahead(Num(s.mail[o].num))
       IN [items |-> IF Pushes(s.mail[m].kind) THEN Append(s.items, Item(s.mail[m]))
                     ELSE s.items,
           mail  |-> [s.mail EXCEPT ![m] = Free]]

DoneAfter_None(its, ml) == done                  \* mutant: SONG_BUG 13
DoneAfter(its, ml) == DoneValue(its, ml)

\* The last critical section: q_rd, the held posts (one per mailbox at most),
\* and DONE.
ItemEnd ==
  /\ ~l1 /\ stage = "put"
  /\ LET s == Take(Take([items |-> Tail(items), mail |-> mail])) IN
     /\ items' = s.items /\ mail' = s.mail
     /\ done' = DoneAfter(s.items, s.mail)
  /\ stage' = "idle"
  /\ UNCHANGED <<arr, l1, todo, urgent, seen, synthVars, calls, ghostVars>>
-----------------------------------------------------------------------------
\* A TIM6 instant: NEED := ARR; dropped, and counted, by a full queue.
Tim6 ==
  /\ instants < MaxInstants
  /\ instants' = instants + 1
  /\ IF Len(tim6) < TimQN THEN tim6' = Append(tim6, arr) /\ UNCHANGED late
     ELSE late' = TRUE /\ UNCHANGED tim6
  /\ UNCHANGED <<arr, mail, cpuVars, run, calls, ghostVars>>

\* The head instant is serviced, mixing a block or not; before its DONE on
\* TIMEOUT or from a full queue, counted.
Service(mixes) ==
  /\ tim6 # <<>> /\ ~run
  /\ tim6' = Tail(tim6) /\ run' = mixes
  /\ late' = (late \/ ~HeadReady)
  /\ UNCHANGED <<arr, mail, cpuVars, instants, calls, ghostVars>>

BlockDone ==
  /\ run /\ run' = FALSE
  /\ UNCHANGED <<arr, mail, cpuVars, tim6, instants, late, calls, ghostVars>>

L1 == L1Look \/ L1Serve \/ L1End
L2 == UrgentStart \/ UrgentEnd \/ JobCall \/ ItemStart \/ ItemBegin \/ ItemBody \/ ItemEnd
Synth == Tim6 \/ (\E mixes \in BOOLEAN : Service(mixes)) \/ BlockDone

Quiet == items = <<>> /\ ~l1 /\ ~urgent /\ Cause = {}
Idle == Quiet /\ tim6 = <<>> /\ ~run /\ UNCHANGED vars

Next == (\E m \in Mbox, k \in Kinds : Post(m, k)) \/ L1 \/ L2 \/ Synth \/ Idle

Spec == Init /\ [][Next]_vars

\* The CPU steps as long as it has work, MEI is taken while it is enabled, and
\* the synth services a ready head and ends its blocks.  Nothing is assumed of
\* the 68000, of the jobs or of TIMEOUT.
Fairness ==
  /\ WF_vars(L1)
  /\ WF_vars(ItemStart \/ ItemBegin \/ ItemBody \/ ItemEnd)
  /\ WF_vars(UrgentEnd)
  /\ WF_vars((HeadReady \/ Len(tim6) = TimQN) /\ \E mixes \in BOOLEAN : Service(mixes))
  /\ WF_vars(BlockDone)
FairSpec == Spec /\ Fairness
-----------------------------------------------------------------------------
Stages == {"idle", "begin", "body", "put"}

TypeOK ==
  /\ arr \in 0..MaxPosts
  /\ mail \in [Mbox -> [at : {"free", "posted", "held"}, num : 0..MaxPosts, kind : Kinds]]
  /\ l1 \in BOOLEAN /\ todo \in Seq(Mbox) /\ urgent \in BOOLEAN
  /\ items \in Seq([num : 0..MaxPosts, kind : Kinds \cup {"call"}]) /\ stage \in Stages
  /\ seen \in 0..(NumMod - 1) /\ done \in 0..(NumMod - 1)
  /\ tim6 \in Seq(0..MaxPosts) /\ run \in BOOLEAN /\ late \in BOOLEAN
  /\ instants \in 0..MaxInstants /\ calls \in 0..MaxCalls
  /\ due \subseteq 1..MaxPosts /\ newest \in 0..MaxPosts

\* DONE never passes an arrival whose engine part has not run, wherever it is
\* (in its mailbox, held back or queued) and however the numbers wrap.
DoneSafe == \A k \in due : ~Reached(done, Num(k))

\* The engine parts run in arrival order: nothing older than one that has run
\* is still to run.
RunsInOrder == \A k \in due : k > newest

\* No block is mixed while an arrival's item writes the synth's fields (rule
\* 6.3.8), unless the synth has given up waiting.
BlockWhole == stage \in {"body", "put"} /\ Head(items).num # NoArrival /\ ~late => ~run

\* A posted mailbox is finished in the end, held back or not.
PostsFinished == \A m \in Mbox : mail[m].at # "free" ~> mail[m].at = "free"

\* Every queued instant is serviced, without the help of TIMEOUT.
InstantsServed == tim6 # <<>> ~> tim6 = <<>>

=============================================================================
