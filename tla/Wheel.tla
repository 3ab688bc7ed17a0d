-------------------------------- MODULE Wheel --------------------------------
(***************************************************************************)
(* The timer wheel (core/sched/wheel.c) on the board timer, and its three  *)
(* users in an FW_S5 TEST image: the urgent slot of the song ticks         *)
(* (sched.c), the watchdog's period (core/wdog) and the debug save, a slot *)
(* whose callback is left to the thread.                                   *)
(* TIMER, its compare and every deadline are modulo W, compared by signed  *)
(* difference.  L1 runs above everything, L2a (the wheel) above L2b and    *)
(* the thread, and an L2b item keeps MTI masked; a section with interrupts *)
(* off is one step, and TIMER may move between any two steps.              *)
(***************************************************************************)
EXTENDS Integers, Sequences, FiniteSetsExt

CONSTANTS W,           \* TIMER counts modulo W (2^32)
          Period,      \* CLK_TIM7
          Gap,         \* CLK_URGENT5: a tick's post to its urgent finish
          MaxLate,     \* bound on how far TIMER runs ahead of pending work
          MaxTicks     \* bound on the ticks that wait

\* wheel.c: "the 2^32 wrap is harmless" within half of it.  An odd W would
\* have no exact half: the signed order fails there at the extreme distance.
ASSUME WheelAssumption ==
  /\ W \in Nat /\ W % 2 = 0
  /\ Period \in Nat \ {0} /\ Gap \in Nat /\ MaxLate \in Nat
  /\ MaxTicks \in Nat \ {0}
  /\ 2 * (Period + MaxLate) < W /\ 2 * (Gap + MaxLate) < W

Time == 0..(W - 1)
Wrap(x) == x % W

\* (int32_t)(t - d) >= 0
Reached(t, d) == (t - d) % W < W \div 2

\* The slots in the order of a look; TEST is the one in WH_LOW_SLOTS.
URGENT == 0
WDOG   == 1
TEST   == 4
Slots  == {URGENT, WDOG, TEST}
LowSlots == {TEST}

Off == W               \* the compare while the timer is off

VARIABLES
  now,                 \* TIMER
  wheel,               \* w_armed, w_deadline, w_low, w_in_l2a, and TCMP
  l2a, slot, due,      \* the wheel's interrupt: where it is, l2a_look's answer
  l2b,                 \* an engine item runs, MTI masked
  thread, testDue,     \* wheel_low_run: the debug save
  urg,                 \* urg_on, urg_due
  box,                 \* mailbox A: a 9494 waits for L1; STAMP_A
  ticks                \* stamps of the ticks queued or held back, not running

vars == <<now, wheel, l2a, slot, due, l2b, thread, testDue, urg, box, ticks>>
l2aVars  == <<l2a, slot, due>>
lowVars  == <<thread, testDue>>
tickVars == <<urg, ticks>>

\* wheel_program_at: the compare is the earliest armed deadline seen from now.
ProgramAt(w) ==
  [w EXCEPT !.cmp = IF w.armed = {} THEN Off
                    ELSE LET d == {w.at[s] : s \in w.armed} IN
                         CHOOSE e \in d : \A o \in d : Reached(o, e)]

\* wheel_program: left to the last look while l2a_mti runs.
Program(w) == IF w.inL2a THEN w ELSE ProgramAt(w)
Arm(w, s, d) == Program([w EXCEPT !.armed = @ \cup {s}, !.at[s] = d])
Disarm(w, s) == Program([w EXCEPT !.armed = @ \ {s}])

Mti == wheel.cmp # Off /\ Reached(now, wheel.cmp)

\* s5_urgent_arm on the ticks tk: urg and the wheel after it.
\* Mutant: armed when on and changed, not when off or changed.
UrgentArm_And(w, u, tk) ==
  LET st == Wrap(Head(tk) + Gap) IN
  CASE tk # <<>> /\ u.on /\ st # u.due ->
         [wheel |-> Arm(w, URGENT, st), urg |-> [on |-> TRUE, due |-> st]]
    [] tk = <<>> /\ u.on ->
         [wheel |-> Disarm(w, URGENT), urg |-> [u EXCEPT !.on = FALSE]]
    [] OTHER -> [wheel |-> w, urg |-> u]
UrgentArm(w, u, tk) ==
  LET st == Wrap(Head(tk) + Gap) IN
  CASE tk # <<>> /\ (~u.on \/ st # u.due) ->
         [wheel |-> Arm(w, URGENT, st), urg |-> [on |-> TRUE, due |-> st]]
    [] tk = <<>> /\ u.on ->
         [wheel |-> Disarm(w, URGENT), urg |-> [u EXCEPT !.on = FALSE]]
    [] OTHER -> [wheel |-> w, urg |-> u]

ArmUrgent(u, tk) ==
  LET r == UrgentArm(wheel, u, tk) IN wheel' = r.wheel /\ urg' = r.urg

\* The next period of wh_wdog and wh_test, of a deadline d that has come: the
\* first on d's grid still ahead; missed ones merge into one.
NextPeriod(d) == Wrap(d + Period * (((now - d) % W) \div Period + 1))

\* sched_init, wdog_start and the debug save's first arm, MIE off.
Init ==
  /\ now = 0
  /\ wheel = ProgramAt([armed |-> {WDOG, TEST}, at |-> [s \in Slots |-> Period],
                        low |-> {}, inL2a |-> FALSE, cmp |-> Off])
  /\ l2a = "off" /\ slot = URGENT /\ due = 0 /\ l2b = FALSE
  /\ thread = "idle" /\ testDue = 0
  /\ urg = [on |-> FALSE, due |-> 0]
  /\ box = [full |-> FALSE, stamp |-> 0] /\ ticks = <<>>
-----------------------------------------------------------------------------
\* TIMER counts on, but never MaxLate past work that is due: what waits is
\* served well within half the wrap (20 s).
Pending ==
  {wheel.at[s] : s \in wheel.armed \cup wheel.low}
    \cup {Wrap(ticks[i] + Gap) : i \in 1..Len(ticks)}
    \cup (IF box.full THEN {box.stamp} ELSE {})
    \cup (IF l2a \in {"call", "rearm"} THEN {due} ELSE {})
    \cup (IF thread # "idle" THEN {testDue} ELSE {})

Advance ==
  /\ \A d \in Pending : Reached(now, d) => (now - d) % W < MaxLate
  /\ now' = Wrap(now + 1)
  /\ UNCHANGED <<wheel, l2aVars, l2b, lowVars, tickVars, box>>

\* The 68000 posts 9494 on mailbox A, once per unit of TIMER at most.
Post9494 ==
  /\ ~box.full /\ box.stamp # now
  /\ box' = [full |-> TRUE, stamp |-> now]
  /\ UNCHANGED <<now, wheel, l2aVars, l2b, lowVars, tickVars>>

\* L1, above every level but a section with interrupts off: it serves a tick,
\* or something else, and ends with s5_urgent_arm.
L1Tick ==
  /\ l2a # "urgent" /\ box.full /\ Len(ticks) < MaxTicks
  /\ box' = [box EXCEPT !.full = FALSE]
  /\ ticks' = Append(ticks, box.stamp)
  /\ ArmUrgent(urg, ticks')
  /\ UNCHANGED <<now, l2aVars, l2b, lowVars>>

L1Other ==
  /\ l2a # "urgent"
  /\ ArmUrgent(urg, ticks)
  /\ UNCHANGED <<now, l2aVars, l2b, lowVars, box, ticks>>
-----------------------------------------------------------------------------
\* MTI is a level: taken as soon as no item masks it.
L2aEnter ==
  /\ l2a = "off" /\ ~l2b /\ Mti
  /\ l2a' = "enter"
  /\ UNCHANGED <<now, wheel, slot, due, l2b, lowVars, tickVars, box>>

L2aIn ==
  /\ l2a = "enter"
  /\ l2a' = "look" /\ wheel' = [wheel EXCEPT !.inL2a = TRUE]
  /\ UNCHANGED <<now, slot, due, l2b, lowVars, tickVars, box>>

Due_Unsigned(d) == now >= d                      \* mutant: no signed difference
Due(d) == Reached(now, d)

LeaveL2a_Not(w) == ProgramAt(w)                  \* mutant: SCHED_BUG 8
LeaveL2a(w) == [ProgramAt(w) EXCEPT !.inL2a = FALSE]

Taken(w, s) == [w EXCEPT !.armed = @ \ {s}]

\* l2a_look: the lowest due slot, disarmed; a low one is marked for the thread
\* and the look goes on; the last look programs the compare and clears inL2a.
L2aLook ==
  LET hits == {s \in wheel.armed : Due(wheel.at[s])}
      s == Min(hits) IN
  /\ l2a = "look"
  /\ \/ /\ hits = {}
        /\ l2a' = "out" /\ wheel' = LeaveL2a(wheel)
        /\ UNCHANGED <<slot, due>>
     \/ /\ hits # {} /\ s \in LowSlots
        /\ wheel' = [Taken(wheel, s) EXCEPT !.low = @ \cup {s}]
        /\ UNCHANGED l2aVars
     \/ /\ hits # {} /\ s \notin LowSlots
        /\ wheel' = Taken(wheel, s)
        /\ l2a' = "call" /\ slot' = s /\ due' = wheel.at[s]
  /\ UNCHANGED <<now, l2b, lowVars, tickVars, box>>

\* wh_urgent, interrupts off throughout: every overdue tick runs.
UrgentBegin ==
  /\ l2a = "call" /\ slot = URGENT
  /\ l2a' = "urgent" /\ urg' = [urg EXCEPT !.on = FALSE]
  /\ UNCHANGED <<now, wheel, slot, due, l2b, lowVars, box, ticks>>

UrgentTurn ==
  /\ l2a = "urgent"
  /\ IF ticks # <<>> /\ Reached(now, Head(ticks) + Gap)
     THEN ticks' = Tail(ticks) /\ UNCHANGED <<l2a, wheel, urg>>
     ELSE l2a' = "look" /\ ArmUrgent(urg, ticks) /\ UNCHANGED ticks
  /\ UNCHANGED <<now, slot, due, l2b, lowVars, box>>

\* wh_wdog: TIMER is read, then the slot armed again; L1 may come between.
WdogNext ==
  /\ l2a = "call" /\ slot = WDOG
  /\ l2a' = "rearm" /\ due' = NextPeriod(due)
  /\ UNCHANGED <<now, wheel, slot, l2b, lowVars, tickVars, box>>

WdogArm ==
  /\ l2a = "rearm"
  /\ l2a' = "look" /\ wheel' = Arm(wheel, WDOG, due)
  /\ UNCHANGED <<now, slot, due, l2b, lowVars, tickVars, box>>

\* The abort check of a brain call; MTI is unmasked by the trap's exit.
L2aExit ==
  /\ l2a = "out"
  /\ l2a' = "off"
  /\ UNCHANGED <<now, wheel, slot, due, l2b, lowVars, tickVars, box>>
-----------------------------------------------------------------------------
\* L2b runs an item, MTI masked, which is a waiting tick or not; the flush that
\* ends the item before it lets a pending MTI in first.
ItemStart(isTick) ==
  /\ l2a = "off" /\ ~l2b /\ ~Mti /\ (isTick => ticks # <<>>)
  /\ l2b' = TRUE /\ ticks' = IF isTick THEN Tail(ticks) ELSE ticks
  /\ UNCHANGED <<now, wheel, l2aVars, lowVars, urg, box>>

ItemArm == ArmUrgent(urg, ticks)

ItemEnd ==
  /\ l2b
  /\ l2b' = FALSE
  /\ ItemArm
  /\ UNCHANGED <<now, l2aVars, lowVars, box, ticks>>

\* wheel_low_run in the thread, then wh_test, preempted by everything.
ThreadRuns == l2a = "off" /\ ~l2b /\ ~Mti
LowTake ==
  /\ ThreadRuns /\ thread = "idle" /\ wheel.low # {}
  /\ thread' = "call" /\ testDue' = wheel.at[TEST]
  /\ wheel' = [wheel EXCEPT !.low = @ \ {TEST}]
  /\ UNCHANGED <<now, l2aVars, l2b, tickVars, box>>

TestNext ==
  /\ ThreadRuns /\ thread = "call"
  /\ thread' = "rearm" /\ testDue' = NextPeriod(testDue)
  /\ UNCHANGED <<now, wheel, l2aVars, l2b, tickVars, box>>

TestArm ==
  /\ ThreadRuns /\ thread = "rearm"
  /\ thread' = "idle" /\ wheel' = Arm(wheel, TEST, testDue)
  /\ UNCHANGED <<now, l2aVars, l2b, testDue, tickVars, box>>

L2a == \/ L2aEnter \/ L2aIn \/ L2aLook \/ UrgentBegin \/ UrgentTurn
       \/ WdogNext \/ WdogArm \/ L2aExit
L2b == (\E isTick \in BOOLEAN : ItemStart(isTick)) \/ ItemEnd
Thread == LowTake \/ TestNext \/ TestArm

Next == Advance \/ Post9494 \/ L1Tick \/ L1Other \/ L2a \/ L2b \/ Thread
Spec == Init /\ [][Next]_vars

\* TIMER counts on; a level steps while nothing above it does.  The queue is
\* in arrival order, so a waiting tick's turn comes, and between the items the
\* thread's does (strong fairness: higher levels keep interrupting both).
FairSpec == /\ Spec /\ WF_vars(Advance)
            /\ WF_vars(L1Tick) /\ WF_vars(L2a) /\ WF_vars(ItemEnd)
            /\ SF_vars(ItemStart(TRUE)) /\ SF_vars(Thread)
-----------------------------------------------------------------------------
\* Every variable stays in its range (the compare is what CompareExact is about).
TypeOK ==
  /\ now \in Time
  /\ wheel.armed \subseteq Slots /\ wheel.low \subseteq LowSlots
  /\ wheel.at \in [Slots -> Time] /\ wheel.inL2a \in BOOLEAN
  /\ l2a \in {"off", "enter", "look", "call", "urgent", "rearm", "out"}
  /\ slot \in Slots /\ due \in Time /\ l2b \in BOOLEAN
  /\ thread \in {"idle", "call", "rearm"} /\ testDue \in Time
  /\ urg.on \in BOOLEAN /\ urg.due \in Time
  /\ box.full \in BOOLEAN /\ box.stamp \in Time
  /\ ticks \in Seq(Time) /\ Len(ticks) <= MaxTicks

\* No deadline is lost and none fires for nothing: outside the looks MTI is
\* raised exactly when an armed deadline has come, although L1, L2a and the
\* thread all edit the slots and edits inside l2a_mti leave the compare alone.
CompareExact ==
  l2a \in {"off", "enter", "out"} =>
    (Mti <=> \E s \in wheel.armed : Reached(now, wheel.at[s]))

\* s5_urgent_arm: with no item running and no urgent finish under way, the
\* urgent slot holds the oldest waiting tick's deadline, or is disarmed.
UrgentSlotRight ==
  ~l2b /\ ~(l2a \in {"call", "urgent"} /\ slot = URGENT) =>
    IF ticks = <<>> THEN ~urg.on /\ URGENT \notin wheel.armed
    ELSE /\ urg.on /\ URGENT \in wheel.armed
         /\ wheel.at[URGENT] = Wrap(Head(ticks) + Gap)

\* The Z80's packet: an overdue tick never waits with nothing to finish it;
\* the moment no item masks MTI, L2a is taken or is already on its way.
OverdueRaises ==
  /\ ticks # <<>> /\ ~l2b /\ l2a = "off"
  /\ Reached(now, Head(ticks) + Gap)
  => Mti

\* Each periodic slot is in one place: armed, on its way to its callback or
\* in it, and never in two (run twice) or in none (lost).
PeriodicOnce ==
  /\ WDOG \in wheel.armed <=> ~(slot = WDOG /\ l2a \in {"call", "rearm"})
  /\ TEST \in wheel.armed <=> ~(TEST \in wheel.low \/ thread # "idle")
  /\ ~(TEST \in wheel.low /\ thread # "idle")

\* The watchdog's tick never stops coming.
WdogRuns == []<>(l2a = "call" /\ slot = WDOG)
=============================================================================
