------------------------------ MODULE MegaWire ------------------------------
(***************************************************************************)
(* The MegaWire task and screen with nothing plugged in: the thread's gate *)
(* (core/sched/sched.c), the task's steps and its init (core/mw), the      *)
(* posts that reach it (core/dispatch/disp.c) and the A858 screen.         *)
(*                                                                         *)
(* The task runs in the thread, one step a pass.  A post is taken in L1    *)
(* between any two actions, except while the interrupts are off (pc        *)
(* "masked"); a job runs in L2c, above the thread.                         *)
(*                                                                         *)
(* Left out: a module's paths (present, joined and the driver's done flag  *)
(* stay 0), the packets' and pages' bytes, and the error byte.  Ticks due  *)
(* but not run are counted up to MaxOwed (mod 256 in the code), sprite     *)
(* ages up to Bound and waiting ticks up to Limit.                         *)
(***************************************************************************)
EXTENDS Naturals, Sequences

CONSTANTS Kinds,       \* the packets the game sends, of Packets
          Limit,       \* ticks a packet waits for its server (0x1C2)
          Bound,       \* CLK_MW_SPRITE_MAX, in steps of Time
          MaxOwed,     \* bound on the ticks due and not run
          MaxPosts     \* bound on the posts (A858 and an A6 due are free)

Packets == {"game", "scan", "sign", "join", "skip", "bad"}

ASSUME MegaWireAssumption ==
  /\ Kinds \subseteq Packets /\ Limit \in Nat \ {0} /\ Bound \in Nat \ {0}
  /\ MaxOwed \in Nat \ {0} /\ MaxPosts \in Nat

VARIABLES
  frame, par, aeAge,     \* the sprite frame is open; H+$403; age of the last
  sprPar, sprAge, chk,   \* mw_spr_par, the age of mw_spr_t, mw_chk_par
  owed, ph, pc, waitsB,  \* mw_due - mw_ran; mw_tk_ph; the thread; a post in B
  nx,                    \* the parse's next state, "none" outside it
  ready, init,           \* the MegaWire byte; mw_init's place
  req, aa,               \* MW_REQ, mw_aa_pending
  state, step, cnt,      \* MW_STATE (by name), MW+4, MW+6
  pend, kind,            \* MW_E7_PEND; the staged packet
  result, word,          \* MW_RESULT; $1C10 is not 0
  bit4, bit5,            \* $1FE6 bits 4 and 5
  jobs,                  \* the MegaWire record's read is queued
  scrOn, screen,         \* mw_scr_on, MW_SCREEN
  sph, waiting,          \* mw_scr.ph; its wait is not over
  held,                  \* the 68000 is held
  started, posts         \* C6 has come; posts so far (a bound only)

gate   == <<frame, par, aeAge>>
looks  == <<sprPar, sprAge, chk>>
thread == <<ph, pc, nx>>
inits  == <<ready, init>>
task   == <<state, step, cnt>>
answer == <<result, word, bit4, bit5>>
scr    == <<scrOn, screen, sph, waiting, held>>
posted == <<started, posts>>
vars   == <<gate, looks, thread, owed, waitsB, inits, req, aa, task, pend,
            kind, answer, jobs, scr, posted>>

(* s3_mw_boot: every block cleared; the init comes with the game's C6. *)
Init ==
  /\ frame = FALSE /\ par = 0 /\ aeAge = Bound
  /\ sprPar = 0 /\ sprAge = 0 /\ chk = 0
  /\ owed = 0 /\ ph = "a" /\ pc = "look" /\ waitsB = FALSE /\ nx = "none"
  /\ ready = FALSE /\ init = "no" /\ req = "none" /\ aa = FALSE
  /\ state = "off" /\ step = 0 /\ cnt = 0
  /\ pend = FALSE /\ kind = "skip"
  /\ result = FALSE /\ word = FALSE /\ bit4 = FALSE /\ bit5 = FALSE
  /\ jobs = FALSE
  /\ scrOn = FALSE /\ screen = 0 /\ sph = "call" /\ waiting = FALSE
  /\ held = FALSE /\ started = FALSE /\ posts = 0

-----------------------------------------------------------------------------
(* The game.  Its posts are taken whole in L1, when the interrupts are     *)
(* open; after an accepted A858 it posts nothing more.                     *)

Posts == pc # "masked" /\ ~scrOn
Posted == posts < MaxPosts /\ posts' = posts + 1 /\ started' = started

(* AE opens the sprite frame, B0 only raises the multiplex count. *)
Frame(opens) ==
  /\ Posts /\ Posted
  /\ par' = par + 1 /\ aeAge' = 0 /\ frame' = (frame \/ opens)
  /\ UNCHANGED <<looks, thread, owed, waitsB, inits, req, aa, task, pend, kind,
                 answer, jobs, scr>>

AF ==
  /\ Posts /\ frame /\ frame' = FALSE
  /\ UNCHANGED <<par, aeAge, looks, thread, owed, waitsB, inits, req, aa, task,
                 pend, kind, answer, jobs, scr, posted>>

(* Mutant: E7 forgets the older result's flag. *)
E7_KeepsResult(k) ==
  /\ Posts /\ Posted /\ ready /\ ~pend
  /\ kind' = k /\ pend' = TRUE /\ bit4' = TRUE
  /\ word' = FALSE /\ bit5' = FALSE
  /\ UNCHANGED <<gate, looks, thread, owed, waitsB, inits, req, aa, task, jobs,
                 result, scr>>

(* E7, past its gates: the packet is staged, an older result taken off.    *)
E7(k) ==
  /\ Posts /\ Posted /\ ready /\ ~pend
  /\ kind' = k /\ pend' = TRUE /\ bit4' = TRUE
  /\ result' = FALSE /\ word' = FALSE /\ bit5' = FALSE
  /\ UNCHANGED <<gate, looks, thread, owed, waitsB, inits, req, aa, task, jobs,
                 scr>>

(* A9: the packet is not to be sent. *)
A9 ==
  /\ Posts /\ Posted /\ ready /\ pend' = FALSE /\ bit4' = FALSE
  /\ UNCHANGED <<gate, looks, thread, owed, waitsB, inits, req, aa, task, kind,
                 result, word, bit5, jobs, scr>>

A6 ==
  /\ Posts /\ ready /\ IF bit5 THEN UNCHANGED posted ELSE Posted
  /\ result' = FALSE /\ word' = FALSE /\ bit5' = FALSE
  /\ UNCHANGED <<gate, looks, thread, owed, waitsB, inits, req, aa, task, pend,
                 kind, bit4, jobs, scr>>

(* A4: the low byte, with or without its "keep" bit (0x80). *)
A4(byte) ==
  /\ Posts /\ Posted /\ ready /\ req' = byte
  /\ UNCHANGED <<gate, looks, thread, owed, waitsB, inits, aa, task, pend,
                 kind, answer, jobs, scr>>

(* AA58: the reset and init wait for the task's next tick. *)
AA ==
  /\ Posts /\ Posted /\ started /\ init = "no" /\ ~aa /\ aa' = TRUE
  /\ UNCHANGED <<gate, looks, thread, owed, waitsB, inits, req, task, pend,
                 kind, answer, jobs, scr>>

(* A858 sets the screen request.  The game posts it with no new init under *)
(* way: with no module it posts neither an A4 below 80 nor AA58.           *)
Reinit == aa \/ req = "init" \/ init # "no"

A8 ==
  /\ Posts /\ ready /\ ~Reinit /\ scrOn' = TRUE /\ screen' = 1
  /\ UNCHANGED <<gate, looks, thread, owed, waitsB, inits, req, aa, task, pend,
                 kind, answer, jobs, sph, waiting, held, posted>>

(* A post raised in mailbox B while the thread has the interrupts off. *)
RaiseB ==
  /\ pc = "masked" /\ ~scrOn /\ ~waitsB /\ waitsB' = TRUE
  /\ UNCHANGED <<gate, looks, thread, owed, inits, req, aa, task, pend, kind,
                 answer, jobs, scr, posted>>

(* L2a's TIM7 tick, and time. *)
Tick ==
  /\ owed < MaxOwed /\ owed' = owed + 1
  /\ UNCHANGED <<gate, looks, thread, waitsB, inits, req, aa, task, pend, kind,
                 answer, jobs, scr, posted>>

Older(age) == IF age < Bound THEN age + 1 ELSE age

Time ==
  /\ aeAge' = Older(aeAge) /\ sprAge' = Older(sprAge) /\ waiting' = FALSE
  /\ <<aeAge, sprAge, waiting>>' # <<aeAge, sprAge, waiting>>
  /\ UNCHANGED <<frame, par, sprPar, chk, thread, owed, waitsB, inits, req, aa,
                 task, pend, kind, answer, jobs, scrOn, screen, sph, held,
                 posted>>

-----------------------------------------------------------------------------
(* The jobs (L2c): C6's set-up job runs the init, and the init's own job   *)
(* reads the MegaWire record (MW_HOME when it finds no good copy).         *)

C6 ==
  /\ pc # "masked" /\ ~started /\ started' = TRUE
  /\ init' = "zero"
  /\ UNCHANGED <<gate, looks, thread, owed, waitsB, ready, req, aa, task, pend,
                 kind, answer, jobs, scr, posts>>

ReadRecord ==
  /\ pc # "masked" /\ jobs /\ jobs' = FALSE
  /\ UNCHANGED <<gate, looks, thread, owed, waitsB, inits, req, aa, task, pend,
                 kind, answer, scr, posted>>

(* mw_init: the blocks cleared with the MegaWire byte down, the identity   *)
(* and the byte up, then the block with the interrupts off.                *)
InitZero ==
  /\ init = "zero" /\ init' = "ident" /\ ready' = FALSE
  /\ req' = "none" /\ state' = "new" /\ step' = 0 /\ cnt' = 0
  /\ pend' = FALSE /\ result' = FALSE
  /\ screen' = 0
  /\ UNCHANGED <<gate, looks, thread, owed, waitsB, aa, kind, word, bit4,
                 bit5, jobs, scrOn, sph, waiting, held, posted>>

InitIdent ==
  /\ init = "ident" /\ init' = "irqoff" /\ ready' = TRUE
  /\ UNCHANGED <<gate, looks, thread, owed, waitsB, req, aa, task, pend,
                 kind, answer, jobs, scr, posted>>

InitIrqoff ==
  /\ init = "irqoff" /\ init' = "no" /\ jobs' = TRUE
  /\ word' = FALSE /\ bit4' = FALSE /\ bit5' = FALSE
  /\ UNCHANGED <<gate, looks, thread, owed, waitsB, ready, req, aa,
                 task, pend, kind, result, scr, posted>>

-----------------------------------------------------------------------------
(* The thread's gate.                                                      *)

Due == ph # "a" \/ owed > 0

(* Mutant: An open frame holds the task for ever. *)
SpriteWait_NoBound == frame

(* mw_sprite_wait: an open frame seen for the first time starts its time.  *)
SpriteWait == frame /\ (par # sprPar \/ sprAge < Bound)
Note ==
  IF frame /\ par # sprPar
  THEN sprPar' = par /\ sprAge' = 0
  ELSE UNCHANGED <<sprPar, sprAge>>

Look ==
  /\ pc = "look" /\ init = "no" /\ Due /\ (SpriteWait => par # sprPar) /\ Note
  /\ pc' = IF SpriteWait THEN "look" ELSE "masked"
  /\ UNCHANGED <<gate, chk, ph, nx, owed, waitsB, inits, req, aa, task, pend,
                 kind, answer, jobs, scr, posted>>

(* The second look, interrupts off; a post in mailbox B goes first. *)
Recheck ==
  /\ pc = "masked" /\ (SpriteWait \/ waitsB)
  /\ Note /\ pc' = "look" /\ waitsB' = FALSE
  /\ UNCHANGED <<gate, chk, ph, nx, owed, inits, req, aa, task, pend, kind,
                 answer, jobs, scr, posted>>

Open ==
  /\ pc = "masked" /\ ~SpriteWait /\ ~waitsB
  /\ chk' = par /\ pc' = "open"
  /\ UNCHANGED <<gate, sprPar, sprAge, ph, nx, owed, waitsB, inits, req, aa,
                 task, pend, kind, answer, jobs, scr, posted>>

(* Mutant: The multiplex count not compared once the interrupts are open. *)
Enter_Blind ==
  /\ pc = "open" /\ init = "no"
  /\ pc' = "work" /\ chk' = 0
  /\ UNCHANGED <<gate, sprPar, sprAge, ph, nx, owed, waitsB, inits, req, aa,
                 task, pend, kind, answer, jobs, scr, posted>>

(* The interrupts are open again: the step's first act (chk is dead then). *)
Enter ==
  /\ pc = "open" /\ init = "no"
  /\ pc' = (IF par # chk THEN "look" ELSE "work") /\ chk' = 0
  /\ UNCHANGED <<gate, sprPar, sprAge, ph, nx, owed, waitsB, inits, req, aa,
                 task, pend, kind, answer, jobs, scr, posted>>

-----------------------------------------------------------------------------
(* The task's steps.                                                       *)

At(p) == pc = "work" /\ init = "no" /\ ph = p
Rest  == UNCHANGED <<gate, looks, waitsB, jobs, scr, posted>>

Ends(next) ==
  /\ pc' = "look" /\ ph' = next /\ nx' = "none"
  /\ owed' = IF ph = "a" THEN owed - 1 ELSE owed

(* Step a: an AA58 taken at the tick, then a request taken alone. *)
TakeAA ==
  /\ At("a") /\ aa /\ aa' = FALSE /\ init' = "zero"
  /\ UNCHANGED <<thread, owed, ready, req, task, pend, kind, answer>> /\ Rest

NotReady ==
  /\ At("a") /\ ~aa /\ ~ready /\ Ends("a")
  /\ UNCHANGED <<inits, req, aa, task, pend, kind, answer>> /\ Rest

TakeReq ==
  /\ At("a") /\ ~aa /\ ready /\ req # "none" /\ req' = "none"
  /\ IF req = "init"
     THEN /\ init' = "zero" /\ pc' = "req"
          /\ UNCHANGED <<ph, nx, owed>>
     ELSE Ends("a") /\ UNCHANGED init
  /\ UNCHANGED <<ready, aa, task, pend, kind, answer>> /\ Rest

ReqDone ==
  /\ pc = "req" /\ init = "no" /\ Ends("a")
  /\ UNCHANGED <<inits, req, aa, task, pend, kind, answer>> /\ Rest

Runs == At("a") /\ ~aa /\ ready /\ req = "none"
Goes(p) == pc' = p /\ UNCHANGED <<ph, owed>>

StateNew ==
  /\ Runs /\ state = "new" /\ state' = "idle" /\ step' = 0 /\ Ends("drv")
  /\ UNCHANGED <<inits, req, aa, cnt, pend, kind, answer>> /\ Rest

StateIdle ==
  /\ Runs /\ state = "idle" /\ (result \/ ~pend) /\ Ends("drv")
  /\ UNCHANGED <<inits, req, aa, task, pend, kind, answer>> /\ Rest

(* mw_e7_parse: the packet picks the next state, or posts a result. *)
Parse ==
  /\ Runs /\ state = "idle" /\ ~result /\ pend
  /\ step' = 0
  /\ nx' = IF kind \in {"game", "scan", "sign"} THEN kind ELSE "idle"
  /\ Goes(IF kind \in {"join", "bad"} THEN "result" ELSE "parsed")
  /\ UNCHANGED <<state, cnt, inits, req, aa, pend, kind, answer>> /\ Rest

Parsed ==
  /\ pc = "parsed" /\ init = "no" /\ state' = nx /\ Goes("taken")
  /\ UNCHANGED <<nx, step, cnt, inits, req, aa, pend, kind, answer>>
  /\ Rest

(* An A9 that came meanwhile takes the packet back. *)
Taken ==
  /\ pc = "taken" /\ init = "no"
  /\ state' = IF pend THEN state ELSE "idle"
  /\ pend' = FALSE /\ Goes("bit4")
  /\ UNCHANGED <<nx, step, cnt, inits, req, aa, kind, answer>> /\ Rest

Bit4 ==
  /\ pc = "bit4" /\ init = "no" /\ bit4' = FALSE /\ Ends("drv")
  /\ UNCHANGED <<inits, req, aa, task, pend, kind, result, word, bit5>> /\ Rest

(* States 3, 4 and 6: the request is made, then no answer comes. *)
AskServer  == state = "game" /\ step < 2
AskScan    == state = "scan" /\ step = 0
AskSignIn  == state = "sign" /\ step = 0
WaitServer == state = "game" /\ step = 2
WaitScan   == state = "scan" /\ step = 1
WaitSignIn == state = "sign" /\ step = 1

StateAsk ==
  /\ Runs /\ (AskServer \/ AskScan \/ AskSignIn)
  /\ step' = step + 1 /\ cnt' = 0 /\ Ends("drv")
  /\ UNCHANGED <<state, inits, req, aa, pend, kind, answer>> /\ Rest

StateWait ==
  /\ Runs /\ (WaitServer \/ WaitScan \/ WaitSignIn)
  /\ cnt' = cnt + 1
  /\ IF cnt' > Limit THEN Goes("result") /\ nx' = "none" ELSE Ends("drv")
  /\ UNCHANGED <<state, step, inits, req, aa, pend, kind, answer>> /\ Rest

(* mw_result: the flag, the word, the status bit, and the state. *)
Result ==
  /\ pc = "result" /\ init = "no" /\ result' = TRUE /\ Goes("word")
  /\ UNCHANGED <<nx, inits, req, aa, task, pend, kind, word, bit4, bit5>>
  /\ Rest

Word ==
  /\ pc = "word" /\ init = "no" /\ word' = TRUE /\ Goes("bit5")
  /\ UNCHANGED <<nx, inits, req, aa, task, pend, kind, result, bit4, bit5>>
  /\ Rest

Bit5 ==
  /\ pc = "bit5" /\ init = "no" /\ bit5' = TRUE /\ state' = "idle"
  /\ IF nx = "none" THEN Ends("drv") ELSE Goes("parsed") /\ nx' = nx
  /\ UNCHANGED <<step, cnt, inits, req, aa, pend, kind, result, word>>
  /\ UNCHANGED bit4 /\ Rest

(* Steps b and c: the driver finds no module, the status word is 0, and    *)
(* the information block is built, and stored 18 of its 52 words a step,   *)
(* only when 81 asked for it.                                              *)
Block == <<"ib", "ibst1", "ibst2", "ibst3", "tail">>

Steps ==
  /\ \/ At("drv") /\ Ends("st")
     \/ At("st") /\ \E asked \in BOOLEAN : Ends(IF asked THEN "ib" ELSE "tail")
     \/ \E i \in 1..(Len(Block) - 1) : At(Block[i]) /\ Ends(Block[i + 1])
     \/ At("tail") /\ Ends("a")
  /\ UNCHANGED <<inits, req, aa, task, pend, kind, answer>> /\ Rest

-----------------------------------------------------------------------------
(* The screen: one step of its loop, below the task and never inside one.  *)

ScreenDue ==
  /\ pc = "look" /\ init = "no" /\ ph = "a"
  /\ Due => SpriteWait /\ par = sprPar
  /\ scrOn /\ screen # 0 /\ ~jobs /\ (sph = "call" \/ ~waiting)

KeepsScreen ==
  UNCHANGED <<gate, looks, thread, owed, waitsB, inits, req, aa, task, pend,
              kind, answer, jobs, scrOn, posted>>

(* mw_s1_end: the record's access point, or "home" (MW_HOME).             *)
S1End == sph' = "call" /\ \E home \in BOOLEAN : screen' = IF home THEN 3 ELSE 2

ScrCall ==
  /\ ScreenDue /\ sph = "call" /\ sph' = "body" /\ waiting' = TRUE
  /\ UNCHANGED <<screen, held>> /\ KeepsScreen

ScrBody ==
  /\ ScreenDue /\ sph = "body"
  /\ sph' = IF screen = 1 THEN "s1a" ELSE "call"
  /\ waiting' = (screen = 1)
  /\ UNCHANGED <<screen, held>> /\ KeepsScreen

(* After the waits the 68000 is parked already, or held for the pages. *)
ScrS1A(parked) ==
  /\ ScreenDue /\ sph = "s1a"
  /\ IF parked
     THEN S1End /\ UNCHANGED <<held, waiting>>
     ELSE /\ held' = TRUE /\ waiting' = TRUE /\ sph' = "s1b"
          /\ UNCHANGED screen
  /\ KeepsScreen

(* Mutant: The 68000 is left held. *)
ScrS1B_Held ==
  /\ ScreenDue /\ sph = "s1b" /\ held' = held /\ S1End
  /\ UNCHANGED waiting /\ KeepsScreen

ScrS1B ==
  /\ ScreenDue /\ sph = "s1b" /\ held' = FALSE /\ S1End
  /\ UNCHANGED waiting /\ KeepsScreen

-----------------------------------------------------------------------------
Gate   == Look \/ Recheck \/ Open \/ Enter
Task   == \/ TakeAA \/ NotReady \/ TakeReq \/ ReqDone \/ StateNew \/ StateIdle
          \/ Parse \/ Parsed \/ Taken \/ Bit4 \/ StateAsk \/ StateWait
          \/ Result \/ Word \/ Bit5 \/ Steps
Screen == ScrCall \/ ScrBody \/ (\E p \in BOOLEAN : ScrS1A(p)) \/ ScrS1B
Inits  == InitZero \/ InitIdent \/ InitIrqoff
Game   == \/ \E opens \in BOOLEAN : Frame(opens)
          \/ \E k \in Kinds : E7(k)
          \/ \E b \in {"keep", "init"} : A4(b)
          \/ AF \/ A9 \/ A6 \/ AA \/ A8 \/ RaiseB \/ C6

Next == Gate \/ Task \/ Screen \/ Inits \/ Game \/ ReadRecord \/ Tick \/ Time

(* The thread goes round and gets through a tick before the next one, no   *)
(* post waits in mailbox B at every look, the queue is served, time        *)
(* passes, and the game takes a result it is shown.                        *)
Spec ==
  /\ Init /\ [][Next]_vars
  /\ WF_vars(Gate \/ Task) /\ SF_vars(Screen) /\ WF_vars(Inits) /\ SF_vars(Open)
  /\ SF_vars(ReadRecord) /\ WF_vars(Tick) /\ WF_vars(Time)
  /\ SF_vars(bit5 /\ A6)

-----------------------------------------------------------------------------
(* Every variable stays in its range. *)
TypeOK ==
  /\ frame \in BOOLEAN /\ par \in 0..MaxPosts /\ aeAge \in 0..Bound
  /\ sprPar \in 0..par /\ sprAge \in 0..Bound /\ chk \in 0..par
  /\ owed \in 0..MaxOwed /\ ph \in {"a", "drv", "st", "ib", "ibst1", "ibst2",
                                     "ibst3", "tail"}
  /\ pc \in {"look", "masked", "open", "work", "req", "parsed", "taken", "bit4",
             "result", "word", "bit5"}
  /\ waitsB \in BOOLEAN /\ nx \in {"none", "idle", "game", "scan", "sign"}
  /\ ready \in BOOLEAN /\ init \in {"no", "zero", "ident", "irqoff"}
  /\ req \in {"none", "keep", "init"}
  /\ aa \in BOOLEAN /\ state \in {"off", "new", "idle", "game", "scan", "sign"}
  /\ step \in 0..2 /\ cnt \in 0..(Limit + 1) /\ pend \in BOOLEAN
  /\ kind \in Packets /\ result \in BOOLEAN
  /\ word \in BOOLEAN /\ bit4 \in BOOLEAN /\ bit5 \in BOOLEAN
  /\ jobs \in BOOLEAN /\ scrOn \in BOOLEAN
  /\ screen \in 0..3 /\ sph \in {"call", "body", "s1a", "s1b"}
  /\ waiting \in BOOLEAN /\ held \in BOOLEAN
  /\ started \in BOOLEAN /\ posts \in 0..MaxPosts

(* No step of the task starts its work while the game's sprite frame is    *)
(* open, unless its last AE (or B0) is as old as the bound: an AE may come *)
(* between the look, the look with the interrupts off, and the step        *)
(* (sched.c:588-598, mw_task.c:523-530).                                   *)
StepOutsideFrame ==
  [][pc = "open" /\ pc' = "work" => ~frame \/ aeAge = Bound]_vars

(* A result the task counts as shown is whole: its word is in $1C10 and    *)
(* its status bit is up, whichever A6, E7 or init came between the stores; *)
(* else the game would see nothing and state 2 would wait for ever.        *)
ResultWhole == result /\ pc \notin {"word", "bit5"} => word /\ bit5

(* A tick the thread could not take in time runs late; it is not dropped   *)
(* and open sprite frames do not hold it for ever.                         *)
TicksRun == owed = MaxOwed ~> owed < MaxOwed

(* The A858 screen gets past its first state and releases the 68000 it     *)
(* held, although every step waits for the queue, the task and the clock:  *)
(* provided the thread keeps catching up with the ticks (102 ms apart).    *)
CatchesUp   == []<>(ph = "a" /\ owed = 0)
ScreenShown == CatchesUp => (screen = 1 ~> screen \in {2, 3} /\ ~held)

=============================================================================
