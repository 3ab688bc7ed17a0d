----------------------------- MODULE BrainCall -----------------------------
(***************************************************************************)
(* The CPU MATE brain call: the glue (buddy/s1_glue.c, FW_S1), the call    *)
(* wrapper, the trap exits that abort it, the scheduler's part of it       *)
(* (core/sched/sched.c), and the link it answers through                   *)
(* (paprium_mcd_link.sv, reached over paprium_xlink.sv).                   *)
(*                                                                         *)
(* The game sends an update (a post), the thread calls the brain with      *)
(* every interrupt open, and the link gives the 68000 the word and drops   *)
(* BUSY at the counted times.  $A12001 is written by the 68000 whenever it *)
(* likes: AI off, restart (with AI off, or AI off held), release.          *)
(*                                                                         *)
(* The word is the number of the post it was computed for.  The counted    *)
(* times are left out: D_WORD and D_BUSY fall due after the ARM, in that   *)
(* order (publish() makes D_BUSY at least D_WORD).  TEST's LATE flag and   *)
(* counters are left out.                                                  *)
(***************************************************************************)
EXTENDS Naturals, Sequences

CONSTANTS Slices,      \* slices the Word RAM pattern takes (thousands)
          Taken,       \* the levels taken above a call, of LevelNames
          Faulty,      \* TRUE: the brain's code may raise one exception
          MaxPosts,    \* bound on the game's updates
          MaxWrites,   \* bound on its writes to $A12001
          MaxLost      \* bound on the ARM toggles lost on a clk_md edge

LevelNames == {"l1", "l2a", "l2b"}

ASSUME BrainAssumption ==
  /\ Taken \subseteq LevelNames
  /\ Slices \in Nat \ {0} /\ Faulty \in BOOLEAN
  /\ MaxPosts \in Nat /\ MaxWrites \in Nat /\ MaxLost \in Nat

VARIABLES
  sres, sbrq,          \* the link: the sub-CPU runs; its bus is requested
  flags,               \* the link's sticky flags
  cause,               \* CAUSE.S, raised by a change of the post count
  on,                  \* LCTRL bit 0, option D
  busy, armed, arming, \* BUSY; armed; an ARM toggle still crossing
  timing, given,       \* the timer counts; the word has been released
  posts,               \* the post count
  pend, latch, word,   \* the PEND register; the link's copy; COMSTAT2
  state,               \* bud.state: "new", "ready", "disabled"
  restartP, restoreP, flagP, pos, \* the glue's pending work, restore position
  pending, active,     \* brain_pending, brain_active (sched.c)
  abortReq, s1Abort,   \* buddy_abort_req, s1_brain_abort
  raised,              \* the brain's own restart flag (REG16(e->flag))
  pc, posts0, ls0, tries, rc, clr,  \* the thread: where, and its locals
  over,                \* the levels above the thread, innermost last
  settled,             \* the thread has been round once since a release
  loose,               \* history: the last update sent during a call
  ram, dirty,          \* history: the restore, the AI clear since a restart
  missed,              \* history: the last restart's flag was cleared unseen
  skipped,             \* history: a call was refused by an old abort request
  writes, lost         \* events so far (bounds only)

stub  == <<sres, sbrq, busy, armed, timing, given, posts, latch, word>>
link  == <<stub, flags, arming>>
glue  == <<state, restartP, restoreP, flagP, pos>>
abort == <<abortReq, s1Abort>>
bound == <<writes, lost>>
calls == <<posts0, ls0, tries, rc>>
hist  == <<loose, ram, dirty, missed, skipped>>
fw    == <<glue, pending, active, abort, raised, pc, calls, clr, over>>
vars  == <<link, cause, on, pend, fw, settled, hist, bound>>

-----------------------------------------------------------------------------
(* Reset (R1, the cartridge's): the restart flag powers up 1.  crt0 clears *)
(* the glue's state, and buddy_s1_boot the abort words and the SEND flag.  *)
Init ==
  /\ sres = TRUE /\ sbrq = FALSE /\ flags = {"restart"} /\ cause = FALSE
  /\ on = FALSE
  /\ busy = FALSE /\ armed = FALSE /\ arming = FALSE
  /\ timing = FALSE /\ given = FALSE /\ posts = 0
  /\ pend = 0 /\ latch = 0 /\ word = 0
  /\ state = "new" /\ restartP = FALSE /\ restoreP = FALSE
  /\ flagP = FALSE /\ pos = 0
  /\ pending = FALSE /\ active = FALSE /\ abortReq = FALSE /\ s1Abort = FALSE
  /\ raised = FALSE
  /\ pc = "top" /\ posts0 = 0 /\ ls0 = {} /\ tries = 0 /\ rc = FALSE /\ clr = {}
  /\ over = <<>> /\ settled = TRUE
  /\ ram = "stale" /\ dirty = TRUE /\ missed = FALSE /\ skipped = FALSE
  /\ loose = 0
  /\ writes = 0 /\ lost = 0

-----------------------------------------------------------------------------
(* The link.                                                               *)

Halted == ~sres \/ sbrq

(* From the update's SEND flag taken to its ARM. *)
MidCall == pc \in {"enter", "crit", "wrap", "h2", "h1", "landed", "clean",
                   "recheck", "pub"}

(* An update: the game makes none while BUSY is up or the sub-CPU is held, *)
(* and none before the thread has been round once since a release (the     *)
(* start-up handshake lies between).  The count's change raises CAUSE.S.   *)
(* An ARM still crossing was for an earlier post, and is dropped.          *)
Post ==
  /\ ~Halted /\ ~busy /\ settled /\ posts < MaxPosts
  /\ busy' = on /\ armed' = FALSE /\ arming' = FALSE
  /\ timing' = TRUE /\ given' = FALSE
  /\ flags' = flags \cup {"send"} /\ posts' = posts + 1
  /\ cause' = TRUE /\ loose' = IF MidCall THEN posts + 1 ELSE loose
  /\ UNCHANGED <<sres, sbrq, latch, word, on, pend, fw, settled, ram, dirty,
                 missed, skipped, bound>>

(* A write to $A12001: AI off, the restart (its SRES edge comes with SBRQ  *)
(* up) and the release; after a release the thread gets round once before  *)
(* the game's next restart.                                                *)
Write(run, req) ==
  LET restart == sres /\ ~run
      aioff   == req /\ ~sbrq
  IN /\ writes < MaxWrites /\ <<run, req>> # <<sres, sbrq>>
     /\ restart => req /\ settled
     /\ sres' = run /\ sbrq' = req
     /\ flags' = flags \cup (IF restart THEN {"restart"} ELSE {})
                       \cup (IF aioff THEN {"aioff"} ELSE {})
     /\ IF restart \/ aioff
        THEN busy' = FALSE /\ armed' = FALSE /\ timing' = FALSE
        ELSE UNCHANGED <<busy, armed, timing>>
     /\ word' = IF restart THEN 0 ELSE word
     /\ settled' = (settled /\ (Halted => (~run \/ req)))
     /\ ram' = IF restart THEN "stale" ELSE ram
     /\ dirty' = (dirty \/ restart)
     /\ missed' = IF restart THEN "restart" \in clr ELSE missed
     /\ writes' = writes + 1
     /\ UNCHANGED <<arming, given, posts, latch, cause, on, pend, fw, loose,
                    skipped, lost>>

AiOff   == Write(sres, TRUE)
Restart == Write(FALSE, TRUE)
Release == Write(TRUE, FALSE)

(* The ARM's toggle is through: taken while a timer runs, else ignored.    *)
TakeArm ==
  /\ arming /\ arming' = FALSE
  /\ armed' = (armed \/ timing)
  /\ latch' = IF timing THEN pend ELSE latch
  /\ UNCHANGED <<sres, sbrq, flags, cause, on, busy, timing, given, posts,
                 word, pend, fw, settled, hist, bound>>

(* "An ARM toggle lost on a clk_md edge", which publish() is ready for.    *)
LoseArm ==
  /\ arming /\ arming' = FALSE /\ lost < MaxLost /\ lost' = lost + 1
  /\ UNCHANGED <<sres, sbrq, flags, cause, on, busy, armed, timing, given,
                 posts, latch, word, pend, fw, settled, hist, writes>>

(* Tick D_WORD, then tick D_BUSY; without option D there is no BUSY.       *)
GiveWord ==
  /\ armed /\ timing /\ ~given /\ given' = TRUE
  /\ word' = IF on THEN latch ELSE word
  /\ UNCHANGED <<sres, sbrq, flags, cause, on, busy, armed, arming, timing,
                 posts, latch, pend, fw, settled, hist, bound>>
DropBusy ==
  /\ armed /\ timing /\ given
  /\ busy' = FALSE /\ timing' = FALSE /\ armed' = FALSE
  /\ UNCHANGED <<sres, sbrq, flags, cause, on, arming, given, posts, latch,
                 word, pend, fw, settled, hist, bound>>

NoBusy ==
  /\ ~on /\ busy /\ busy' = FALSE
  /\ UNCHANGED <<sres, sbrq, flags, cause, on, armed, arming, timing, given,
                 posts, latch, word, pend, fw, settled, hist, bound>>

LinkStep == NoBusy \/ TakeArm \/ LoseArm \/ GiveWord \/ DropBusy
Game     == Post \/ AiOff \/ Restart \/ Release

-----------------------------------------------------------------------------
(* The levels above the thread.  Outside a brain call they change nothing  *)
(* here but brain_pending; inside one they are taken at any step but the   *)
(* masked ones.  L1 and L2a poll LSTAT before they return.                 *)

Masked == pc \in {"clear", "landed"}
Above(l) == CASE l = "l1"  -> {}
              [] l = "l2a" -> {"l1"}
              [] l = "l2b" -> {"l1", "l2a"}
Polls(l) == l \in {"l1", "l2a"}

(* CAUSE.S: L1 acknowledges it and posts the brain.                        *)
Send ==
  /\ cause /\ ~Masked
  /\ cause' = FALSE /\ pending' = TRUE
  /\ UNCHANGED <<link, on, pend, glue, active, abort, raised, pc, calls, clr,
                 over, settled, hist, bound>>

Enter(l) ==
  /\ active /\ ~Masked
  /\ over # <<>> => l \in Above(over[Len(over)])
  /\ over' = Append(over, l)
  /\ UNCHANGED <<link, cause, on, pend, glue, pending, active, abort, raised,
                 pc, calls, clr, settled, hist, bound>>

(* s1_brain_resume: jmp_sp is set and the code the level returns to is the *)
(* call's.  Only the level that interrupted the call itself does.          *)
InCall == pc \in {"h2", "h1"}
Lands_Nested(asked) == asked /\ InCall
Lands(asked) == asked /\ InCall /\ Len(over) = 1

Exit ==
  /\ over # <<>>
  /\ LET asks  == Polls(over[Len(over)]) /\ active /\ Halted
         asked == s1Abort \/ asks
     IN /\ abortReq' = (abortReq \/ asks)
        /\ s1Abort'  = (asked /\ ~Lands(asked))
        /\ pc' = IF Lands(asked) THEN "landed" ELSE pc
  /\ over' = SubSeq(over, 1, Len(over) - 1)
  /\ UNCHANGED <<link, cause, on, pend, glue, pending, active, raised, calls,
                 clr, settled, hist, bound>>

(* sched_exception, brain_fault: an exception in the call's code.          *)
Fault ==
  /\ Faulty /\ over = <<>> /\ InCall
  /\ abortReq' = TRUE /\ state' = "disabled" /\ pc' = "landed"
  /\ UNCHANGED <<link, cause, on, pend, restartP, restoreP, flagP, pos,
                 pending, active, s1Abort, raised, calls, clr, over, settled,
                 hist, bound>>

Levels == Send \/ (\E l \in Taken : Enter(l)) \/ Exit

-----------------------------------------------------------------------------
(* The thread's idle housekeeping (l3_idle, idle_work): interrupts off     *)
(* from the LSTAT read to the LCLR write.                                  *)

Thread(p) == pc = p /\ over = <<>>
glueRest == <<restartP, restoreP, flagP, pos>>

Quiet ==
  /\ Thread("top") /\ ~pending /\ flags \cap {"send", "aioff"} = {}
  /\ ~settled /\ settled' = TRUE
  /\ UNCHANGED <<link, cause, on, pend, glue, pending, active, abort, raised,
                 pc, calls, clr, over, hist, bound>>

(* A plain stub: option D off, and every flag forgotten.                   *)
IdleOff ==
  /\ state' = "disabled" /\ on' = FALSE /\ clr' = {"send", "restart", "aioff"}
  /\ UNCHANGED <<glueRest, pending, ram>>

Released(rp) == rp /\ ~Halted
SliceEnds(p) == p + 1 = Slices

(* The pattern is whole when all its slices came after the last restart. *)
Restored(r, first, last) ==
  IF last /\ (first \/ r = "filling") THEN "whole"
  ELSE IF first THEN "filling" ELSE r

SendWaited_Never(rp, rs) == FALSE
SendWaited(rp, rs) ==
  "send" \in flags /\ "restart" \notin flags /\ ~rp /\ ~rs

IdleReady ==
  LET new  == state = "new"
      rp   == new \/ "restart" \in flags \/ restartP
      more == Released(rp) \/ restoreP
      p    == IF Released(rp) THEN 0 ELSE pos
      last == more /\ SliceEnds(p)
      wait == rp /\ Halted
  IN /\ state' = "ready"
     /\ flagP' = (flagP \/ new \/ "restart" \in flags)
     /\ restartP' = wait
     /\ restoreP' = (more /\ ~last)
     /\ pos' = IF last THEN 0 ELSE IF more THEN p + 1 ELSE pos
     /\ ram' = Restored(ram, Released(rp), last)
     /\ pending' = (pending \/ SendWaited(wait, more /\ ~last))
     /\ on' = TRUE
     /\ clr' = (flags \cap {"restart"})
                 \cup (IF more \/ wait \/ sbrq THEN {} ELSE {"aioff"})

(* buddy_init: another link, or a build without the brain.                 *)
Idle ==
  /\ Thread("top") /\ ~pending /\ flags \cap {"send", "aioff"} # {}
  /\ \/ state \in {"new", "disabled"} /\ IdleOff
     \/ state \in {"new", "ready"} /\ IdleReady
  /\ pc' = "clear"
  /\ UNCHANGED <<link, cause, pend, active, abort, raised, calls, over,
                 settled, dirty, missed, skipped, loose,
                 bound>>

Clear ==
  /\ Thread("clear") /\ pc' = "top"
  /\ flags' = flags \ clr /\ clr' = {} /\ settled' = TRUE
  /\ UNCHANGED <<stub, arming, cause, on, pend, glue, pending, active, abort,
                 raised, calls, over, hist, bound>>

-----------------------------------------------------------------------------
(* The thread's call (sched_thread_once, l3_brain, run_call, publish).     *)

Take ==
  /\ Thread("top") /\ pending
  /\ pending' = FALSE /\ active' = TRUE /\ pc' = "look"
  /\ UNCHANGED <<link, cause, on, pend, glue, abort, raised, calls, clr, over,
                 settled, hist, bound>>

CanCall_Early == "send" \in flags /\ "restart" \notin flags /\ state = "ready"
CanCall == /\ "send" \in flags /\ "restart" \notin flags
           /\ state = "ready" /\ ~restartP /\ ~restoreP

(* A thread step that moves on and changes nothing else.                   *)
Go(p) ==
  /\ pc' = p
  /\ UNCHANGED <<link, cause, on, pend, glue, pending, active, abort, raised,
                 calls, clr, over, settled, hist, bound>>

Look == Thread("look") /\ Go(IF CanCall THEN "ack" ELSE "end")

Ack ==
  /\ Thread("ack") /\ pc' = "enter" /\ flags' = flags \ {"send"}
  /\ UNCHANGED <<stub, arming, cause, on, pend, glue, pending, active, abort,
                 raised, calls, clr, over, settled, hist, bound>>

(* Halted since the post: no call.  Else the brain is told to restart.     *)
Ignore == Thread("enter") /\ Halted /\ Go("end")
Prepare ==
  /\ Thread("enter") /\ ~Halted /\ pc' = "crit"
  /\ posts0' = posts /\ ls0' = flags
  /\ raised' = (raised \/ flagP) /\ flagP' = FALSE
  /\ UNCHANGED <<link, cause, on, pend, state, restartP, restoreP, pos,
                 pending, active, abort, tries, rc, clr, over, settled, hist,
                 bound>>

(* "An abort asked before the call starts: no call."                       *)
Check ==
  /\ Thread("crit") /\ rc' = abortReq /\ s1Abort' = FALSE
  /\ pc' = IF abortReq THEN "clean" ELSE "wrap"
  /\ skipped' = (skipped \/ abortReq)
  /\ UNCHANGED <<link, cause, on, pend, glue, pending, active, abortReq,
                 raised, posts0, ls0, tries, clr, over, settled, loose, ram,
                 dirty, missed, bound>>

(* buddy_call_brain up to jmp_sp; H2, which clears the AI block when told; *)
(* H1, the word; jmp_sp cleared.                                           *)
Wrap == Thread("wrap") /\ Go("h2")
H2 ==
  /\ Thread("h2") /\ pc' = "h1" /\ raised' = FALSE
  /\ dirty' = (dirty /\ ~(raised /\ "restart" \notin flags))
  /\ UNCHANGED <<link, cause, on, pend, glue, pending, active, abort, calls,
                 clr, over, settled, loose, ram, missed, skipped,
                 bound>>
H1 == Thread("h1") /\ Go("clean")

Landed ==
  /\ Thread("landed") /\ rc' = TRUE /\ pc' = "clean"
  /\ UNCHANGED <<link, cause, on, pend, glue, pending, active, abort, raised,
                 posts0, ls0, tries, clr, over, settled, hist, bound>>

Clean ==
  /\ Thread("clean") /\ abortReq' = FALSE /\ s1Abort' = FALSE
  /\ rc' = FALSE /\ pc' = IF rc THEN "end" ELSE "recheck"
  /\ UNCHANGED <<link, cause, on, pend, glue, pending, active, raised, posts0,
                 ls0, tries, clr, over, settled, hist, bound>>

(* A new post, a halt, or a reset or AI off during the call: no word.      *)
Overtaken == posts # posts0 \/ Halted
Recheck ==
  Thread("recheck")
    /\ Go(IF Overtaken \/ (flags \ ls0) \cap {"restart", "aioff"} # {}
          THEN "end" ELSE "pub")

Publish ==
  /\ Thread("pub") /\ pc' = "back" /\ pend' = posts0
  /\ arming' = TRUE /\ tries' = 0
  /\ UNCHANGED <<stub, flags, cause, on, glue, pending, active, abort, raised,
                 posts0, ls0, rc, clr, over, settled, hist, bound>>

(* The three reads outlast the toggle's crossing.                          *)
ReadBack ==
  Thread("back") /\ ~arming /\ (armed \/ ~busy \/ Overtaken) /\ Go("end")
ArmAgain ==
  /\ Thread("back") /\ ~arming /\ ~armed /\ busy /\ ~Overtaken
  /\ arming' = TRUE /\ tries' = tries + 1
  /\ pc' = IF tries = 2 THEN "end" ELSE "back"
  /\ UNCHANGED <<stub, flags, cause, on, pend, glue, pending, active, abort,
                 raised, posts0, ls0, rc, clr, over, settled, hist, bound>>

End ==
  /\ Thread("end") /\ active' = FALSE /\ pc' = "top"
  /\ UNCHANGED <<link, cause, on, pend, glue, pending, abort, raised, calls,
                 clr, over, settled, hist, bound>>

Idling  == Quiet \/ Idle \/ Clear
Calling == \/ Take \/ Look \/ Ack \/ Ignore \/ Prepare \/ Check \/ Wrap \/ H2
           \/ H1 \/ Landed \/ Clean \/ Recheck \/ Publish \/ ReadBack
           \/ ArmAgain \/ End
Step    == Idling \/ Calling

Next == Game \/ LinkStep \/ Levels \/ Fault \/ Step

(* The link is hardware; levels end; the thread runs whenever none does.   *)
Spec == /\ Init /\ [][Next]_vars
        /\ WF_vars(TakeArm) /\ WF_vars(GiveWord) /\ WF_vars(DropBusy)
        /\ WF_vars(NoBusy) /\ SF_vars(Send) /\ SF_vars(Step)
        /\ \A d \in 1..3 : SF_vars(Len(over) = d /\ Exit)

-----------------------------------------------------------------------------
(* Properties.                                                             *)

TypeOK ==
  /\ flags \cup clr \subseteq {"send", "restart", "aioff"}
  /\ state \in {"new", "ready", "disabled"} /\ pos \in 0..(Slices - 1)
  /\ {posts, posts0, pend, latch, word} \subseteq 0..MaxPosts
  /\ tries \in 0..3 /\ over \in Seq(LevelNames) /\ Len(over) <= 3

(* What the 68000 reads when BUSY drops is the answer to the update it     *)
(* waits for, computed after the Word RAM and the AI block were set up     *)
(* again since the last restart (publish's PEND before ARM, run_call's     *)
(* second look at the link, can_call's two pending words).  Two cases are  *)
(* left out.  An update sent during a call (which BUSY prevents unless     *)
(* option D is off or an AI off took BUSY down) may come between that look *)
(* and the ARM.  A restart whose flag the LCLR write clears together with  *)
(* an older one's (missed: it came between the LSTAT read and that write)  *)
(* is not set up.                                                          *)
AnswerMatches ==
  armed /\ timing /\ on =>
    /\ posts # loose => latch = posts
    /\ missed \/ (ram = "whole" /\ ~dirty)

(* An abort lands with no level left above the call: nothing of L1, L2a or *)
(* L2b is cut (s1_brain_resume against the nested levels' frames).         *)
CutsNoLevel == [][pc' = "landed" /\ pc # "landed" => over' = <<>>]_vars

(* The game's update is answered: BUSY drops.  Two ways out are excused:   *)
(* a call refused by an abort request left over, and a fault of the brain. *)
Answered       == busy ~> ~busy
AnsweredUnless == busy ~> (~busy \/ skipped \/ state = "disabled")

=============================================================================
