------------------------------- MODULE JobRing -------------------------------
(***************************************************************************)
(* The job queue as it is: a ring of N slots under two masked indices      *)
(* (core/dispatch/jobs.c), the handlers that fill it (disp.c, mw_res.c)    *)
(* and the zoom, whose flags F4, F5 and B6 set in L1 while its jobs test   *)
(* and set them in L2c.  A handler, and a section with interrupts off, is  *)
(* one step; L1 comes between any two steps of a job.                      *)
(***************************************************************************)
EXTENDS Integers, Sequences

CONSTANTS N,           \* slots: 16
          GameOrder    \* the 68000 posts C6 first and waits for it, as the game

\* The indices are bytes and only their low bits count.
ASSUME RingAssumption == N \in 4..256 /\ 256 % N = 0 /\ GameOrder \in BOOLEAN

\* What l3_job's switch tells apart; "job" is any other type (an unpack, a save).
Jobs  == {"C6", "MW", "job", "F4", "SAVE", "RESCALE", "RESTORE"}
Slots == 0..(N - 1)

VARIABLES
  wr, rd, slots,       \* q_wr, q_rd (modulo N), the types in q
  bit14,               \* $1FE6 bit 14, on which the 68000 spins
  step,                \* where l3_job is
  sess,                \* sc_session, sc_pending, sc_saved
  zoom,                \* what RAMDP $0200-$09FF and the save buffer hold
  game                 \* how far the 68000 is with C6

jobRingVars == <<wr, rd, slots, bit14, step, sess, zoom, game>>
ringVars == <<wr, rd, slots, bit14>>

Index(i) == i % N

\* The jobs from rd to wr, as the ring tells them.
Queued == [i \in 1..((wr - rd) % N) |-> slots[Index(rd + i - 1)]]
QueuedJobs == {Queued[i] : i \in 1..Len(Queued)}

\* app_start and app_init: $1FE6 starts with bit 14 set and nothing queued (the boot
\* into the MegaWire screen, which queues a set-up here, is left out).
RingInit ==
  /\ wr = 0 /\ rd = 0 /\ slots = [i \in Slots |-> "job"] /\ bit14 = TRUE
  /\ step = "idle"
  /\ sess = [open |-> FALSE, pending |-> FALSE, saved |-> FALSE]
  /\ zoom = [ramdp |-> "game", save |-> "none"]
  /\ game = "start"
-----------------------------------------------------------------------------
\* disp_queue_full
Full(n) == (wr + n) % N = rd

\* slot(0), slot(1), job_queued and disp_job_commit
Push(js) ==
  /\ slots' = [i \in Slots |-> LET k == (i - wr) % N IN
                               IF k < Len(js) THEN js[k + 1] ELSE slots[i]]
  /\ wr' = Index(wr + Len(js))
  /\ bit14' = TRUE
  /\ UNCHANGED rd

MayPost == GameOrder => game = "plays"

\* C6 tests no queue_full.  Once the set-up has run another completes with no job;
\* one before that is left out.
PostC6 ==
  /\ game = "start"
  /\ Push(<<"C6">>) /\ game' = "waits"
  /\ UNCHANGED <<step, sess, zoom>>

\* The game's loop leaves on a clear bit 14.
GamePlays ==
  /\ game = "waits" /\ ~bit14
  /\ game' = "plays"
  /\ UNCHANGED <<ringVars, step, sess, zoom>>

\* 8C, DA, DF, E0: a full queue refuses the post.
PostJob ==
  /\ MayPost /\ ~Full(1)
  /\ Push(<<"job">>)
  /\ UNCHANGED <<step, sess, zoom, game>>

RoomForF4_One == ~Full(1)                        \* mutant: the second slot not tested
RoomForF4 == ~Full(1) /\ ~Full(2)

F4Sess == [sess EXCEPT !.open = FALSE, !.pending = FALSE]

\* F4: the decode and the scaling save, two jobs at once.
PostF4 ==
  /\ MayPost /\ RoomForF4
  /\ Push(<<"F4", "SAVE">>) /\ sess' = F4Sess
  /\ UNCHANGED <<step, zoom, game>>

\* F5: ignored outside a session and while one is queued.
PostF5 ==
  /\ MayPost /\ ~Full(1) /\ sess.open /\ ~sess.pending
  /\ Push(<<"RESCALE">>) /\ sess' = [sess EXCEPT !.pending = TRUE]
  /\ UNCHANGED <<step, zoom, game>>

B6Sess_Early == [sess EXCEPT !.open = FALSE]     \* mutant: closed before the queue is tested
B6Sess == IF Full(1) THEN sess ELSE [sess EXCEPT !.open = FALSE]

\* B6: refused by a full queue, ignored outside a session.
PostB6 ==
  /\ MayPost /\ sess.open
  /\ IF Full(1) THEN UNCHANGED ringVars ELSE Push(<<"RESTORE">>)
  /\ sess' = B6Sess
  /\ UNCHANGED <<step, zoom, game>>

Posts == PostC6 \/ GamePlays \/ PostJob \/ PostF4 \/ PostF5 \/ PostB6
-----------------------------------------------------------------------------
\* l3_job: j is the slot at rd, read through the pointer at each use.
Job == slots[rd]

Begin ==
  /\ step = "idle" /\ wr # rd
  /\ step' = "body"
  /\ UNCHANGED <<ringVars, sess, zoom, game>>

\* Unpacks and saves; F4's decode goes to the source, which RAMDP never sees.
RunPlain ==
  /\ step = "body" /\ Job \in {"job", "F4", "MW"}
  /\ step' = "end"
  /\ UNCHANGED <<ringVars, sess, zoom, game>>

\* C6's set-up: with MegaWire on, mw_init_irqoff takes a slot without a look at
\* the indices.
RunC6 ==
  /\ step = "body" /\ Job = "C6"
  /\ step' = "end"
  /\ \/ Push(<<"MW">>)
     \/ UNCHANGED ringVars
  /\ UNCHANGED <<sess, zoom, game>>

SaveTaken_Always == zoom.ramdp                   \* mutant: sc_saved not tested
SaveTaken == IF sess.saved THEN zoom.save ELSE zoom.ramdp

\* JOB_SCALE_SAVE: saved once, then the set-up, then the session opens.
RunSave ==
  /\ step = "body" /\ Job = "SAVE"
  /\ step' = "open"
  /\ zoom' = [zoom EXCEPT !.save = SaveTaken]
  /\ sess' = [sess EXCEPT !.saved = TRUE]
  /\ UNCHANGED <<ringVars, game>>

Open ==
  /\ step = "open"
  /\ step' = "end" /\ sess' = [sess EXCEPT !.open = TRUE]
  /\ UNCHANGED <<ringVars, zoom, game>>

\* JOB_RESCALE: only in a session; RAMDP gets the stamps, then pending := 0.
RunRescale ==
  /\ step = "body" /\ Job = "RESCALE"
  /\ step' = IF sess.open THEN "zoom" ELSE "end"
  /\ UNCHANGED <<ringVars, sess, zoom, game>>

CopyOut ==
  /\ step = "zoom"
  /\ step' = "unpend" /\ zoom' = [zoom EXCEPT !.ramdp = "stamps"]
  /\ UNCHANGED <<ringVars, sess, game>>

Unpend ==
  /\ step = "unpend"
  /\ step' = "end" /\ sess' = [sess EXCEPT !.pending = FALSE]
  /\ UNCHANGED <<ringVars, zoom, game>>

\* JOB_RESTORE: what was saved goes back, then the session closes.
RunRestore ==
  /\ step = "body" /\ Job = "RESTORE"
  /\ step' = "close"
  /\ IF sess.saved
     THEN /\ zoom' = [zoom EXCEPT !.ramdp = zoom.save]
          /\ sess' = [sess EXCEPT !.saved = FALSE]
     ELSE UNCHANGED <<zoom, sess>>
  /\ UNCHANGED <<ringVars, game>>

Close ==
  /\ step = "close"
  /\ step' = "end" /\ sess' = [sess EXCEPT !.open = FALSE]
  /\ UNCHANGED <<ringVars, zoom, game>>

Bit14After == wr # Index(rd + 1)

\* The section at the end of the job step.
End ==
  /\ step = "end"
  /\ step' = "idle" /\ rd' = Index(rd + 1) /\ bit14' = Bit14After
  /\ UNCHANGED <<wr, slots, sess, zoom, game>>

JobStep == \/ Begin \/ RunPlain \/ RunC6 \/ RunSave \/ Open \/ RunRescale
           \/ CopyOut \/ Unpend \/ RunRestore \/ Close \/ End

RingNext == Posts \/ JobStep
RingSpec == RingInit /\ [][RingNext]_jobRingVars
-----------------------------------------------------------------------------
RingTypeOK ==
  /\ wr \in Slots /\ rd \in Slots /\ slots \in [Slots -> Jobs] /\ bit14 \in BOOLEAN
  /\ step \in {"idle", "body", "open", "zoom", "unpend", "close", "end"}
  /\ sess \in [open : BOOLEAN, pending : BOOLEAN, saved : BOOLEAN]
  /\ zoom \in [ramdp : {"game", "stamps"}, save : {"none", "game", "stamps"}]
  /\ game \in {"start", "waits", "plays"}

\* zoom.c, jobs 8 to 10: whenever the game's page is under the stamps, the save
\* holds it, whatever F4, F5 and B6 come between the jobs' tests and stores.
PageSaved ==
  zoom.ramdp = "stamps" => sess.saved /\ zoom.save = "game"

\* B6 is ignored outside a session: with nothing queued, stamps in RAMDP mean a
\* session is open, so the game can always have its page back.
NeverStranded ==
  zoom.ramdp = "stamps" /\ wr = rd => sess.open

\* The ring, its indices and bit 14 move as the cart chip's queue: nothing lost,
\* overwritten, reordered or run twice, F4's two jobs in one step.  That what is
\* queued is run is Levels' to show.
Cart == INSTANCE CartJobs
          WITH Job <- Jobs, queue <- Queued, running <- step # "idle", pending <- bit14
ImplementsCart == Cart!CartInit /\ [][Cart!CartNext]_(Cart!cartVars)

=============================================================================
