# A verification project for paprium-pocket's firmware

TLA+ modules, TLC configurations and TLAPS proofs about the firmware of this repository (`firmware/`, the FW_S5 build)
and the pieces of RTL it shares an order of events with. The firmware replaces the cart chip of Paprium. Its
68000-visible behaviour is that of the original program, a single main loop with interrupt handlers; its own structure is
different: one RISC-V core on which five levels preempt one another, a job queue, an ordered engine queue, a timer wheel, a
thread with the MegaWire task and the CPU MATE brain, and a synth in logic that mixes blocks only when the firmware says it
may. What can go wrong there is mostly the order in which things happen, and that is what is modelled.

## The system

| component | state it keeps | operations | talks to | module |
|---|---|---|---|---|
| levels (`core/sched/sched.c`) | `msip`, nested L2b frames, `l2c_active`, `l2c_missed`, blocks and posts seen and covered, `pass_tail` | `l1_mei`, `l2b_msi`, `sched_l2c_once`, `wh_urgent`, `sched_thread_once` | all below | `Levels` |
| job queue (`core/dispatch/jobs.c`) | a ring of 16 jobs, `$1FE6` bit 14, `song_pass_hold` | posted in L1, run by `l3_job` in L2c | engine queue, saves, zoom | `CartJobs`, `JobRing` |
| dispatcher, status words (`core/dispatch`) | the mailboxes, `$1FE6`, flags | one handler for each command byte, with its gates | both queues, MegaWire | `Dispatcher` |
| engine queue (`core/song/song_oeq.c`) | items, held posts, `seen`, `done` | `song_arrive`, `song_run_one`, `take_held`, `song_l1_end` | the synth's DONE, BUSY | `EngineQueue` |
| song engine (`core/song`) | the sequencer, voices, the Z80 queue and packet | ticks, posts, the module start | engine queue, job 8C | `Song` |
| synth scheduler (RTL) | the TIM6 queue, each instant's NEED, RUN | an instant is queued, serviced, ends | CAUSE.BLK | `EngineQueue` |
| timer wheel (`core/sched/wheel.c`) | armed slots, deadlines, `w_low`, `w_in_l2a`, TCMP | `wheel_arm`, `wheel_disarm`, `l2a_mti`, `wheel_low_run` | urgent slot, watchdog, debug save | `Wheel` |
| scaling session, zoom | `sc_session`, `sc_pending`, `sc_saved`, the stamps | F4, F5, B6 and their jobs | job queue | `JobRing` |
| saves (`interim/s1/bodies_s1.c`) | the 8 KB battery save: two places for each id | `save_boot`, `eep_import`, `job_eep_read`, `job_eep_write` | job queue, resets | `Saves` |
| sprites (`core/sprite`) | ids, blocks, their index, three lists, the frame's loads | AE, AD, AF, EC, the DMA list | the decoder, the game's VBlank | `Sprites` |
| MegaWire (`core/mw`, `sched.c`) | ticks due, the task's state, the packet, the result, the A858 screen | one step a thread pass; A6, A9, AA, E7, A858 | sprite frames, job queue | `MegaWire` |
| CPU MATE call (`buddy/s1_glue.c`, `s1_trap.S`) | pending call, abort request, restore position | the call in the thread, aborted from L1 or L2a | the link (`paprium_mcd_link.sv`) | `BrainCall` |
| boot (`board/pocket/boot`) | the image in CRAM, CACHE, the overlay | check, unpack, header, SFX bank, curve, release of the 68000 | the Pocket's cache file | `Boot` |

The hard behaviours are interleaving (L1 can come between any two instructions of a lower level), stale reads (a count, flag or
answer taken before an item, a step or a call and used after it), ordering across queues, wrapping 16-bit numbers and a
wrapping 32-bit clock, full queues, budgets that cut work in the middle, and resets and power cuts in the middle of a write.
`PROJECT.json` lists each hazard at its line with the property that would catch it, or the reason why none does.

## The modules and their properties

An action is one handler, or one step of it where another actor can come in between; a section with interrupts off is one
step. Definitions that end in `_Word` (`Bit14After_Early`, `Target_Spare`) are mutants: a plausible bug, in several cases one
the code itself plants under `SCHED_BUG`, `SONG_BUG` or `DISP_BUG`. No specification uses them; with one put in its original's
place TLC finds the property listed beside it violated.

**`CartJobs`** is the abstract specification: the job queue of the original chip's single main loop. Post (one job, or F4's
two), start, finish; bit 14 is set at app init and by each post and becomes "not empty" at each finish; what is queued is
started and finishes.

**`Levels`**: `pc[f]` is the place of the f-th nested `l2b_msi`, one label for each access to shared state; a level steps only
while no higher one runs. L1's entry is split into start, posts, blocks and end. `Clear`, `Look`, `Count` ... `Exit` follow
`l2b_msi` line by line; `JLook` to `TailPass` are `l3_job`, `UrgentFinish` is `wh_urgent`, `Instant` the synth ending an instant.
`stale` remembers which kinds of work happened since the last main-loop pass. *When the CPU rests nothing is left
(`NoLostWakeup`), the last item's and job's pass was run (`PassCovers`), everything queued is served (`AllServed`), and the whole
is a `CartJobs` (`ImplementsCart`: `queue` is the job queue, `running` is "some frame is inside the job").*

**`JobRing`** is the same queue from below: the ring with masked indices, filled by C6, the plain jobs, F4, F5, B6 and
`mw_init_irqoff`, each with its own test of room, and emptied by `l3_job`; L1 can come between any two steps of a job. `sess` holds the
zoom's flags, `zoom` what lies in RAMDP `$0200-$09FF` and in the save. `GameOrder` is what the game does (`jobs.c:50-53`): C6 first, and
a wait for bit 14. *The game's page is saved before it is overwritten (`PageSaved`), stamps never outlive the session
(`NeverStranded`), and the ring's steps are `CartJobs`' (`ImplementsCart`).*

**`EngineQueue`** is `song_oeq.c` with L1's choice between two mailboxes and the synth's TIM6 queue. Arrivals are counted without
bound in the ghost state; the code sees them modulo `NumMod`. *DONE never passes work still to do (`DoneSafe`), arrivals run in order
(`RunsInOrder`), no block is mixed inside an item (`BlockWhole`), posts finish and instants are released without their
timeout (`PostsFinished`, `InstantsServed`).*

**`Dispatcher`**: both mailboxes with every command's gates and refusals, held posts, what each command queues, and the levels below
reading, changing and storing the same word. *A mailbox that reads 0 has its own verdict in its refusal bit (`VerdictShown`);
bits 14 and 8 tell the truth about the jobs (`JobsShown`).* The game posts only to a mailbox at 0 and C6 only with no job
queued (`jobs.c:50-53`).

**`Song`**: the row reader with its budget and resume, the module commands, the voices' programs, levels and notes, the Z80 queue with
its coalescing and its packet, fades, and the module start as post, job and item. *A row cut by the budget is finished where it
stopped and the next one starts on time (`RowsWhole`); the engine never believes a program sent that was dropped
(`ProgramSent`); bit 3 is the music's state at rest (`MusicShown`); a stop holds (`StopHolds`).*

**`Wheel`**: TIMER counts modulo `W` and may advance between any two steps, never more than `MaxLate` past work that is due. *Outside
the looks MTI is raised exactly when an armed deadline has come (`CompareExact`), an overdue tick always raises it
(`OverdueRaises`), the watchdog's period never stops (`WdogRuns`); proved besides: `UrgentSlotRight`, `PeriodicOnce`.*

**`Saves`**: a place holds nothing, bytes that are no copy (0.2.x's), a place written in part, or a sealed copy. `Reset` may come
between the first and the last byte of any write (`ResetIn` says where). *A read gives the last whole write (`ReadBack`) and only
an id's own write job changes its valid copy (`CopyKept`).* Left out: a half-written place that passes its one-byte XOR by
chance (1 in 256), and the last eight bytes of a 0.2.x slot, which the trailer takes.

**`Sprites`**: AE ages the ids, AD finds or claims a pose's blocks, AF lists the claimed blocks to the decoder, the VBlank moves the
decoded tiles by the claims' DMA list and shows the table. *The sparse index is the table of the original
(`IndexIsTable`), what is on the screen has its own tiles (`TilesRight`), a pose the pre-load finds complete is drawn with all its pieces (`WholeShown`), the loads stay
in their cap (`TypeOK`).*

**`MegaWire`**: with nothing plugged in. `Gate` is the thread's look at ticks, the A858 screen, mailbox B and the sprite frame
(`sched.c`); `Task` is one step of the task and its stores; posts and jobs come in between. *A result shown has its word and
its bit (`ResultWhole`), no step starts inside a young sprite frame (`StepOutsideFrame`), no tick is held for ever
(`TicksRun`), the screen comes up and lets the 68000 go (`ScreenShown`).*

**`BrainCall`**: the link's sticky flags, BUSY and words; the thread's `l3_brain`, `run_call`, `publish` and `idle_work`, the wrapper's
places, levels taken above them and their exits; the brain's fault. The word is the number of the post it was computed for.
*The word behind a dropped BUSY answers the update the game waits for, with Word RAM and AI block set up since the last
restart (`AnswerMatches`); an abort lands with no level above the call (`CutsNoLevel`); BUSY drops (`AnsweredUnless`, and `Answered`,
which fails).* The game sends no update while BUSY is up or the sub-CPU is held (`docs/SCUM.md:516-518`).

**`Boot`**: the stub, the overlay's stack guard, map, check, unpack, header, SFX bank, curve and CACHE, and crt0; resets between any two
steps, power cuts, one lost store (of any of these), damaged, short and foreign files, and the Pocket's read-back at Quit. `deep` is a
build whose stub leaves the overlay too little stack: it returns at once. A ROM in `NoSfx` has SFX bounds that `sfx_copy` refuses, one
in `Unread` a stream that `rom_map` refuses. *VALID stands only over a whole image of this ROM, with the SFX copy and the curve
finished (`CacheSound`); the 68000 does not run before those two are finished, whatever of the image failed, unless the
stack guard refused (`GameHasSound`); the core's own good file is used (`OwnFileKept`); the image is still while VALID stands
(`ImageHeld`).* "Finished" is what the code ensures: a refused SFX bank is not there, and one lost store tears bank or curve unseen.

How they compose: `Levels` says an item, a job and a pass are run; `JobRing`, `Saves` and `Song` say what a job does, and take
from it that a job is entered once and in order; `EngineQueue` says an item runs whole and in order, which is why an item is one step in
`Song`; `Dispatcher` says what each post queues. `Levels` and `JobRing` both implement `CartJobs`.

## The runs

`MC*` are the modules TLC runs; each `.cfg` holds its bounds.

| run | properties | bounds |
|---|---|---|
| `levels` | `NoLostWakeup` `PassCovers` `AllServed` `ImplementsCart` | 2 items, 2 jobs, 3 frames, 2 posts of any kind, 1 instant |
| `job_ring` | `PageSaved` `NeverStranded` `ImplementsCart` | 8 slots, the game's order |
| `engine_queue` | `TypeOK` `DoneSafe` `RunsInOrder` `BlockWhole` `PostsFinished` `InstantsServed` | 2 items, 3 posts, 2 instants, 1 job's item, numbers mod 16 from 14 |
| `wheel` | `CompareExact` `OverdueRaises` `WdogRuns` | clock mod 16, period 4, 2 ticks, 3 late |
| `saves` | `ReadBack` `CopyKept` | 3 ids, 2 payloads, 5 jobs, 2 resets, sequences to 4 |
| `dispatcher` | `VerdictShown` `JobsShown` | 3 commands on A, 5 on B, 2 jobs, 1 item |
| `song` | `TypeOK` `RowsWhole` `ProgramSent` `MusicShown` `StopHolds` | 4 voices, 2 modules of 2 positions, 28 bytes, 3 posts |
| `sprites` | `SpritesTypeOK` `IndexIsTable` `TilesRight` `WholeShown` | 4 ids, 5 blocks, 2 objects, 2 loads a frame, 4 restarts |
| `mega_wire` | `ResultWhole` `StepOutsideFrame` `TicksRun` `ScreenShown` | 2 packets, 2 posts, 1 tick owed, waits of 1 |
| `brain_call` | `AnswerMatches` `CutsNoLevel` `AnsweredUnless` | 2 updates, 2 writes, 3 levels above, 2 slices, 1 lost ARM, a fault |
| `brain_call_left` | `Answered` (violated: the finding) | 2 updates, 2 writes, L1 above |
| `boot` | `CacheSound` `GameHasSound` `OwnFileKept` `ImageHeld` | 2 blocks, 5 ROMs (a stream in 3, one of them broken; 2 without SFX bounds), 3 power-ons, 3 resets, 1 lost store, both builds |

Why the bounds are enough. Two posts of six kinds give every pair of item and job, a full queue, and a job that waits while the
queue is full; three frames let one nest on a frame that has itself nested (`MaxDepth` never blocks one, `Room`). Three posts on
two mailboxes make both held back at once, and First = 14 makes the numbers wrap. A clock of 16 with a period of 4 wraps every
fourth period, while lateness up to 3 keeps distances under half. Four sequence numbers make five writes reach the top. A ring
of 8 lets F4's two slots fit, half fit and not fit, and two whole sessions be queued at once; its VIEW leaves out what
emptied slots still hold, which nobody reads. 28 bytes of Z80 queue are passed by one row of the module, so rows are cut and
messages dropped. Two posts to the MegaWire are a packet and what ends or replaces it. Two updates and two
writes are a call and the next one with a restart and its release anywhere in them, over two slices of the Word RAM; the safety
of the call is proved for any number. Three power-ons are: write the file, damage or swap it, load it.

Deadlock is checked in `levels`, `job_ring`, `engine_queue`, `wheel`, `saves`, `song` and `sprites`. It is off where the bounded
environment may really stop: after A858 the game posts nothing, a halted brain stays halted, a core may stay switched off, and the
dispatcher's fatal halt never returns.

### The finding

*An abort request left over refuses the next call (`brain_call_left`).* `brain_poll` (`s1_glue.c:348`) asks for an abort whenever
`brain_active` is set, and the thread sets that before `l3_brain` looks at the link. When the call is then deferred or
ignored, or is already over, `buddy_abort_req` stays 1. The next update's SEND is cleared, its call refused because of it
(`s1_glue.c:295`), nothing is published and BUSY stays up. The comment at `s1_glue.c:28` says "a send that could not run when it came
is posted again here once it can"; `docs/SCUM.md:553` reports "no command from the game left unanswered" of a simulation,
which did not meet the case. `AnsweredUnless` shows this and a fault of the brain to be the only ways out.

### Lapses

What the code does and a property therefore leaves out. None is a run: each rests on an order or a fault that the game, as far as
the docs say, does not produce, or repairs itself at the next event.

- *Levels.* A nested L2b can run L2c: MSI opens (`sched.c:498`) before `l2c_active` is set (`:426`), while
  `firmware/tools/stack_s1.json:295` counts on the nested one skipping it. A plain post served between an item's own pass and the end of
  `song_run_one` gets no pass of its own (`sched.c:229`). A block counted after the urgent finish emptied the queue is
  marked covered by an item that did not run (`sched.c:448-461`). The last two leave bit 3 and `$1B00` old until the next
  event; `PassCovers` speaks of items and jobs only.
- *Engine queue.* "A block between two arrivals sees the older one's writes only" (`sched.c:178`) fails when a plain post, an instant
  and a newer audio post come before one entry of L1 ends: DONE is not written while an item waits (`song_oeq.c:187`). An
  item with no arrival holds no block off (`song_oeq.c:37`), which the code accepts and counts.
- *Job ring.* `f_c6` (`disp.c:271`) and `mw_init_irqoff` take a slot without a look, against `jobs.c:12-13`; in a ring with one free slot
  the queue would look empty. `GameOrder` never gets there.
- *Saves.* A reset inside the one-time import (`bodies_s1.c:790-799`) ends it: once one id is sealed the rest is never imported, and
  half-written bytes are sealed again. `ReadsBack` assumes `NoCutImport`, and the run's `ResetIn` leaves it out. A first write cut by
  a reset (`:816`) is taken for 0.2.x's bytes. The write job takes the oldest valid copy, so an id's second place is never
  written from a blank save (`:753`): "two copies of each" is the layout, not a fall-back. The save jobs' scratch is zoom's (`:739`).
- *Song.* A stop and a module start posted together cross: the zero that stops the music is spent by a tick before the start
  (`song_sfx.c:36`); `StopHolds` speaks of a stop with no start outstanding. PSG tone messages never coalesce (`song_z80.c:58` against `:88`). The packet's terminators can be one past
  `0x80` (`:270`). `fm_level_refresh` marks a level sent before a possible drop (`:105`). A row that can never fit is never
  finished. With `MOD_ROWS = 0` an FC can pass row 256 (excluded by `SongAssumption`). Of two 8Cs the first module starts
  with the second's track. An 8C of a missing module leaves `loading` at 1.
- *MegaWire.* `mw.h:79` has MW_HOME set when the record was read; `jobs.c:232-246` sets it when no good copy was found. An E7 accepted
  between the task's parse and its clearing of MW_E7_PEND (`mw_task.c:333`) goes with the old one. An init after A858 would
  clear MW_SCREEN (`mw_task.c:305`).
- *BrainCall.* After a fault the SEND is cleared already, so `option_d(0)` waits for the next update. A restart between `idle_work`'s look
  at LSTAT and its LCLR (`s1_glue.c:407-456`) loses its flag with the older one's, and the Word RAM is not set up again (`missed`).
  An update sent during a call, possible when BUSY was not up, can come between the second look and the ARM and is given
  the older word; `AnswerMatches` leaves out every update sent during a call (`loose`).
- *Sprites.* EC's flush is inclusive (`spr_cache.c:65`), as in the original.
- *Boot.* The reader of VALID and the key is `brd_bank_ok` (`board/pocket/board_impl.h:134`), at C6; `CacheSound` is what it relies on.
  `sfx_copy` refuses bad bounds in silence (`c4b_ovl.c:397-402`): VALID is set all the same and a warm boot finds no SFX bank, although
  `board/pocket/README.md:71` has every non-warm boot copy it. The stack guard (`:445-449`, "never") lets the 68000 go with neither
  SFX bank nor curve. The stores of both are never read back, so a lost one stays until the next boot that is not warm.
  `SfxCopied`, `CurveWritten` and `GameHasSound` name these cases.

## Fairness

- `Levels`: weak fairness of the running frame, of L1's steps, of taking MEI while CAUSE is set and MSI while pending and open: the CPU
  executes and takes level-sensitive lines. Nothing of the 68000 or the synth.
- `EngineQueue`: the same for L1, the items and the urgent finish; the synth services a head that is ready or whose queue is full and
  ends a block. TIMEOUT is not assumed, so `InstantsServed` says DONE alone releases every instant.
- `Wheel`: TIMER counts, a level steps while nothing above it does; strong for the thread and the waiting tick's item, which higher
  levels interrupt again and again but do not starve.
- `Song`: the engine runs a waiting item and the game posts 94 every frame; the pass is made; strong for the job, which the
  items interrupt.
- `MegaWire`: weak for the thread, the init, the tick and the clock; strong for the screen (it waits between ticks), for opening
  the interrupts and for the read job (L1 and L2c come in between), and for the A6 the game posts when it sees bit 5.
  `ScreenShown` besides supposes that the thread keeps catching up with the ticks (102 ms apart).
- `BrainCall`: weak for the link's steps and strong for the levels' exits, for `Send` and for the thread's steps, which levels above
  interrupt.
- `JobRing`, `Saves`, `Dispatcher`, `Sprites` and `Boot` state no liveness.

## The proofs

For every value of the constants that the module's named assumption allows. Each argument is an inductive invariant with one lemma
for each action or conjunct, closed by PTL.

| module | theorems | inductive invariant |
|---|---|---|
| `LevelsProofs` | `TypeCorrect`, `NoWakeupIsLost`, `OnePassAtATime`, `Bit14Holds`, `UrgentIsRight`, `PassIsNotLeftOut`, `LevelsImplementCart` | `IInv`: `Shape` (where each frame is), `Work`, `Armed`, `Bit14Tracks`, and the covers: whenever work exists, a raise is pending, L1 will raise, or a frame still looks; for the passes `Held` (a pass is held back only inside a job) and `CoverStale` (what an item or a job left stale has a pass still to come) |
| `QueueProofs` (ring) | `RingTypes`, `PageIsSaved`, `PageComesBack`, `RingIsCart` | `RingInv`: the ring's types, `ZoomInv` (what was tested before each of the jobs' steps still holds), `SetUp` (C6's job is queued alone), `WayBack` (a session that F4 or B6 closed has its job still queued) |
| `QueueProofs` (engine queue) | `TypeCorrect`, `DoneIsSafe`, `InArrivalOrder`, `BlocksAreWhole` | `Counted` (every number is an arrival's, modulo the width), `Shape`, `Mails`, `Ordered` (mailboxes, queue and held posts by arrival), `Owed` (which arrivals are still to run), `Blocks` |
| `CommandProofs` (boot) | `BootTyped`, `CacheIsSound`, `SoundForTheGame`, `CutUnpack`, `FileIsUsed`, `ImageIsHeld` | `BootInv`: `Where`, `Sound` (what each step has put in CRAM; after a lost store, that one was counted), `Cut` (the header's magic in an unpack), `Card` (what the flush has read) |
| `CommandProofs` (dispatcher) | `TypeCorrect`, `VerdictIsShown`, `JobsAreShown` | `Types`, `Mail` (a post is in one place), `Word` (the bits and what an interrupted `st_set` holds), `Work`, `Room` (why C6, which no gate counts, finds a slot) |
| `MediaProofs` (sprites) | `SpritesTyped`, `IndexIsRight`, `ShownIsAsked`, `PoseIsWhole` | `SpriteInv`: `Typed`, `Ruled` (table, lists, budget), `Phased` (what the DMA list will have made of VRAM by the VBlank, and that no id in the frame's table is taken again) |
| `MediaProofs` (song) | `SongTyped`, `RowsAreWhole`, `ProgramIsSent`, `MusicIsShown` | `Playable` (where the next row, a jump and a resume can be), `RowSoFar` (the cells read are the voices before the resume index), `OnTime` (the sequencer's tick is the count since the row began, and no row is owed), `Programs` (a voice's program is what the Z80 has once the waiting messages are out), `Queued` (items and jobs) |
| `SavesProofs` | `TypeCorrect`, `CopyIsKept`, `ReadsBack` | `Second` (the second place stays blank), `Way` (what is under way), `Old` and `Held` (whose bytes a place has) |
| `MegaWireProofs` | `TypeCorrect`, `ResultIsWhole`, `StepsOutsideFrame` | `Gates` (looks and ages), `Flags` (which stores were made), `Where`, `Tasks` |
| `BrainCallProofs` | `TypeCorrect`, `AnswerIsItsOwn`, `AbortCutsNoLevel` | `Glue` (what the pending words know of a restart), `Call` (what the call knows at each place), `Arms`; a restart between two looks is `Gone`: the update's timer is stopped |
| `WheelProofs` | `TypeCorrect`, `UrgentSlotIsRight`, `PeriodicSlotsKept`, `CompareIsExact`, `OverdueTickRaises` | `WheelInv`: `Places`, `Urgent` (in the finish's call L1's `s5_urgent_arm` changes nothing; an item only keeps slot and `urg` linked, and its end makes both follow the queue); `ExactInv` adds `Programmed` (outside `l2a_mti` the compare is the earliest armed deadline) and `Close` (no deadline that is owed is half a turn away) |

Why strengthening is needed: `NoLostWakeup` speaks of a CPU at rest, and what makes it true is that each step before leaves a
witness that someone will look. `PageSaved` fails after one step from a state in which `CopyOut` is about to run
unsaved. `CacheSound` needs what CRAM holds at each place of the unpack. `AnswerMatches` needs that an ARM still crossing stands
for the right post. `TypeOK` of the dispatcher needs `Room`, because at most one A post can queue a job before a C6 that
was posted to an empty queue. `DoneSafe` compares wrapped numbers; it holds because the arrivals they stand for are ordered and
fewer than half the width lie between the oldest to run and the newest. `TilesRight` speaks of the screen, which changes
only at the VBlank: until then `Phased` carries what the copies still to be made will leave.

What is assumed. `PageComesBack` and `RingIsCart` have the hypothesis `GameOrder`, the constant that says the game posts C6 first
and waits for it (`jobs.c:50-53`): C6 looks for no room, and `RingIsCart` fails without it. `ReadsBack` has `NoCutImport`.
`WheelAssumption` asks for an even width: with an odd one the distance `Period + MaxLate` can be exactly `W \div 2`, which the
signed comparison of `wheel.c` takes for the past. The proof attempt found this; TIMER's 2^32 is even. `SongAssumption` says what
the sequencer takes from the module's file without a look: an order list and a loop position in it, at least one row, and, where
`MOD_ROWS` is 0 and the code compares nothing, FB and FC commands that stay inside the 256 rows. Its voice order starts with a wave
voice (`song_seq.c:18`), which no budget cuts: a row therefore never stops at index 0, the value that also means "nothing to
resume". Every other assumption is the type of a constant.

Folds. A pose is drawn, a list of slots built, a row of the song read and a packet sent by a `FoldLeft` of the community modules,
whose recursion is a `CHOOSE` of a function on sets of positions. `FoldExists` shows that such a function exists for every step,
`DrawSteps`, `LoadSteps`, `ListSteps`, `SentSteps` and `ReadSteps` that the model's folds are their steps in order, the `Stays`
lemmas that a fold stays where each of its steps does, and `UpTo` is induction along the positions, from the well-foundedness of `<`
on `Nat` (`NatLessThanWellFounded`, `WFMin`): stated with sets, because the provers cannot instantiate the library's induction
rules. For the same reason the list of slots is a fold and not a `SelectSeq`, which the prover leaves opaque.

Only model-checked: every liveness property (`AllServed`, `PostsFinished`, `InstantsServed`, `WdogRuns`, `AnsweredUnless`, `TicksRun`,
`ScreenShown`, `StopHolds` and the fairness part of `Levels`' `ImplementsCart`), which is outside the prover. Every safety property
that a passing run checks is the property of a theorem.

## Not modelled

- The FW_S5 = 0 images and the earlier engines (`legacy/`, `interim/s1/audio_s1.c`, the 0.2.6 path of `zz_buddy.c`): not built into the
  current image.
- Decoders (`unpack81.c`, `wavpack`), constant tables, and the vendored emulator: pure functions, compared with the original byte for
  byte by the repository's tests.
- In `Dispatcher`: the refusal before the app is ready, refusal codes (a debug trace), register sequences, the DIAG fold, the fatal
  halt's poll. In `Song`: pitches, pans, envelopes, wave registers, effect counters, the SFX players, tempo and swing, 8E and 88.
  In `Sprites`: AF's layout above 80 entries, the clip, attributes, the 50 Hz skip, B1, F2, C6's count, `$1F1A`, lag frames, EC inside
  a frame. In `MegaWire`: a plugged-in module's paths, the driver's probe, packet bytes, drawing. In `BrainCall`: what the
  words say, the counted times. In `Boot`: the bar, the record, the interface checks of crt0, a Quit's sleep and wake.
- `s3_sram.c` (one pass with no concurrency of its own), the debug save's record, the watchdog's counters and heartbeat.
- The RTL below what the firmware sees of it: the synth's timebase, CONFIG's dating (`paprium_synth_sched.sv:218`), CRAM's arbiter, the
  Pocket shell.

`PROJECT.json` gives the status and the reason for each component.
