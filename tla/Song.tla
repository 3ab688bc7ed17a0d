--------------------------------- MODULE Song ---------------------------------
(***************************************************************************)
(* The song engine (core/song): the sequencer that reads a module row by   *)
(* row, the Z80 messages it queues within a budget for each frame, the     *)
(* posts that start, fade and stop the music, the 8C job that starts a     *)
(* module, and the main-loop pass that shows $1FE6 bit 3 (music playing).  *)
(* The queue of items (EngineQueue) makes every item one step here; the    *)
(* job's two halves and the posts' arrivals interleave with them.          *)
(*                                                                         *)
(* Left out: pitches, pans and envelopes, the wave voices' registers, the  *)
(* effects' own counters (a tick's effects are any choice of messages),    *)
(* SFX, the tempo and the other D6 posts, 8E and 88.                       *)
(***************************************************************************)
EXTENDS Integers, Sequences, FiniteSets, SequencesExt

CONSTANTS
  Order,       \* voice_order: wave voices, then PSG 6..9, then FM 0..5
  Mods,        \* the modules by track: npos, rows, loop, speed and cells
  RowsAll,     \* what MOD_ROWS = 0 stands for (256)
  Stored,      \* the tracks the store decoded at C6
  Levels,      \* the levels that 8D / C9 fade to, with 0
  QBytes,      \* the Z80 queue's bytes ($80)
  MaxCost,     \* the cost a packet may hold ($98)
  FrameSkip,   \* NTSC's sixth frame skips the sequencer (6)
  Sliding,     \* the voices whose effects send messages
  Direct,      \* the <<voice, program>> of the D0 posts
  ItemRoom,    \* the engine queue's places
  Posts        \* posts in a run (bounds the run)

Voices == Range(Order)
Fm == Voices \cap 0..5
Psg == Voices \cap 6..9
Tracks == DOMAIN Mods
RowsOf(t) == IF Mods[t].rows = 0 THEN RowsAll ELSE Mods[t].rows

Commands == STRING \X Nat
Cells == [on : BOOLEAN, note : STRING, cmds : Seq(Commands)]

(* With MOD_ROWS = 0 a break and a row skip end inside the pattern: the    *)
(* code's look is at the rows a module names.                              *)
Inside(c, r) ==
  /\ c[1] = "FB" => c[2] < RowsAll
  /\ c[1] = "FC" => r + c[2] <= RowsAll
ASSUME SongAssumption ==
  /\ Order \in Seq(0..25) /\ IsInjective(Order)
  /\ Order # <<>> /\ Order[1] \in 10..25
  /\ Tracks \subseteq Nat \ {0} /\ Stored \subseteq Tracks
  /\ 0 \in Levels /\ Levels \subseteq Nat
  /\ {QBytes, MaxCost, FrameSkip, ItemRoom, Posts, RowsAll} \subseteq Nat
  /\ QBytes > 0 /\ RowsAll > 0 /\ FrameSkip > 0
  /\ Direct \subseteq (0..25) \X Nat
  /\ \A t \in Tracks :
       /\ {Mods[t].npos, Mods[t].rows, Mods[t].loop, Mods[t].speed} \subseteq Nat
       /\ Mods[t].loop < Mods[t].npos /\ Mods[t].speed > 0
       /\ \A o \in 1..Mods[t].npos, r \in 1..RowsOf(t), v \in Voices :
            LET row == Mods[t].cell[o][r][v] IN
            /\ row \in Cells
            /\ Mods[t].rows = 0 => \A k \in DOMAIN row.cmds : Inside(row.cmds[k], r)

VARIABLES
  song,   \* S, the sequencer's state
  z80,    \* G's queue: messages and bytes, stale head, cost, budget, frame
  voice,  \* each FM voice's program and the level last sent
  chip,   \* the FM programs the Z80 was sent
  items,  \* the engine queue
  jobs,   \* the queued 8C jobs; the head one runs
  job,    \* the head job's step: "queued", "decode", "item"
  pass,   \* the job tail's pass is posted
  bit3,   \* $1FE6 bit 3
  got,    \* history: the voices read in this row; the last row's
  late,   \* history: seq ticks since the row began, and a row off its time
  last,   \* history: the last of 8C, 8D and C9 posted
  postsLeft \* posts left

vars == <<song, z80, voice, chip, items, jobs, job, pass, bit3, got, late,
          last, postsLeft>>
None == 65535
NoJump == 65535
-----------------------------------------------------------------------------
(* The Z80 queue.  A message that does not fit is not queued.              *)
Tag(m) == <<m.k, m.v>>
LastTag(z) == IF z.q = <<>> THEN z.stale ELSE Tag(z.q[Len(z.q)])
Msg(k, v, n, x) == [k |-> k, v |-> v, n |-> n, x |-> x]
Put(z, m, cost) ==
  IF z.len + m.n >= QBytes THEN z
  ELSE [z EXCEPT !.q = Append(@, m), !.len = @ + m.n, !.cost = @ + cost]
(* Written over the last message, or below the queue when it is empty.     *)
Over(z, m) ==
  IF z.q = <<>> THEN [z EXCEPT !.below = TRUE]
  ELSE [z EXCEPT !.q[Len(z.q)] = m]

LevelMsg(z, v) ==
  IF LastTag(z) = <<"level", v>> THEN Over(z, Msg("level", v, 4, 0))
  ELSE Put(z, Msg("level", v, 4, 0), 22)
ToneMsg(z, v) ==
  IF LastTag(z) = <<"tone", v>> THEN Over(z, Msg("tone", v - 6, 4, 0))
  ELSE Put(z, Msg("tone", v - 6, 4, 0), 4)
TlMsg(z, v) == Put(z, Msg("tl", v, 4, 0), 5)
VolumeMsg(z) == Put(z, Msg("volume", 0, 5, 0), 0)
KeyOffMsg(z, v, hard) ==
  LET m == Msg(IF hard THEN "hard" ELSE "soft", v, 2, 0) IN
  IF z.len + 2 >= QBytes THEN z
  ELSE IF hard
       THEN IF LastTag(z) = <<"hard", v>> THEN Over(z, m) ELSE Put(z, m, 9)
       ELSE IF LastTag(z) \in {<<"soft", v>>, <<"hard", v>>} THEN z
            ELSE Put(z, m, 4)
NoteMsg(z, v) ==
  LET m == Msg("note", v, 4, 0) IN
  IF z.len + 4 >= QBytes THEN z
  ELSE IF LastTag(z) = <<"note", v>> THEN Over(z, m)
  ELSE IF LastTag(z) = <<"legato", v>>
       THEN [Over(z, m) EXCEPT !.cost = @ + 6]
       ELSE Put(z, m, 11)
LegatoMsg(z, v) ==
  LET m == Msg("legato", v, 4, 0) IN
  IF z.len + 4 >= QBytes THEN z
  ELSE IF LastTag(z) = <<"legato", v>> THEN Over(z, m) ELSE Put(z, m, 5)

(* A player is [z, voice]: the queue and the voices' records.  The loops   *)
(* over the voices are by number.                                          *)
FirstVoices(n) == [i \in 1..n |-> i - 1]
ProgramMsg(p, v, prog) ==
  LET z == Put(p.z, Msg("program", v, 3, prog), 45) IN
  IF z = p.z THEN p ELSE [z |-> z, voice |-> [p.voice EXCEPT ![v].prog = prog]]
LevelRefresh(p, v, level) ==
  IF v \in Fm /\ p.voice[v].sent # level /\ p.z.cost + 21 < p.z.budget
  THEN [z |-> LevelMsg(p.z, v), voice |-> [p.voice EXCEPT ![v].sent = level]]
  ELSE p
KeyOff(p, v, hard) ==
  IF v \in Fm THEN [p EXCEPT !.z = KeyOffMsg(@, v, hard)] ELSE p
NoteOn(p, v) ==
  IF v \in Fm THEN [p EXCEPT !.z = NoteMsg(@, v)]
  ELSE IF v \in Psg THEN [p EXCEPT !.z = ToneMsg(@, v)] ELSE p

FlushQueue(z) ==
  [z EXCEPT !.q = <<>>, !.len = 0, !.cost = 5, !.budget = MaxCost,
            !.stale = <<"", 0>>]
Told(c, m) == IF m.k = "program" THEN [c EXCEPT ![m.v] = m.x] ELSE c
Sent(q, c) == FoldLeft(Told, c, q)
Bytes(q) == FoldLeft(LAMBDA n, m : n + m.n, 0, q)
-----------------------------------------------------------------------------
(* The sequencer.                                                          *)
Cost(p, v, row) ==
  LET Add(n, c) ==
        IF c[1] = "0F" /\ p.voice[v].prog # c[2] THEN n + 45
        ELSE IF c[1] = "1A" THEN n + 5 ELSE n IN
  IF v \in Fm THEN 42 + FoldLeft(Add, 0, row.cmds)
  ELSE IF v \in Psg THEN 8 ELSE 0

(* The commands that move the song.                                        *)
Jumped(q, c) ==
  LET npos == Mods[q.mod].npos  rows == Mods[q.mod].rows  op == c[2] IN
  IF c[1] = "FB" /\ q.order + 1 < npos /\ (rows = 0 \/ op < rows)
  THEN [q EXCEPT !.jumpOrder = q.order + 1, !.jumpRow = op]
  ELSE IF c[1] = "FC" /\ (rows = 0 \/ q.row + op < rows)
  THEN [q EXCEPT !.jumpRow = q.row + op]
  ELSE IF c[1] = "FD"
  THEN [q EXCEPT !.jumpOrder = IF op < npos THEN op ELSE 0, !.jumpRow = 0]
  ELSE IF c[1] = "FE" THEN [q EXCEPT !.speed = op] ELSE q
Played(p, v, c) ==
  IF v \notin Fm THEN p
  ELSE IF c[1] = "0F" /\ p.voice[v].prog # c[2] THEN ProgramMsg(p, v, c[2])
  ELSE IF c[1] = "1A" THEN [p EXCEPT !.z = TlMsg(@, v)] ELSE p
PlayedAll(p, v, cmds) == FoldLeft(LAMBDA a, c : Played(a, v, c), p, cmds)
JumpedAll(q, cmds) == FoldLeft(Jumped, q, cmds)
RowParse(a, v, row) ==
  LET off == IF row.note \in {"hard", "soft"}
             THEN KeyOff(a.p, v, row.note = "hard") ELSE a.p
      lev == LevelRefresh(PlayedAll(off, v, row.cmds), v, a.s.level) IN
  [a EXCEPT !.s = JumpedAll(@, row.cmds),
            !.p = IF row.note = "on" THEN NoteOn(lev, v) ELSE lev]

Advance_NoEnd(q) ==
  LET m == Mods[q.mod] IN
  IF q.jumpOrder = NoJump /\ q.jumpRow = NoJump
  THEN IF q.row < RowsOf(q.mod) - 1 THEN [q EXCEPT !.row = @ + 1]
       ELSE IF q.order < m.npos THEN [q EXCEPT !.row = 0, !.order = @ + 1]
       ELSE IF q.loop THEN [q EXCEPT !.row = 0, !.order = m.loop]
       ELSE [q EXCEPT !.row = 0, !.playing = FALSE]
  ELSE [q EXCEPT !.order = IF q.jumpOrder = NoJump THEN @ ELSE q.jumpOrder,
                 !.row = IF q.jumpRow = NoJump THEN @ ELSE q.jumpRow,
                 !.jumpOrder = NoJump, !.jumpRow = NoJump]
Advance(q) ==
  LET m == Mods[q.mod] IN
  IF q.jumpOrder = NoJump /\ q.jumpRow = NoJump
  THEN IF q.row < RowsOf(q.mod) - 1 THEN [q EXCEPT !.row = @ + 1]
       ELSE IF q.order < m.npos - 1 THEN [q EXCEPT !.row = 0, !.order = @ + 1]
       ELSE IF q.loop THEN [q EXCEPT !.row = 0, !.order = m.loop]
       ELSE [q EXCEPT !.row = 0, !.playing = FALSE]
  ELSE [q EXCEPT !.order = IF q.jumpOrder = NoJump THEN @ ELSE q.jumpOrder,
                 !.row = IF q.jumpRow = NoJump THEN @ ELSE q.jumpRow,
                 !.jumpOrder = NoJump, !.jumpRow = NoJump]

(* One voice's cell, unless one before it did not fit in the budget: the   *)
(* row is then finished in the next tick, from the resume index on.        *)
ReadVoice(a, v) ==
  LET row == Mods[a.s.mod].cell[a.s.order + 1][a.s.row + 1][v]
      over == v < 10 /\ a.p.z.budget < a.p.z.cost + Cost(a.p, v, row) IN
  IF a.cut THEN a
  ELSE IF ~row.on
  THEN [a EXCEPT !.p = LevelRefresh(@, v, a.s.level), !.read = Append(@, v)]
  ELSE IF over THEN [a EXCEPT !.cut = TRUE]
  ELSE [RowParse(a, v, row) EXCEPT !.read = Append(@, v)]
ReadRow(q, p, from) ==
  FoldLeft(ReadVoice, [s |-> q, p |-> p, cut |-> FALSE, read |-> <<>>],
           SubSeq(Order, from + 1, Len(Order)))

(* The voices' effects: any of them may slide or strike again.             *)
Effect(p, v, kind) ==
  CASE kind = "none" -> p
    [] kind = "slide" -> [p EXCEPT !.z = IF v \in Fm THEN LegatoMsg(@, v)
                                         ELSE ToneMsg(@, v)]
    [] kind = "strike" -> NoteOn(KeyOff(p, v, TRUE), v)
Effects(p, e) ==
  FoldLeft(LAMBDA a, v : IF v \in (Fm \cup Psg) \cap DOMAIN e
                         THEN Effect(a, v, e[v]) ELSE a, p, FirstVoices(10))

Refreshed(p, level) ==
  FoldLeft(LAMBDA a, v : LevelRefresh(a, v, level), p, FirstVoices(6))

(* seq_tick, from [s, p, read, row]: read is what it parsed.               *)
Resumed_Fresh(q) == 0
Resumed(q) == IF q.resume \in 1..(Len(Order) - 1) THEN q.resume ELSE 0
SeqTick(q, p, e) ==
  LET from == Resumed(q)
      played == Effects(p, e)
      wait == from = 0 /\ q.tick < q.speed - 1
      ticked == [q EXCEPT !.tick = IF from # 0 \/ wait THEN @ + 1 ELSE 0]
      r == ReadRow(ticked, played, from)
      all == [r.s EXCEPT !.resume = IF r.cut THEN from + Len(r.read)
                                    ELSE Len(Order)] IN
  IF q.loading \/ q.waitFlush THEN [s |-> q, p |-> p, read |-> <<>>, row |-> 0]
  ELSE IF ~q.playing
  THEN [s |-> q, read |-> <<>>, row |-> 0,
        p |-> Refreshed(p, q.level)]
  ELSE IF wait THEN [s |-> ticked, p |-> played, read |-> <<>>, row |-> 1]
  ELSE [s |-> IF r.cut THEN all ELSE Advance(all), p |-> r.p,
        read |-> r.read, row |-> IF r.cut THEN 2 ELSE 3]

(* master_fade_tick: the level nears its target and a fade out ends.       *)
Toward(cur, tgt, step) ==
  IF step = 0 THEN tgt
  ELSE IF cur < tgt THEN Min({cur + step, tgt}) ELSE Max({cur - step, tgt})
Fade_Silent(q) ==
  LET level == Toward(q.level, q.target, q.step) IN
  [q EXCEPT !.level = level,
            !.stopAtZero = IF level = 0 /\ q.level = 0 THEN FALSE ELSE @]
Fade(q) ==
  LET level == Toward(q.level, q.target, q.step) IN
  IF level = 0 /\ q.stopAtZero
  THEN [q EXCEPT !.level = 0, !.stopAtZero = FALSE, !.playing = FALSE]
  ELSE [q EXCEPT !.level = level]

(* bgm_module_init, and the job's tail around it.                          *)
StartVoices_Kept(vo) == [v \in Fm |-> [vo[v] EXCEPT !.sent = None]]
StartVoices(vo) == [v \in Fm |-> [prog |-> None, sent |-> None]]
Started(q, t) ==
  [q EXCEPT !.mod = t, !.loading = FALSE, !.playing = TRUE, !.waitFlush = TRUE,
            !.tick = 0, !.order = 0, !.row = 0, !.jumpOrder = NoJump,
            !.jumpRow = NoJump, !.speed = Mods[t].speed,
            !.resume = Len(Order)]
StartQueue(z) ==
  FoldLeft(LAMBDA a, v : IF v \in Fm THEN KeyOffMsg(a, v, TRUE) ELSE a,
           [z EXCEPT !.q = <<>>, !.len = 0, !.stale = <<"", 0>>], FirstVoices(6))

(* The posts' bodies.                                                      *)
Body8C(q, c) ==
  [q EXCEPT !.playing = FALSE, !.loading = TRUE, !.track = c.x,
            !.level = q.target, !.stopAtZero = FALSE, !.loop = c.y = 1]
Body8D(q, c) ==
  LET now == c.x = 0 \/ q.level = 0 IN
  [q EXCEPT !.target = 0, !.step = c.x, !.stopAtZero = TRUE,
            !.level = IF now THEN 0 ELSE @, !.playing = @ /\ ~now]
BodyC9(q, c) == [q EXCEPT !.target = c.x, !.step = c.y]
BodyD0(p, c) ==
  NoteOn(IF c.x \in Fm THEN ProgramMsg(p, c.x, c.y) ELSE p, c.x)
-----------------------------------------------------------------------------
Init ==
  /\ song = [mod |-> 0, track |-> 0, playing |-> FALSE, loading |-> FALSE,
          waitFlush |-> FALSE, order |-> 0, row |-> 0, tick |-> 0,
          resume |-> 0, speed |-> 0, loop |-> FALSE, level |-> 0, target |-> 0,
          step |-> 0, stopAtZero |-> FALSE, jumpOrder |-> 0, jumpRow |-> 0]
  /\ z80 = [q |-> <<>>, len |-> 0, stale |-> <<"", 0>>, cost |-> 0,
            budget |-> 4095, frame |-> 0, below |-> FALSE]
  /\ voice = [v \in Fm |-> [prog |-> 0, sent |-> 0]]
  /\ chip = [v \in Fm |-> None]
  /\ items = <<>> /\ jobs = <<>> /\ job = "queued" /\ pass = FALSE
  /\ bit3 = FALSE /\ got = [now |-> <<>>, row |-> Order]
  /\ late = [n |-> 0, done |-> 0, bad |-> FALSE]
  /\ last = "none" /\ postsLeft = Posts

(* An arrival, after its gate; 8C's puts its job in the ring at once.      *)
Arrive(k, x, y) ==
  /\ Len(items) < ItemRoom
  /\ items' = Append(items, [k |-> k, x |-> x, y |-> y])
  /\ UNCHANGED <<song, z80, voice, chip, pass, bit3, got, late>>
Posted(k) == postsLeft > 0 /\ postsLeft' = postsLeft - 1 /\ last' = k
Post8C == \E t \in Tracks, loop \in {0, 1} :
  /\ Posted("8C") /\ Arrive("8C", t, loop)
  /\ jobs' = Append(jobs, t) /\ UNCHANGED job
Post8D == \E step \in Levels :
  /\ Posted(IF jobs = <<>> THEN "8D" ELSE "8D early")
  /\ Arrive("8D", step, 0) /\ UNCHANGED <<jobs, job>>
PostC9 == \E l \in Levels, step \in Levels :
  Posted("C9") /\ Arrive("C9", l, step) /\ UNCHANGED <<jobs, job>>
PostD0 == \E d \in Direct :
  /\ postsLeft > 0 /\ postsLeft' = postsLeft - 1 /\ Arrive("D0", d[1], d[2])
  /\ UNCHANGED <<jobs, job, last>>
Post94 ==
  /\ \A i \in DOMAIN items : items[i].k # "94"
  /\ Arrive("94", 0, 0) /\ UNCHANGED <<jobs, job, last, postsLeft>>

(* The item's pass, on the state it left: not behind a job or an item.     *)
ItemPass(q) == bit3' = IF jobs = <<>> /\ Len(items) = 1 THEN q.playing ELSE bit3
Take(k) ==
  /\ items # <<>> /\ items[1].k = k /\ items' = Tail(items)
  /\ UNCHANGED <<jobs, job, pass, last, postsLeft>>

RunState(k, after) ==
  /\ Take(k) /\ song' = after /\ ItemPass(song')
  /\ UNCHANGED <<z80, voice, chip, got, late>>
Run8C == RunState("8C", Body8C(song, items[1]))
Run8D == RunState("8D", Body8D(song, items[1]))
RunC9 == RunState("C9", BodyC9(song, items[1]))
RunD0 ==
  /\ Take("D0") /\ ItemPass(song)
  /\ LET p == BodyD0([z |-> z80, voice |-> voice], items[1]) IN
     z80' = p.z /\ voice' = p.voice
  /\ UNCHANGED <<song, chip, got, late>>
RunStart ==
  /\ Take("job") /\ song' = Started(song, items[1].x) /\ ItemPass(song')
  /\ z80' = StartQueue(z80) /\ voice' = StartVoices(voice)
  /\ got' = [now |-> <<>>, row |-> Order]
  /\ late' = [late EXCEPT !.n = 0, !.done = 0] /\ UNCHANGED chip

(* The history of a sequencer tick: begins, it read a row's first voice.   *)
Timed(row, begins) ==
  IF row = 0 THEN late
  ELSE [n |-> IF begins THEN 0 ELSE late.n + 1,
        done |-> IF begins THEN 0
                 ELSE IF row = 3 THEN late.n + 1 ELSE late.done,
        bad |-> late.bad
                  \/ (begins /\ late.n + 1 # Max({song.speed, late.done + 1}))]

(* The tick: the sequencer half (not in NTSC's sixth frame), then the      *)
(* flush: the packet out, the next frame's budget, the start's wait over.  *)
Run94 == \E e \in [Sliding -> {"none", "slide", "strike"}] :
  LET frame == (z80.frame + 1) % FrameSkip
      skip == frame = 0
      begins == Resumed(song) = 0 IN
  /\ Take("94")
  /\ (skip \/ ~song.playing \/ song.loading \/ song.waitFlush)
       => \A v \in Sliding : e[v] = "none"
  /\ \E z \in {VolumeMsg([z80 EXCEPT !.frame = frame])} :
     \E t \in {IF skip
               THEN [s |-> song, read |-> <<>>, row |-> 0,
                     p |-> [z |-> z, voice |-> voice]]
               ELSE SeqTick(song, [z |-> z, voice |-> voice], e)} :
       /\ song' = [(IF skip THEN song ELSE Fade(t.s)) EXCEPT !.waitFlush = FALSE]
       /\ voice' = t.p.voice
       /\ chip' = Sent(t.p.z.q, chip) /\ z80' = FlushQueue(t.p.z)
       /\ got' = CASE t.row = 0 -> got
                   [] t.row = 3 -> [now |-> <<>>, row |-> got.now \o t.read]
                   [] OTHER -> [got EXCEPT !.now = @ \o t.read]
       /\ late' = Timed(t.row, t.row >= 2 /\ begins)
  /\ ItemPass(song')

(* The 8C job at the thread: the cart chip's decode time, then the start   *)
(* as an item; a track that is not in the store ends it without one.       *)
JobStart ==
  /\ jobs # <<>> /\ job = "queued" /\ ~pass /\ job' = "decode"
  /\ UNCHANGED <<song, z80, voice, chip, items, jobs, pass, bit3, got, late, last,
                 postsLeft>>
JobItem ==
  /\ job = "decode" /\ jobs[1] \in Stored /\ Len(items) < ItemRoom
  /\ job' = "item"
  /\ items' = Append(items, [k |-> "job", x |-> jobs[1], y |-> 0])
  /\ UNCHANGED <<song, z80, voice, chip, jobs, pass, bit3, got, late, last, postsLeft>>
JobEnd_NoPass ==
  /\ \/ job = "decode" /\ jobs[1] \notin Stored
     \/ job = "item" /\ \A i \in DOMAIN items : items[i].k # "job"
  /\ jobs' = Tail(jobs) /\ job' = "queued" /\ pass' = FALSE
  /\ UNCHANGED <<song, z80, voice, chip, items, bit3, got, late, last, postsLeft>>
JobEnd ==
  /\ \/ job = "decode" /\ jobs[1] \notin Stored
     \/ job = "item" /\ \A i \in DOMAIN items : items[i].k # "job"
  /\ jobs' = Tail(jobs) /\ job' = "queued" /\ pass' = TRUE
  /\ UNCHANGED <<song, z80, voice, chip, items, bit3, got, late, last, postsLeft>>

(* The job tail's pass, and the one after a mixed block.                   *)
Pass ==
  /\ pass \/ (jobs = <<>> /\ bit3 # song.playing)
  /\ pass' = FALSE /\ bit3' = song.playing
  /\ UNCHANGED <<song, z80, voice, chip, items, jobs, job, got, late, last, postsLeft>>

Post == Post8C \/ Post8D \/ PostC9 \/ PostD0 \/ Post94
Run == Run8C \/ Run8D \/ RunC9 \/ RunD0 \/ RunStart \/ Run94
Job == JobStart \/ JobItem \/ JobEnd
Next == Post \/ Run \/ Job \/ Pass
Spec == Init /\ [][Next]_vars
(* The engine runs a waiting item, the game ticks every frame, the thread  *)
(* comes round.                                                            *)
Served == items # <<>> /\ items' = Tail(items)
FairSpec ==
  /\ Spec /\ WF_items(Served) /\ WF_vars(Post94)
  /\ SF_vars(Job) /\ WF_vars(Pass)
-----------------------------------------------------------------------------
(* The position stays inside the module and the queue inside its bytes; no *)
(* message is written over bytes that are not the last message's.          *)
TypeOK ==
  /\ song.mod # 0 => song.order < Mods[song.mod].npos /\ song.row < RowsOf(song.mod)
  /\ Bytes(z80.q) < QBytes /\ ~z80.below
  /\ song.resume \in 0..Len(Order) /\ z80.cost >= 0 /\ song.level \in Nat
  /\ Len(items) <= ItemRoom /\ job \in {"queued", "decode", "item"}

(* A row that the budget cuts short is finished where it stopped: every    *)
(* voice's cell is read once and in order, and the next row begins on its  *)
(* time, or right after a row that took longer.                            *)
RowsWhole ==
  /\ IsPrefix(got.now, Order) /\ got.row = Order
  /\ ~late.bad

(* A program change is left out when the voice has the program: the engine *)
(* never believes that the Z80 has a program it was not sent.              *)
ProgramSent == \A v \in Fm :
  voice[v].prog \in {0, None, Sent(z80.q, chip)[v]}

(* $1FE6 bit 3 is the music's state whenever the engine is at rest.        *)
MusicShown == jobs = <<>> /\ items = <<>> /\ ~pass => bit3 = song.playing

(* A stop posted last, with no module start outstanding, ends the music    *)
(* for good.  (Posted before a start it can be spent by a tick in between: *)
(* the module then plays on, at level 0.)                                  *)
StopHolds == (postsLeft = 0 /\ last = "8D") ~> [](~song.playing)
=============================================================================
