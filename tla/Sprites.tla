------------------------------- MODULE Sprites -------------------------------
(***************************************************************************)
(* The sprite engine (core/sprite): the cache of VRAM slots ("ids") that   *)
(* hold graphics blocks.  A frame is AE (every id ages), one AD for each   *)
(* object (its pose's blocks are found or claimed and its entries written  *)
(* to the sprite table), then AF (the claimed blocks are listed to the     *)
(* decoder).  The game's VBlank then moves the decoded blocks to the ids   *)
(* by the DMA list the claims wrote, and shows the table.  An id used in   *)
(* this frame has the countdown Used ($20), one used in the last frame     *)
(* Used - 1, a free one 0.                                                 *)
(*                                                                         *)
(* Left out: where a piece stands and how it looks, the clip, the 50 Hz    *)
(* frame skip, and AF's table layout above 80 entries.                     *)
(***************************************************************************)
EXTENDS Integers, Sequences, FiniteSets, SequencesExt

CONSTANTS
  SlotsMax,   \* SPR_SLOTS_MAX: the ids are 1..SlotsMax
  Used,       \* the countdown of an id used this frame ($20)
  LoadCap,    \* SPR_LOAD_CAP
  Budget,     \* $1F12, in loads
  Whole,      \* $1F14, in loads
  Blocks,     \* block numbers, from 1
  Related,    \* the related block of each block
  Frames,     \* animation frames, from 1
  Pose,       \* the blocks of each frame's pieces, in order
  NextOf,     \* the frame after each frame; 0 = the terminal end
  First,      \* the first frame of each anim
  Objects,    \* the objects the game posts in every frame
  Restarts    \* restarts, queued anims and ECs (bounds the run)

ASSUME SpritesAssumption ==
  /\ SlotsMax \in Nat \ {0} /\ Used \in Nat /\ Used >= 2
  /\ LoadCap \in Nat /\ Budget \in Nat /\ Whole \in Nat /\ Restarts \in Nat
  /\ Blocks \subseteq Nat \ {0} /\ Related \in [Blocks -> Nat]
  /\ Frames \subseteq Nat \ {0} /\ Pose \in [Frames -> Seq(Blocks)]
  /\ NextOf \in [Frames -> Frames \cup {0}] /\ First \in Seq(Frames)

VARIABLES
  slots,    \* nslots, the count EC set
  cache,    \* countdowns, blocks, index, lists, loads and the DMA list
  handle,   \* the objects' handles
  phase,    \* the frame: "closed", "open" (after AE), "vblank" (after AF)
  todo,     \* the objects still to post in this frame
  decoded,  \* the blocks the last flush listed to the decoder
  sat,      \* the sprite table of this frame
  vram,     \* the block each id's tiles really are
  shown,    \* the sprite table on the screen
  torn,     \* history: a pre-loaded pose was shown with a piece missing
  left      \* restarts left

spritesVars == <<slots, cache, handle, phase, todo, decoded, sat, vram, shown,
                 torn, left>>
-----------------------------------------------------------------------------
Ids == 1..SlotsMax
NoBlocks == [i \in Ids |-> 0]
EmptyCache ==
  [cd |-> NoBlocks, blk |-> NoBlocks, index |-> [b \in Blocks |-> 0],
   la |-> <<>>, lb |-> <<>>, lc |-> <<>>, load |-> <<>>, dma |-> <<>>]
NoHandle == [cur |-> 0, prev |-> 0, next |-> 0, drawn |-> FALSE]
UsedBudget(c) == Len(c.dma)

(* The three lists, built from slot n down to slot 1.                      *)
SlotList(n, ids) ==
  FoldLeft(LAMBDA l, i : IF i \in ids THEN Append(l, i) ELSE l, <<>>,
           [k \in 1..n |-> n + 1 - k])
Rebuilt(c, n) ==
  [c EXCEPT !.la = SlotList(n, {i \in Ids : c.cd[i] = 0}),
            !.lb = SlotList(n, {i \in Ids : c.cd[i] \notin {0, Used - 1}}),
            !.lc = SlotList(n, {i \in Ids : c.cd[i] = Used - 1})]
Aged(c) ==
  Rebuilt([c EXCEPT !.cd = [i \in Ids |->
             IF i > slots THEN c.cd[i]
             ELSE IF c.cd[i] <= 1 THEN 0 ELSE c.cd[i] - 1]], slots)

(* A list is taken from its end; what is passed is dropped.                *)
Taken(c, list, max) ==
  LET fit == {k \in DOMAIN c[list] : c.cd[c[list][k]] <= max} IN
  IF fit = {} THEN [id |-> 0, c |-> [c EXCEPT ![list] = <<>>]]
  ELSE LET k == CHOOSE k \in fit : \A j \in fit : j <= k IN
       [id |-> c[list][k], c |-> [c EXCEPT ![list] = SubSeq(@, 1, k - 1)]]
AB(c) ==
  LET a == Taken(c, "la", 0) IN
  IF a.id # 0 THEN a ELSE Taken(a.c, "lb", Used - 1)
Neighbour(c, b) ==
  LET r == Related[b] IN
  IF r \in Blocks \ {b} /\ c.index[r] # 0 /\ c.cd[c.index[r]] < Used
  THEN c.index[r] ELSE 0
ListC_Used(c) == Taken(c, "lc", Used)
ListC(c) == Taken(c, "lc", Used - 1)
ABRC(c, b) ==
  LET ab == AB(c) IN
  IF ab.id # 0 THEN ab
  ELSE IF Neighbour(ab.c, b) # 0
       THEN [id |-> Neighbour(ab.c, b), c |-> ab.c]
       ELSE ListC(ab.c)

Gate_Cap(c) == Budget > UsedBudget(c) /\ Len(c.load) <= LoadCap
Gate(c) == Budget > UsedBudget(c) /\ Len(c.load) < LoadCap
ClaimIndex_Kept(c, id, b) == [c.index EXCEPT ![b] = id]
ClaimIndex(c, id, b) ==
  [x \in Blocks |-> IF x = b THEN id ELSE IF x = c.blk[id] THEN 0
                    ELSE c.index[x]]
Claim(c, id, b) ==
  [c EXCEPT !.index = ClaimIndex(c, id, b), !.blk[id] = b,
            !.dma = Append(@, id), !.load = Append(@, b)]
Use(c, id) == [c EXCEPT !.cd[id] = Used]

(* One piece of a draw loop, and one of the pre-load pass.                 *)
DrawPiece(d, b) ==
  LET hit == d.c.index[b]
      miss == IF Gate(d.c) THEN ABRC(d.c, b) ELSE [id |-> 0, c |-> d.c] IN
  IF hit # 0
  THEN [d EXCEPT !.c = Use(@, hit), !.sat = Append(@, [id |-> hit, blk |-> b])]
  ELSE IF miss.id = 0 THEN [d EXCEPT !.c = miss.c]
  ELSE [c |-> Use(Claim(miss.c, miss.id, b), miss.id),
        sat |-> Append(d.sat, [id |-> miss.id, blk |-> b])]
LoadPiece_Gated(d, b) ==
  LET hit == d.c.index[b]
      miss == AB(d.c) IN
  IF hit # 0 THEN [d EXCEPT !.c = Use(@, hit)]
  ELSE IF ~Gate(d.c) THEN d
  ELSE IF miss.id = 0 THEN [c |-> miss.c, complete |-> FALSE]
  ELSE [c |-> Use(Claim(miss.c, miss.id, b), miss.id), complete |-> FALSE]
LoadPiece(d, b) ==
  LET hit == d.c.index[b]
      miss == AB(d.c) IN
  IF hit # 0 THEN [d EXCEPT !.c = Use(@, hit)]
  ELSE IF ~Gate(d.c) THEN [d EXCEPT !.complete = FALSE]
  ELSE IF miss.id = 0 THEN [c |-> miss.c, complete |-> FALSE]
  ELSE [c |-> Use(Claim(miss.c, miss.id, b), miss.id), complete |-> FALSE]
Draw(c, f) == FoldLeft(DrawPiece, [c |-> c, sat |-> <<>>], Pose[f])
Preload(c, f) == FoldLeft(LoadPiece, [c |-> c, complete |-> TRUE], Pose[f])

(* The composer: draw the frame and advance, or hold and draw the last one.*)
Fits(c, f) == Len(Pose[f]) + UsedBudget(c) <= Budget
Advanced(h) ==
  [h EXCEPT !.prev = h.cur,
            !.cur = IF h.next # 0 /\ NextOf[h.cur] <= h.cur THEN h.next
                    ELSE NextOf[h.cur],
            !.next = IF NextOf[h.cur] <= h.cur THEN 0 ELSE @,
            !.drawn = TRUE]
Composed(c, h) ==
  LET pre == Preload(c, h.cur)
      whole == Fits(c, h.cur)
      loaded == ~whole /\ Len(Pose[h.cur]) > Whole
      c1 == IF loaded THEN pre.c ELSE c
      go == whole \/ (loaded /\ pre.complete)
      f == IF go THEN h.cur ELSE h.prev
      d == IF f = 0 THEN [c |-> c1, sat |-> <<>>] ELSE Draw(c1, f) IN
  [c |-> d.c, sat |-> d.sat, h |-> IF go THEN Advanced(h) ELSE h,
   torn |-> loaded /\ go /\ Len(d.sat) < Len(Pose[h.cur])]
-----------------------------------------------------------------------------
SpritesInit ==
  /\ slots = 0 /\ cache = EmptyCache /\ handle = [o \in Objects |-> NoHandle]
  /\ phase = "closed" /\ todo = {} /\ decoded = <<>> /\ sat = <<>>
  /\ vram = NoBlocks /\ shown = <<>> /\ torn = FALSE /\ left = Restarts

(* EC, between frames: a smaller count frees the slots from n on.          *)
EC == \E n \in 1..SlotsMax :
  /\ phase = "closed" /\ left > 0 /\ n # slots
  /\ slots' = n /\ left' = left - 1
  /\ cache' = IF slots <= n THEN cache
              ELSE LET gone == {i \in n..slots : cache.blk[i] # 0} IN
                   Rebuilt([cache EXCEPT
                     !.index = [b \in Blocks |->
                                  IF \E i \in gone : cache.blk[i] = b THEN 0
                                  ELSE @[b]],
                     !.blk = [i \in Ids |-> IF i \in gone THEN 0 ELSE @[i]],
                     !.cd = [i \in Ids |-> IF i \in gone THEN 0 ELSE @[i]]], n)
  /\ UNCHANGED <<handle, phase, todo, decoded, sat, vram, shown, torn>>

B0 ==
  /\ phase = "closed" /\ left > 0 /\ left' = left - 1
  /\ slots' = 0 /\ cache' = [EmptyCache EXCEPT !.dma = cache.dma]
  /\ handle' = [o \in Objects |-> NoHandle]
  /\ UNCHANGED <<phase, todo, decoded, sat, vram, shown, torn>>

AE ==
  /\ phase = "closed" /\ phase' = "open" /\ todo' = Objects /\ sat' = <<>>
  /\ cache' = [Aged(cache) EXCEPT !.load = <<>>]
  /\ UNCHANGED <<slots, handle, decoded, vram, shown, torn, left>>

(* AD: the record may restart the object at an anim's first frame, with or *)
(* without its last frame, and then queue an anim or cancel the queued one.*)
Restart(h, a, p) ==
  [h EXCEPT !.cur = First[a], !.prev = p, !.next = 0, !.drawn = FALSE]
Restarted(h) == {Restart(h, a, p) : a \in DOMAIN First, p \in {h.prev, 0}}
Asked(h) ==
  {h} \cup Restarted(h)
      \cup {[g EXCEPT !.next = n] :
              g \in {h} \cup Restarted(h), n \in {0} \cup Range(First)}
AD(o) == \E q \in Asked(handle[o]) :
  /\ phase = "open" /\ o \in todo
  /\ todo' = todo \ {o}
  /\ IF q = handle[o] THEN left' = left ELSE left > 0 /\ left' = left - 1
  /\ IF q.cur = 0
     THEN /\ handle' = [handle EXCEPT ![o] = [q EXCEPT !.drawn = TRUE]]
          /\ UNCHANGED <<cache, sat, torn>>
     ELSE LET d == Composed(cache, q) IN
          /\ cache' = d.c /\ sat' = sat \o d.sat
          /\ handle' = [handle EXCEPT ![o] = d.h] /\ torn' = (torn \/ d.torn)
  /\ UNCHANGED <<slots, phase, decoded, vram, shown>>

(* AF: the flush, the frame's end.                                         *)
AF ==
  /\ phase = "open" /\ todo = {} /\ phase' = "vblank"
  /\ decoded' = cache.load /\ cache' = [cache EXCEPT !.load = <<>>]
  /\ UNCHANGED <<slots, handle, todo, sat, vram, shown, torn, left>>

(* The game's VBlank: the DMA list in order, the table, then both cleared. *)
VBlank ==
  /\ phase = "vblank" /\ phase' = "closed"
  /\ vram' = [i \in Ids |->
       LET ks == {k \in DOMAIN cache.dma : cache.dma[k] = i} IN
       IF ks = {} THEN vram[i]
       ELSE LET k == CHOOSE k \in ks : \A j \in ks : j <= k IN
            IF k \in DOMAIN decoded THEN decoded[k] ELSE 0]
  /\ shown' = sat /\ cache' = [cache EXCEPT !.dma = <<>>]
  /\ UNCHANGED <<slots, handle, todo, decoded, sat, torn, left>>

SpritesNext == EC \/ B0 \/ AE \/ (\E o \in Objects : AD(o)) \/ AF \/ VBlank
SpritesSpec == SpritesInit /\ [][SpritesNext]_spritesVars
-----------------------------------------------------------------------------
(* The claims, the agings and EC keep every countdown, list and count in   *)
(* its range; no list holds an id twice or past the slot count.            *)
SpritesTypeOK ==
  /\ slots \in 0..SlotsMax
  /\ \A i \in Ids : cache.cd[i] \in 0..Used /\ cache.blk[i] \in Blocks \cup {0}
  /\ \A l \in {"la", "lb", "lc"} : IsInjective(cache[l])
       /\ \A k \in DOMAIN cache[l] : cache[l][k] \in 1..slots
  /\ Len(cache.load) <= LoadCap /\ UsedBudget(cache) <= Budget

(* An id holds at most one block and a block sits in at most one id, and   *)
(* the sparse index finds exactly those: the reason one node per id can    *)
(* stand for the original chip's 16 KB table (spr.h).                      *)
IndexIsTable == \A b \in Blocks, i \in Ids :
  cache.index[b] = i <=> cache.blk[i] = b

(* What is shown is what was asked for: the tiles in VRAM under every      *)
(* entry of the table on the screen are the entry's block.                 *)
TilesRight == \A k \in DOMAIN shown : vram[shown[k].id] = shown[k].blk

(* A pose too big for one frame is first shown with all its pieces.        *)
WholeShown == ~torn
=============================================================================
