--------------------------------- MODULE Boot ---------------------------------
(***************************************************************************)
(* The power-on path: boot_cache.c's stub and the boot overlay             *)
(* (board/pocket/boot).  Before the 68000 runs, the sound bank must be in  *)
(* CRAM: kept from the Pocket's cache file when that file passes every     *)
(* check, else unpacked from the ROM.  Then the SFX bank and the curve are *)
(* written, which nothing reads back.  A reset may come between any two    *)
(* steps (CRAM and CACHE stay, only a power-off clears them); crt0 then    *)
(* overwrites the overlay.  At Quit the Pocket resets the core and reads   *)
(* the file back, word by word, while the MCU boots again.                 *)
(*                                                                         *)
(* Left out: the bar, the record of what was found, the samples and CRCs   *)
(* themselves (a block of the bank is the ROM it was decoded from).        *)
(***************************************************************************)
EXTENDS Integers

CONSTANTS
  Roms,     \* the ROMs whose stream rom_map reads
  Unread,   \* the ROMs whose pointers or stream it refuses
  NoRom,    \* no ROM
  Broken,   \* the streams whose data does not decode
  NoSfx,    \* the ROMs whose SFX bounds sfx_copy refuses
  Nothing,  \* what no ROM's stream decodes to
  Torn,     \* an SFX bank or a curve written, but for a lost store
  N,        \* the bank's blocks, the tail the last
  Powers, Resets, Faults  \* power-ons, resets and lost stores (bound the run)

Blocks == 1..N
Games == Roms \cup Unread

ASSUME BootAssumption ==
  /\ N \in Nat \ {0} /\ Broken \subseteq Roms /\ NoSfx \subseteq Games
  /\ NoRom \notin Games /\ Nothing \notin Games /\ Torn \notin Games
  /\ Roms \cap Unread = {} /\ Torn # Nothing
  /\ Powers \in Nat /\ Resets \in Nat /\ Faults \in Nat

VARIABLES
  pc,       \* where the boot is; "off", and "game" once the 68000 runs
  rom,      \* the ROM in this power-on
  hdr,      \* CRAM: the image's header
  bank,     \* CRAM: the image's bank
  sfx,      \* CRAM: the ROM whose SFX bank is there, Nothing or Torn
  curve,    \* CRAM: the output curve: "none", "torn" or "there"
  valid,    \* XLINK CACHE.VALID
  loaded,   \* XLINK CACHE_LOADED: "none", "whole" or another size, "short"
  lost,     \* XLINK LOST[31:16] # 0
  overlay,  \* the overlay is intact in wram_upper
  next,     \* the unpack's next block, then the header's words left
  why,      \* the boot failed
  file,     \* the Pocket's cache file
  flush,    \* Quit: 0 none, 1 asked, then the next word to read
  copy,     \* what was read so far
  own,      \* history: the ROM whose session wrote the file, if untouched
  kept,     \* history: the file this power-on loaded, as own, if whole
  unpacked, \* history: this power-on unpacked
  left,     \* power-ons, resets and faults left
  deep      \* the build: the stub's stack reaches the overlay's scratch

bootVars == <<pc, rom, hdr, bank, sfx, curve, valid, loaded, lost, overlay, next,
          why, file, flush, copy, own, kept, unpacked, left, deep>>
cram == <<hdr, bank, sfx, curve>>
card == <<file, flush, copy, own>>
-----------------------------------------------------------------------------
NoHdr == [magic |-> FALSE, body |-> Nothing, crc |-> Nothing]
NoBank == [b \in Blocks |-> Nothing]
WholeOf(r) == [b \in Blocks |-> r]
NoFile == [size |-> "none", hdr |-> NoHdr, bank |-> NoBank]

(* check_file: the size, the loss, the header with its CRC, the ROM's key, *)
(* then check_bank's content check of what CRAM holds.                     *)
LooksKept(h) == h.magic /\ h.body # Nothing /\ h.crc = h.body
Passes_NoBank ==
  loaded = "whole" /\ ~lost /\ LooksKept(hdr) /\ hdr.body = rom
Passes ==
  /\ loaded = "whole" /\ ~lost
  /\ LooksKept(hdr) /\ hdr.body = rom
  /\ bank = WholeOf(rom)

BootInit ==
  /\ pc = "off" /\ rom = NoRom /\ hdr = NoHdr /\ bank = NoBank
  /\ sfx = Nothing /\ curve = "none" /\ valid = FALSE
  /\ loaded = "none" /\ lost = FALSE /\ overlay = FALSE
  /\ next = 1 /\ why = FALSE
  /\ file = NoFile /\ flush = 0 /\ copy = NoFile /\ own = NoRom
  /\ kept = NoRom /\ unpacked = FALSE
  /\ left = [powers |-> Powers, resets |-> Resets, faults |-> Faults]
  /\ deep \in BOOLEAN

(* The power comes: the file is loaded before the MCU runs; a store may be *)
(* lost, and counted.                                                      *)
PowerOn == \E r \in Games, miss \in Blocks \cup {0} :
  /\ pc = "off" /\ left.powers > 0 /\ pc' = "stub" /\ rom' = r
  /\ file.size = "none" => miss = 0
  /\ hdr' = file.hdr /\ bank' = [b \in Blocks |->
       IF b = miss THEN Nothing ELSE file.bank[b]]
  /\ loaded' = file.size /\ lost' = (miss # 0)
  /\ sfx' = Nothing /\ curve' = "none" /\ valid' = FALSE /\ overlay' = TRUE
  /\ kept' = IF miss = 0 THEN own ELSE NoRom
  /\ next' = 1 /\ why' = FALSE /\ unpacked' = FALSE
  /\ left' = [left EXCEPT !.powers = @ - 1] /\ UNCHANGED card

(* The stub: VALID is a warm boot, else the overlay if it is still there.  *)
Stub_Blind ==
  /\ pc = "stub" /\ why' = FALSE /\ next' = 1
  /\ pc' = IF overlay THEN "map" ELSE "crt0"
  /\ UNCHANGED <<rom, cram, valid, loaded, lost, overlay, card, kept, unpacked,
                 left>>
Stub ==
  /\ pc = "stub" /\ why' = FALSE /\ next' = 1
  /\ pc' = IF ~valid /\ overlay THEN "map" ELSE "crt0"
  /\ UNCHANGED <<rom, cram, valid, loaded, lost, overlay, card, kept, unpacked,
                 left>>
Quietly(from, to) ==
  /\ pc = from /\ pc' = to
  /\ UNCHANGED <<rom, valid, loaded, lost, overlay, card, kept, left>>
(* The overlay returns at once when its scratch could meet the stack: the  *)
(* stub's stack pointer is the same at every boot of a build.              *)
StackGuard ==
  /\ Quietly("map", "crt0") /\ deep
  /\ UNCHANGED <<cram, next, why, unpacked>>
Map ==
  /\ Quietly("map", IF rom \in Roms THEN "check" ELSE "sfx") /\ ~deep
  /\ why' = (rom \notin Roms) /\ UNCHANGED <<cram, next, unpacked>>
CheckFile ==
  /\ Quietly("check", IF Passes THEN "sfx" ELSE "unpack")
  /\ UNCHANGED <<cram, next, why, unpacked>>

(* A store lands, or a fault loses it.                                     *)
Lands(here) ==
  /\ here \/ left.faults > 0
  /\ left' = IF here THEN left ELSE [left EXCEPT !.faults = @ - 1]
(* unpack(): the old magic first, then block by block.                     *)
UnpackStart == \E here \in BOOLEAN :
  /\ pc = "unpack" /\ pc' = "put" /\ unpacked' = TRUE /\ Lands(here)
  /\ hdr' = IF here THEN [hdr EXCEPT !.magic = FALSE] ELSE hdr
  /\ UNCHANGED <<rom, bank, sfx, curve, valid, loaded, lost, overlay, next,
                 why, card, kept>>
Decoded == IF rom \in Broken THEN Nothing ELSE rom
PutBlock(from, to, last) == \E here \in BOOLEAN :
  /\ pc = from /\ Lands(here) /\ next' = next + 1
  /\ bank' = IF here THEN [bank EXCEPT ![next] = Decoded] ELSE bank
  /\ pc' = IF next = last THEN to ELSE from
  /\ UNCHANGED <<rom, hdr, sfx, curve, valid, loaded, lost, overlay, why, card,
                 kept, unpacked>>
Put == PutBlock("put", "verify", N)

(* What CRAM holds now is checked like a loaded file.                      *)
Verified(failure) ==
  /\ Quietly("verify", IF bank = WholeOf(rom) THEN "crc" ELSE failure)
  /\ why' = (bank # WholeOf(rom)) /\ next' = 1
  /\ UNCHANGED <<cram, unpacked>>
Verify_Out == Verified("crt0")
Verify == Verified("sfx")

(* The header from its last word to its first: the magic last of all.      *)
HdrStore(from, to, new) == \E here \in BOOLEAN :
  /\ pc = from /\ pc' = to /\ Lands(here)
  /\ hdr' = IF here THEN new ELSE hdr
  /\ UNCHANGED <<rom, bank, sfx, curve, valid, loaded, lost, overlay, next, why,
                 card, kept, unpacked>>
HdrCrc == HdrStore("crc", "body", [hdr EXCEPT !.crc = rom])
HdrBody == HdrStore("body", "magic", [hdr EXCEPT !.body = rom])
HdrMagic == HdrStore("magic", "readback", [hdr EXCEPT !.magic = TRUE])
ReadBack ==
  /\ Quietly("readback", "sfx")
  /\ why' = (hdr # [magic |-> TRUE, body |-> rom, crc |-> rom])
  /\ UNCHANGED <<cram, next, unpacked>>

(* The SFX bank and the curve, in every boot that is not warm, then CACHE: *)
(* this power-on's last store, and only if the image did not fail.  Bad    *)
(* SFX bounds copy nothing and fail nothing; and these stores are not read *)
(* back.  A second copy changes nothing that the first one brought.        *)
SfxStart ==
  /\ Quietly("sfx", IF rom \in NoSfx THEN "curve" ELSE "copying")
  /\ UNCHANGED <<cram, next, why, unpacked>>
SfxEnd == \E here \in BOOLEAN :
  /\ pc = "copying" /\ pc' = "curve" /\ Lands(here)
  /\ sfx' = IF here \/ sfx = rom THEN rom ELSE Torn
  /\ UNCHANGED <<rom, hdr, bank, curve, valid, loaded, lost, overlay, next, why,
                 card, kept, unpacked>>
CurveWrite == \E here \in BOOLEAN :
  /\ pc = "curve" /\ pc' = "tell" /\ Lands(here)
  /\ curve' = IF here \/ curve = "there" THEN "there" ELSE "torn"
  /\ UNCHANGED <<rom, hdr, bank, sfx, valid, loaded, lost, overlay, next, why,
                 card, kept, unpacked>>
Tell ==
  /\ pc = "tell" /\ pc' = "crt0" /\ valid' = ~why
  /\ UNCHANGED <<rom, cram, loaded, lost, overlay, next, why, card, kept,
                 unpacked, left>>

(* crt0 clears .bss_upper, where the overlay was, and the 68000 is let go. *)
Crt0 ==
  /\ pc = "crt0" /\ pc' = "game" /\ overlay' = FALSE
  /\ UNCHANGED <<rom, cram, valid, loaded, lost, next, why, card, kept,
                 unpacked, left>>

(* A reset keeps CRAM, CACHE and the WRAM; Quit is one, and the Pocket     *)
(* then reads the file while the MCU boots.                                *)
Restart(steps) ==
  /\ pc # "off" /\ pc' = "stub" /\ left.resets > 0
  /\ left' = [left EXCEPT !.resets = @ - 1]
  /\ UNCHANGED <<rom, cram, valid, loaded, lost, overlay, next, why, kept,
                 unpacked>>
  /\ steps
Reset == Restart(UNCHANGED card)
Quit == Restart(flush = 0 /\ flush' = 1 /\ UNCHANGED <<file, copy, own>>)
Boots == UNCHANGED <<rom, cram, valid, loaded, lost, overlay, next, why, kept,
                     unpacked, left>>
PowerOff == pc' = "off" /\ flush' = 0 /\ Boots

(* The size word is CACHE's: no VALID, no file.                            *)
FlushSize ==
  /\ flush = 1
  /\ \/ valid /\ flush' = 2 /\ copy' = NoFile /\ UNCHANGED <<pc, file, own>>
        /\ Boots
     \/ ~valid /\ PowerOff /\ UNCHANGED <<file, copy, own>>
FlushWord ==
  /\ flush \in 2..(N + 2) /\ flush' = flush + 1
  /\ copy' = IF flush = 2 THEN [copy EXCEPT !.hdr = hdr]
             ELSE [copy EXCEPT !.bank[flush - 2] = bank[flush - 2]]
  /\ UNCHANGED <<pc, file, own>> /\ Boots
FlushEnd ==
  /\ flush = N + 3 /\ PowerOff
  /\ file' = [copy EXCEPT !.size = "whole"] /\ own' = rom /\ UNCHANGED copy

(* The power fails; a file being written then is short.                    *)
PowerCut ==
  /\ pc # "off" /\ PowerOff /\ UNCHANGED copy
  /\ IF flush > 1 THEN file' = [copy EXCEPT !.size = "short"] /\ own' = NoRom
     ELSE UNCHANGED <<file, own>>

(* The file on the card is cut short, or a part of it goes bad.            *)
Damage ==
  /\ pc = "off" /\ own # NoRom /\ own' = NoRom
  /\ \/ file' = [file EXCEPT !.size = "short", !.bank[N] = Nothing]
     \/ file' = [file EXCEPT !.hdr.magic = FALSE]
     \/ \E b \in Blocks, r \in Roms \cup {Nothing} :
          file' = [file EXCEPT !.bank[b] = r]
  /\ UNCHANGED <<pc, flush, copy>> /\ Boots

Unpack == UnpackStart \/ Put \/ Verify \/ HdrCrc \/ HdrBody \/ HdrMagic
            \/ ReadBack
Overlay == StackGuard \/ Map \/ CheckFile \/ Unpack \/ SfxStart \/ SfxEnd
             \/ CurveWrite \/ Tell
Mcu == Stub \/ Overlay \/ Crt0
Pocket == PowerOn \/ PowerCut \/ Reset \/ Quit \/ FlushSize \/ FlushWord
            \/ FlushEnd \/ Damage
BootNext == (Mcu \/ Pocket) /\ UNCHANGED deep
BootSpec == BootInit /\ [][BootNext]_bootVars
-----------------------------------------------------------------------------
Pcs == {"off", "stub", "map", "check", "unpack", "put", "verify", "crc", "body",
        "magic", "readback", "sfx", "copying", "curve", "tell", "crt0", "game"}
Headers == [magic : BOOLEAN, body : Roms \cup {Nothing},
            crc : Roms \cup {Nothing}]
Banks == [Blocks -> Roms \cup {Nothing}]
Files == [size : {"none", "whole", "short"}, hdr : Headers, bank : Banks]

(* The unpack stays inside the bank and the flush inside the image.        *)
BootTypeOK ==
  /\ pc \in Pcs /\ rom \in Games \cup {NoRom} /\ hdr \in Headers
  /\ bank \in Banks /\ sfx \in Games \cup {Nothing, Torn}
  /\ curve \in {"none", "torn", "there"} /\ deep \in BOOLEAN
  /\ valid \in BOOLEAN /\ loaded \in {"none", "whole", "short"}
  /\ lost \in BOOLEAN /\ overlay \in BOOLEAN /\ why \in BOOLEAN
  /\ next \in 1..(N + 1) /\ file \in Files /\ copy \in Files
  /\ flush \in 0..(N + 3) /\ own \in Roms \cup {NoRom}
  /\ kept \in Roms \cup {NoRom} /\ unpacked \in BOOLEAN
  /\ left \in [powers : Nat, resets : Nat, faults : Nat]

(* The code does not read these stores back: this ROM's SFX bank was       *)
(* copied to its end, unless its bounds are refused, and the curve written *)
(* to its end; either is torn only when a store was lost.                  *)
StoreLost == left.faults < Faults
SfxCopied == rom \in NoSfx \/ sfx = rom \/ (sfx = Torn /\ StoreLost)
CurveWritten == curve = "there" \/ (curve = "torn" /\ StoreLost)
SoundWritten == SfxCopied /\ CurveWritten

(* CACHE is this power-on's last store: whenever VALID is set the image is *)
(* whole and this ROM's, and the SFX copy and the curve were finished -    *)
(* what a warm boot relies on, since it touches nothing.                   *)
CacheSound == valid =>
  /\ rom \in Roms /\ LooksKept(hdr) /\ hdr.body = rom /\ bank = WholeOf(rom)
  /\ SoundWritten

(* Whatever of the image failed, and however many resets cut the boot, the *)
(* 68000 does not run before the SFX copy and the curve were finished - in *)
(* a build whose stub leaves the overlay its stack.                        *)
GameHasSound == pc = "game" => deep \/ SoundWritten

(* "A cut unpack never looks kept": once the overlay has begun to unpack,  *)
(* a header that passes stands over a whole bank, as long as every store   *)
(* lands (the content check stands behind it when one does not).           *)
CutNeverLooksKept ==
  unpacked /\ ~StoreLost /\ LooksKept(hdr) =>
    bank = WholeOf(hdr.body)

(* The cache works: a file that this core wrote for this ROM, whole and    *)
(* untouched since, is never unpacked over - not even when the Pocket read *)
(* it back while the MCU was booting again.                                *)
OwnFileKept == unpacked => kept # rom \/ rom = NoRom

(* While VALID is set the Pocket may be reading: no step changes the       *)
(* image's bytes.                                                          *)
ImageHeld == [][valid /\ valid' => UNCHANGED <<hdr, bank>>]_bootVars
=============================================================================
