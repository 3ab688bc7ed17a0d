------------------------------- MODULE MCBoot -------------------------------
(* A game, a hack of it with another stream and no SFX bank in bounds, one *)
(* whose stream is broken, and two ROMs whose stream rom_map refuses: with *)
(* an SFX bank, and with a bad table pointer.                              *)
EXTENDS Boot

MCRoms == {1, 2, 3}
MCBroken == {3}
MCUnread == {4, 5}
MCNoSfx == {2, 5}
=============================================================================
