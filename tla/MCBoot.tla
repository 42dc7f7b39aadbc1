------------------------------- MODULE MCBoot -------------------------------
(* The font of the repository (PSF1, mode 2, 16 rows, 1570 bytes of        *)
(* Unicode table), others of both formats, and files that are no fonts; a  *)
(* common framebuffer and one of ten short lines.  The TSS lies in the     *)
(* upper 2 GiB.                                                            *)
EXTENDS Boot, TLC

MCFonts ==
  {Psf1File(2, 16, 4 + 256 * 16 + 1570), Psf1File(0, 14, 4 + 256 * 14),
   Psf1File(1, 8, 4 + 512 * 8),
   Psf2File(32, 256, 16, 8, 16), Psf2File(40, 128, 12, 6, 12), OtherFile(5670), OtherFile(3)}

MCFramebuffers == {[width |-> 1280, height |-> 800], [width |-> 200, height |-> 320]}

(* Null, and code and data for the kernel and for users.                   *)
Flat(access, flags) == <<255, 255, 0, 0, 0, access, flags, 0>>
MCLoaderGdt ==
  <<[i \in 1 .. 8 |-> 0], Flat(154, 175), Flat(146, 207), Flat(250, 175), Flat(242, 207)>>

MCTssAddress == <<64, 160, 1, 128, 255, 255, 255, 255>>
MCStubAddress == <<16, 50, 2, 128, 255, 255, 255, 254>>

Words(n) == [i \in 1 .. n |-> "x"]
MCLoadedText == Words(29) \o <<NEWLINE>>
MCFailedText == Words(25) \o <<NEWLINE>> \o Words(28) \o <<NEWLINE>>
MCInitializingText == Words(26) \o <<NEWLINE>>
MCInitializedText == Words(23) \o <<NEWLINE>> \o Words(24) \o <<NEWLINE>>
MCWelcomeText ==
  Words(21) \o <<NEWLINE>> \o Words(16) \o <<NEWLINE, NEWLINE>> \o Words(18)
    \o <<NEWLINE>> \o Words(27) \o <<NEWLINE, NEWLINE>>
=============================================================================
