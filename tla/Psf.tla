--------------------------------- MODULE Psf --------------------------------
(***************************************************************************)
(* psf.c: the header of a PSF font, the glyph of a character, and the size *)
(* of the console that a font gives (load_font, init_shell).  A glyph is   *)
(* known by its offset in the file.                                        *)
(***************************************************************************)
EXTENDS Naturals

CONSTANT NULL

PSF1_HEADER == 4    \* sizeof(struct psf1_header)

(* A font file: what its header says, and its length.  PSF1 has no fields  *)
(* for the width, the header's size and the number of glyphs.              *)
Psf1File(mode, charsize, size) ==
  [magic |-> "psf1", mode |-> mode, charsize |-> charsize, size |-> size]
Psf2File(headersize, length, charsize, width, height) ==
  [magic |-> "psf2", headersize |-> headersize, length |-> length, charsize |-> charsize,
   width |-> width, height |-> height, size |-> headersize + length * charsize]
OtherFile(size) == [magic |-> "none", size |-> size]

(* Mutant: the fixed size of the PSF2 header in place of the stated one.   *)
LoadFixedHeader(file) ==
  IF file.size < 4 \/ file.magic = "none" THEN NULL
  ELSE IF file.magic = "psf1"
  THEN [version |-> 1, width |-> 8, height |-> file.charsize, glyph_size |-> file.charsize,
        glyph_count |-> IF file.mode = 0 THEN 256 ELSE 512, glyph_buffer |-> PSF1_HEADER]
  ELSE [version |-> 2, width |-> file.width, height |-> file.height,
        glyph_size |-> file.charsize, glyph_count |-> file.length, glyph_buffer |-> 32]

(* The font, or NULL for the error return.                                 *)
psf_load_font(file) ==
  IF file.size < 4 \/ file.magic = "none" THEN NULL
  ELSE IF file.magic = "psf1"
  THEN [version |-> 1, width |-> 8, height |-> file.charsize, glyph_size |-> file.charsize,
        glyph_count |-> IF file.mode = 0 THEN 256 ELSE 512, glyph_buffer |-> PSF1_HEADER]
  ELSE [version |-> 2, width |-> file.width, height |-> file.height,
        glyph_size |-> file.charsize, glyph_count |-> file.length,
        glyph_buffer |-> file.headersize]

psf_get_glyph(font, c) ==
  IF c >= font.glyph_count THEN NULL ELSE font.glyph_buffer + c * font.glyph_size

(* What init_shell falls back to: the table of fonts.c.                    *)
VgaFont ==
  [version |-> 0, width |-> 8, height |-> 16, glyph_size |-> 16, glyph_count |-> 256,
   glyph_buffer |-> 0]
VGA_SIZE == 256 * 16

Columns(fb_width, font, scale) == fb_width \div (font.width * scale)
Rows(fb_height, font, scale) == fb_height \div (font.height * scale)

-----------------------------------------------------------------------------
(* The PSF formats: bit 0 of the mode of PSF1 says that there are 512      *)
(* glyphs; a Unicode table may follow the glyphs.                          *)

GlyphsInFile(file) ==
  IF file.magic = "psf2" THEN file.length ELSE IF file.mode % 2 = 1 THEN 512 ELSE 256

GlyphOffset(file, c) ==
  IF c >= GlyphsInFile(file) THEN NULL
  ELSE (IF file.magic = "psf2" THEN file.headersize ELSE PSF1_HEADER) + c * file.charsize

(* A font that holds what its header says.                                 *)
WellFormed(file) ==
  /\ file.size \in Nat
  /\ \/ /\ file.magic = "psf1"
        /\ file.mode \in Nat /\ file.charsize \in Nat \ {0}
        /\ file.size >= PSF1_HEADER + GlyphsInFile(file) * file.charsize
     \/ /\ file.magic = "psf2"
        /\ file.headersize \in Nat /\ file.length \in Nat /\ file.charsize \in Nat
        /\ file.width \in Nat \ {0} /\ file.height \in 1 .. file.charsize
        /\ file.size >= file.headersize + file.length * file.charsize
=============================================================================
