-------------------------------- MODULE Boot --------------------------------
(***************************************************************************)
(* kernel() of main.c: the checks of what the boot loader answers, the TSS *)
(* in the boot loader's GDT (gdt.c), the console and its font              *)
(* (init_shell), and then, as KeyboardInit, interrupts_init and            *)
(* keyboard_init with the messages around them, until shell() is called.   *)
(* The devices go on all the time.                                         *)
(***************************************************************************)
EXTENDS KeyboardInit, Psf, Descriptors

CONSTANTS
  Fonts,              \* files that may be linked in as default.psf
  Framebuffers,       \* sizes of the framebuffer, in pixels
  LoaderGdt,          \* the five entries of the boot loader's GDT
  TssAddress, StubAddress,        \* of tss and keyboard_interrupt_stub
  LoadedText, FailedText,         \* what init_shell prints
  InitializingText, InitializedText, WelcomeText   \* what kernel() prints

FONT_SCALE == 2
NEWLINE == "newline"

HasRoom(screen, shown) ==
  screen.width >= shown.width * FONT_SCALE /\ screen.height >= shown.height * FONT_SCALE

(* The boot loader's table begins with a null descriptor and the kernel's  *)
(* code, as gdt.c:20-24 say.  A file that loads as a font holds the glyphs *)
(* it says, and every font that is used has at least one character on the  *)
(* framebuffer: the code checks none of these.  The last message ends its  *)
(* line.                                                                   *)
ASSUME BootAssumption ==
  /\ TssAddress \in Address /\ StubAddress \in Address
  /\ LoaderGdt \in [1 .. 5 -> [1 .. 8 -> Byte]]
  /\ CodeSegment(LoaderGdt[2])
  /\ Framebuffers \subseteq [width : Nat, height : Nat]
  /\ \A linked \in Fonts :
       LET loaded == psf_load_font(linked)
       IN  IF loaded = NULL THEN \A screen \in Framebuffers : HasRoom(screen, VgaFont)
           ELSE WellFormed(linked) /\ \A screen \in Framebuffers : HasRoom(screen, loaded)
  /\ {LoadedText, FailedText, InitializingText, InitializedText, WelcomeText} \subseteq Seq(STRING)
  /\ WelcomeText # <<>> /\ WelcomeText[Len(WelcomeText)] = NEWLINE

TSS_SIZE == 104
VARIABLES
  stage,            \* where kernel() is
  answers,          \* what the boot loader's responses say
  fb, file,         \* the framebuffer and the font that are there
  gdt, gdtr_limit,  \* the table by entries, and the limit the CPU has for it
  tss_iopb,         \* iopb_offset of tss
  tr,               \* the base the CPU has for the TSS
  idt, vector_base, \* the gates that are present; the first vector of PIC1
  font, width, height,   \* of console
  cursor

boot_inputs == <<answers, fb, file>>
gdt_vars == <<gdt, gdtr_limit, tss_iopb, tr>>
idt_vars == <<idt, vector_base>>
console_vars == <<font, width, height, cursor>>
kernel_vars == <<boot_inputs, gdt_vars, idt_vars, console_vars>>
boot_vars == <<vars, stage, kernel_vars>>

(* The boot loader's table has five entries, as gdt.c assumes, in memory   *)
(* that goes on behind them.  The BIOS leaves PIC1 at vector 8.            *)
Unset == [i \in 1 .. 8 |-> 255]

BootInit ==
  /\ Init
  /\ stage = "entry"
  /\ answers \in [revision : BOOLEAN, framebuffers : {"no response", "none", "some"}]
  /\ fb \in Framebuffers
  /\ file \in Fonts
  /\ gdt = [n \in 0 .. 6 |-> IF n < 5 THEN LoaderGdt[n + 1] ELSE Unset]
  /\ gdtr_limit = 5 * 8 - 1
  /\ tss_iopb = 0
  /\ tr = NULL
  /\ idt = [v \in {} |-> <<>>]
  /\ vector_base = 8
  /\ font = NULL
  /\ width = 0 /\ height = 0
  /\ cursor = <<0, 0>>

Advance(from, to) == stage = from /\ stage' = to

-----------------------------------------------------------------------------
(* kernel() up to the framebuffer, and gdt_init_tss.                       *)

CheckRevision ==
  /\ Advance("entry", IF answers.revision THEN "tss" ELSE "halted")
  /\ UNCHANGED kernel_vars

ClearTss ==
  /\ Advance("tss", "tss_low")
  /\ tss_iopb' = TSS_SIZE
  /\ UNCHANGED <<boot_inputs, gdt, gdtr_limit, tr, idt_vars, console_vars>>

SetTssLow ==
  /\ Advance("tss_low", "tss_high")
  /\ gdt' = [gdt EXCEPT ![5] = gdt_set_gate(TssAddress, TSS_SIZE - 1, GDT_TSS, 0)]
  /\ UNCHANGED <<boot_inputs, gdtr_limit, tss_iopb, tr, idt_vars, console_vars>>

SetTssHigh ==
  /\ Advance("tss_high", "lgdt")
  /\ gdt' = [gdt EXCEPT ![6] = tss_high(TssAddress)]
  /\ UNCHANGED <<boot_inputs, gdtr_limit, tss_iopb, tr, idt_vars, console_vars>>

(* Mutant: the size of the table where the limit is one less.              *)
LoadGdtWhole ==
  /\ Advance("lgdt", "ltr")
  /\ gdtr_limit' = 7 * 8
  /\ UNCHANGED <<boot_inputs, gdt, tss_iopb, tr, idt_vars, console_vars>>

LoadGdt ==
  /\ Advance("lgdt", "ltr")
  /\ gdtr_limit' = 7 * 8 - 1
  /\ UNCHANGED <<boot_inputs, gdt, tss_iopb, tr, idt_vars, console_vars>>

(* The CPU takes the descriptor if it lies within the limit and is that of *)
(* a TSS that is not in use, marks it busy, and faults otherwise.  That    *)
(* the base is canonical is not checked here, nor by every CPU.            *)
LoadTr ==
  LET entry == TSS_SELECTOR \div 8
  IN  /\ IF TSS_SELECTOR + 15 <= gdtr_limit /\ AvailableTss(gdt[entry], gdt[entry + 1])
         THEN /\ Advance("ltr", "framebuffer")
              /\ tr' = SegmentBase(gdt[entry], gdt[entry + 1])
              /\ gdt' = [gdt EXCEPT ![entry] = [@ EXCEPT ![6] = 139]]
         ELSE Advance("ltr", "fault") /\ UNCHANGED <<gdt, tr>>
      /\ UNCHANGED <<boot_inputs, gdtr_limit, tss_iopb, idt_vars, console_vars>>

CheckFramebuffer ==
  /\ Advance("framebuffer", IF answers.framebuffers = "some" THEN "load_font" ELSE "halted")
  /\ UNCHANGED kernel_vars

-----------------------------------------------------------------------------
(* init_shell.  Of printf only the cursor is followed; console_clear,      *)
(* which putChar calls at the bottom, returns it to the corner.            *)

PutCursor(ch, w, h) ==
  [c \in Nat \X Nat |->
     LET moved == IF ch = NEWLINE THEN <<0, c[2] + 1>> ELSE <<c[1] + 1, c[2]>>
         wrapped == IF moved[1] >= w THEN <<0, moved[2] + 1>> ELSE moved
     IN  IF wrapped[2] >= h THEN <<0, 0>> ELSE wrapped]

Printed(text, w, h) ==
  LET after[i \in 0 .. Len(text)] ==
        IF i = 0 THEN cursor ELSE PutCursor(text[i], w, h)[after[i - 1]]
  IN  after[Len(text)]

load_font ==
  /\ LET loaded == psf_load_font(file)
     IN  IF loaded = NULL
         THEN Advance("load_font", "font_failed") /\ UNCHANGED <<font, width, height>>
         ELSE /\ Advance("load_font", "font_loaded")
              /\ font' = loaded
              /\ width' = Columns(fb.width, loaded, FONT_SCALE)
              /\ height' = Rows(fb.height, loaded, FONT_SCALE)
  /\ UNCHANGED <<boot_inputs, gdt_vars, idt_vars, cursor>>

FontLoaded ==
  /\ Advance("font_loaded", "dimensions")
  /\ cursor' = Printed(LoadedText, width, height)
  /\ UNCHANGED <<boot_inputs, gdt_vars, idt_vars, font, width, height>>

(* The message comes before the console has a size.                        *)
FontFailed ==
  /\ Advance("font_failed", "dimensions")
  /\ cursor' = Printed(FailedText, width, height)
  /\ font' = VgaFont
  /\ UNCHANGED <<boot_inputs, gdt_vars, idt_vars, width, height>>

(* Mutant: only load_font computes the dimensions.                         *)
DimensionsOfLoad ==
  /\ Advance("dimensions", "initializing")
  /\ UNCHANGED kernel_vars

Dimensions ==
  /\ Advance("dimensions", "initializing")
  /\ width' = Columns(fb.width, font, FONT_SCALE)
  /\ height' = Rows(fb.height, font, FONT_SCALE)
  /\ UNCHANGED <<boot_inputs, gdt_vars, idt_vars, font, cursor>>

-----------------------------------------------------------------------------
(* The rest of kernel().                                                   *)

Say(from, text, to) ==
  /\ Advance(from, to)
  /\ cursor' = Printed(text, width, height)
  /\ UNCHANGED <<boot_inputs, gdt_vars, idt_vars, font, width, height>>

Messages ==
  \/ Say("initializing", InitializingText, "idt")
  \/ Say("initialized", InitializedText, "keyboard")
  \/ pc = "done" /\ Say("keyboard", WelcomeText, "shell")

(* Mutant: the gate is that of IRQ 0.                                      *)
FillIdtTimer ==
  /\ Advance("idt", "interrupts")
  /\ idt' = [v \in {32} |-> idt_set_gate(StubAddress, 8, 142)]
  /\ UNCHANGED <<boot_inputs, gdt_vars, vector_base, console_vars>>

(* interrupts_init clears all gates, so that none is present, and sets     *)
(* that of vector 0x21.                                                    *)
FillIdt ==
  /\ Advance("idt", "interrupts")
  /\ idt' = [v \in {33} |-> idt_set_gate(StubAddress, 8, 142)]
  /\ UNCHANGED <<boot_inputs, gdt_vars, vector_base, console_vars>>

interrupts_init ==
  /\ stage = "interrupts"
  /\ \/ pic_init /\ vector_base' = 32 /\ UNCHANGED stage
     \/ LoadIdt /\ UNCHANGED <<stage, vector_base>>
     \/ EnableInterrupts /\ stage' = "initialized" /\ UNCHANGED vector_base
  /\ UNCHANGED <<boot_inputs, gdt_vars, idt, console_vars>>

keyboard_init ==
  /\ stage = "keyboard"
  /\ WriteCommand \/ keyboard_wait_output \/ ReadData
  /\ UNCHANGED <<stage, kernel_vars>>

KernelStep ==
  /\ handler = "idle"
  /\ \/ CheckRevision \/ ClearTss \/ SetTssLow \/ SetTssHigh \/ LoadGdt \/ LoadTr
     \/ CheckFramebuffer \/ load_font \/ FontLoaded \/ FontFailed \/ Dimensions
     \/ Messages \/ FillIdt
  /\ UNCHANGED vars

DriverStep == handler = "idle" /\ (interrupts_init \/ keyboard_init)

(* The thread polls in keyboard_init, halts for good, or is in shell().    *)
Wait ==
  /\ \/ stage = "keyboard" /\ Spin
     \/ stage \in {"halted", "shell"} /\ handler = "idle"
  /\ UNCHANGED boot_vars

BootNext ==
  \/ KernelStep \/ DriverStep \/ Wait
  \/ (Handler \/ Device \/ TypeKey) /\ UNCHANGED <<stage, kernel_vars>>

BootSpec == BootInit /\ [][BootNext]_boot_vars

(* The CPU executes instructions and takes interrupts, the devices answer. *)
BootFairSpec ==
  BootSpec /\ WF_boot_vars(KernelStep) /\ WF_boot_vars(DriverStep)
           /\ WF_boot_vars(Handler /\ UNCHANGED <<stage, kernel_vars>>)
           /\ WF_boot_vars(TakeCommand /\ UNCHANGED <<stage, kernel_vars>>)
           /\ WF_boot_vars(SendReply /\ UNCHANGED <<stage, kernel_vars>>)
           /\ WF_boot_vars(SendKeyboardByte /\ UNCHANGED <<stage, kernel_vars>>)

-----------------------------------------------------------------------------
(* Properties.                                                             *)

(* Descriptors are bytes, the CPU's limit is that of whole descriptors,    *)
(* and vectors fit in a byte.                                              *)
BootTypeOK ==
  /\ gdt \in [0 .. 6 -> [1 .. 8 -> Byte]]
  /\ gdtr_limit \in {8 * n - 1 : n \in 1 .. 7}
  /\ DOMAIN idt \subseteq Byte
  /\ width \in Nat /\ height \in Nat /\ cursor \in Nat \X Nat

(* The CPU accepts the TSS descriptor, and what it has of the TSS, where a *)
(* descriptor of 16 bytes agrees with two of 8, is right; the boot         *)
(* loader's entries stay as they are.                                      *)
TssLoaded ==
  /\ stage # "fault"
  /\ \A n \in 0 .. 4 : gdt[n] = LoaderGdt[n + 1]
  /\ tr # NULL =>
       /\ \A k \in 1 .. 4 : SegmentBaseLow(gdt[5])[k] = TssAddress[k]
       /\ SegmentLimit(gdt[5]) = TSS_SIZE - 1
       /\ tss_iopb > SegmentLimit(gdt[5])

(* The TSS is where the CPU looks for it ("contains upper 32 bits of base  *)
(* address", gdt.c:73).                                                    *)
TssBase == tr # NULL => tr = TssAddress

(* When IRQ 1 is taken, under the vector that the PIC has for it, the gate *)
(* there leads to the stub of the keyboard, with interrupts off, through a *)
(* descriptor of the table in use that is a code segment of the kernel:    *)
(* the boot loader's, which gdt_init_tss must have left alone.             *)
GateServesKeyboard ==
  handler # "idle" =>
    LET vector == vector_base + 1
    IN  /\ vector \in DOMAIN idt
        /\ GateOffset(idt[vector]) = StubAddress
        /\ GateSelector(idt[vector]) + 7 <= gdtr_limit
        /\ CodeSegment(gdt[GateSelector(idt[vector]) \div 8])
        /\ InterruptGate(idt[vector])

(* For every char, the glyph that draw_char takes is the one that the file *)
(* has for it (or that of the VGA table), and lies within it.              *)
GlyphsOfTheFont ==
  font # NULL =>
    \A c \in Byte :
      LET glyph == psf_get_glyph(font, c)
      IN  IF font.version = 0
          THEN glyph = 16 * c /\ glyph + font.height <= VGA_SIZE
          ELSE /\ glyph = GlyphOffset(file, c)
               /\ glyph # NULL => glyph + font.height <= file.size

(* After init_shell the cursor is on the console, although it was moved    *)
(* while the console had another size or none; and every cell is on the    *)
(* screen.  The shell starts at the beginning of a line.                   *)
ConsoleReady ==
  LET before == {"entry", "tss", "tss_low", "tss_high", "lgdt", "ltr", "framebuffer",
                 "load_font", "font_loaded", "font_failed", "dimensions", "halted"}
  IN  /\ stage \notin before =>
           /\ cursor[1] < width /\ cursor[2] < height
           /\ width * font.width * FONT_SCALE <= fb.width
           /\ height * font.height * FONT_SCALE <= fb.height
      /\ stage = "shell" => cursor[1] = 0

(* A byte never stays in the output buffer of the keyboard controller      *)
(* unless the kernel has halted: whatever thread and handler take from     *)
(* each other, no interrupt is left without its EOI and no request is lost *)
(* for good.                                                               *)
ByteServed == output # "empty" ~> output = "empty" \/ stage = "halted"
=============================================================================
