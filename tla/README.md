# Verification of valern

valern is a small x86-64 kernel: it boots through Limine, sets up its
descriptor tables, draws text on a framebuffer with a PSF font, drives a PS/2
keyboard by interrupts and runs a shell. This directory holds TLA+ modules
translated from its source, TLC configurations that check them on small
instances, and proofs of some of their properties for every value of the
constants. Paths below are relative to the directory above this one.

## The system

| Component | Source | State | Operations |
| --- | --- | --- | --- |
| Kernel entry | `src/src/main.c` | boot requests | `kernel` calls `gdt_init_tss`, `init_shell`, `interrupts_init`, `keyboard_init`, `shell`, in this order |
| Interrupts | `src/src/interrupts.c` | IDT, the two PICs, the CPU's interrupt flag | `interrupts_init`, `pic_init`, `keyboard_interrupt_stub`, `keyboard_isr` |
| Keyboard bring-up | `src/src/keyboard.c` 67-75, 199-235 | the controller's registers and output buffer | `keyboard_init` |
| Scancode translation | `src/src/keyboard.c` 20-58, 97-196, 255-270 | `key_state`, `extended_scancode` | `keyboard_interrupt_handler`, `process_scancode`, the modifier getters |
| Key buffer | `src/src/keyboard.c` 60-95, 237-253, 273-277 | `key_buffer`, `buffer_head`, `buffer_tail`, `buffer_count` | `keyboard_buffer_add` (interrupt); `keyboard_has_key`, `_getchar`, `_getchar_nonblock`, `_clear_buffer` (thread) |
| Console | `src/src/console.c` 17-126 | cursor, size, framebuffer, font | `init_shell`, `console_clear`, `draw_char`, `putChar` |
| printf | `src/src/console.c` 128-315 | none | `printf`, `int_to_str`, `uint_to_str`, `uint_to_hex_upper` |
| Shell | `src/src/console.c` 317-416 | `input_buffer`, `buffer_pos` | the loop of `shell`, `process_command` |
| PSF font loader | `src/src/psf.c` | the loaded font | `psf_load_font`, `psf_get_glyph`, `psf_unload_font` |
| GDT and TSS | `src/src/gdt.c` | descriptors, TSS | `gdt_init_tss` and the descriptor encoders |
| Memory and strings | `src/src/stdmem.c` | none | `memcpy`, `memset`, `memmove`, `memcmp`, `strlen`, `strcmp` |
| Ports | `src/src/port.c` | none | `inb`, `outb` |

How they interact. The keyboard controller raises IRQ 1; `keyboard_isr` calls
`keyboard_interrupt_handler`, which reads one byte, runs `process_scancode` on
it, possibly `keyboard_buffer_add`, and sends the end of interrupt.
The kernel thread waits in `keyboard_getchar`, called from `shell`, which edits
a line and prints through `putChar`. The key buffer is the only memory that the
handler and the thread share, and the controller's data port is the only device
register that both read.

What is hard. There is one CPU and one interrupt source, so the concurrency is
that of a handler that may run between any two accesses of the thread:

- the ring's three variables are updated by both sides, one of them with a
  read-modify-write that a compiler may split;
- the test for a key and the `hlt` that follows are not one step;
- `keyboard_init` polls for bytes that the handler, already enabled, may read;
- the bytes of several keys may be on their way when a modifier changes, and
  some bytes mean something else after 0xE0;
- the erase sequence, the wrap and the clear at the bottom of the screen are
  each simple and are used together;
- keys are typed while the shell still prints, and wait.

The rest is sequential, and hard at its edges: what the boot loader answers and
a font file that does not load, messages printed before the console has a size,
descriptors whose fields are scattered over their bytes, framebuffer lines longer
than what is shown, overlapping copies, the least integer.

What makes each component correct: the key buffer hands over every accepted
key once and in order, and does not let a blocking caller sleep on a key; the
translation types what is engraved on the keys and knows which modifiers are
down; the bring-up ends, with the keyboard on and its configuration otherwise
as it was; the descriptors mean to the CPU what the code means by them; the
console keeps its cursor on the screen and its backspace exact, and the screen
shows the glyphs that the font has; the shell shows the line it holds and runs the
line that was typed; `printf` and the memory functions do what C says of
them, and return.

## Modules

| Module | What it models |
| --- | --- |
| `KeyQueue` | abstract: a bounded queue of characters |
| `KeyBuffer` | the ring of `keyboard.c`, at the grain of one access to a shared variable |
| `KeyBufferProofs` | its invariants, and that it implements `KeyQueue` |
| `Keyboard` | scancodes to characters: handler, tables, modifiers; with a keyboard that sends bytes |
| `KeyboardProofs` | that the driver catches up with the keys, for every keyboard and any number of bytes |
| `KeyboardInit` | `interrupts_init` and `keyboard_init` against the PIC, the controller and the keyboard |
| `Descriptors` | the GDT and IDT entries the code writes, and what the CPU reads in them |
| `Psf` | font headers, the place of a glyph, the size of the console |
| `Boot` | `kernel` from its entry to `shell`: boot loader's answers, TSS, font and console, then `KeyboardInit` |
| `BootProofs` | the bring-up of `KeyboardInit` for any number of scancodes, and that `Boot` does it; the gate and the TSS for every address; console and glyphs for every font and framebuffer |
| `Console` | `putChar` and `console_clear` on a grid of cells |
| `Framebuffer` | `Console` with the pixels that its two functions write |
| `ConsoleProofs` | cursor, erase sequence and reading order for every console |
| `FramebufferProofs` | that the pixels show the cells, for every framebuffer, font and scale |
| `LineEditor` | abstract: a line edited at its end and handed over by Enter |
| `Shell` | the loop of `shell` and `process_command`, on top of `Console` |
| `Terminal` | `Shell` as the client of the key buffer (`KeyQueue`) |
| `ShellProofs` | that the line stays in its buffer, that the screen shows it, that `Shell` implements `LineEditor`, and the same of `Terminal` with keys typed ahead |
| `StdMem` | the loops of `stdmem.c` over a small memory |
| `StdMemProofs` | that they are correct for every memory |
| `Format` | `printf` and its number conversions |
| `FormatProofs` | that `printf` prints what its format means, for every width of an int and every call C allows |
| `Library` | `StdMem` and `Format` in one run |

`MCKeyBuffer`, `MCKeyboard`, `MCKeyboardInit`, `MCBoot`, `MCConsole`,
`MCTerminal` and `MCLibrary` are the instances TLC runs. Definitions marked
`Mutant` are what a mistake in the code would look like: put in place of the
definition after them, they violate a property of a run.

### KeyBuffer

The four variables of the ring have their names from the source. `pc` says
where the thread is between two accesses: `HasKey` is the test of the wait
loop (keyboard.c:244), `Hlt` the instruction at 245, `TestCount`, `ReadSlot`,
`AdvanceTail` and `Decrement` the lines 88 to 91 of `keyboard_buffer_get`,
`ClearHead`, `ClearTail`, `ClearCount` the lines 274 to 276, which also open
`keyboard_init`. The gate of IRQ 1 is an interrupt gate, so an interrupt is one
action: `keyboard_buffer_add`, or `SilentInterrupt` for one that adds nothing
(a release, a modifier, a full buffer). Either ends `hlt`.

`buffer_count--` on a `volatile int` is a data race with the handler. Its
outcomes depend on the build: one instruction, or a load and a store with the
handler in between (what gcc emits for it). The constant `SplitDecrement` names
the build, and `Calls` the operations the client uses.

### Keyboard

`keyboard_interrupt_handler` takes one byte of `wire`, handles 0xE0 and the
byte after it, and calls `process_scancode`, which is the disjunction of its
cases: `SetModifier`, `ToggleLock`, `RegularKey`. `Ascii` is the choice of the
character: layout by shift, caps lock, Ctrl. The two tables are those of
lines 33-49, as numbers.

The keyboard is external: `Press`, `Repeat` and `Release` of the keys in
`Keys`, each putting its bytes on `wire`; keys of the 0xE0 group come with or
without the fake shift codes that real keyboards add; Pause has its own six
bytes. Here the buffer is `KeyQueue`: that the ring implements it is what
`KeyBuffer` shows. A behaviour begins when `keyboard_init` has cleared the
modifiers; up to `MaxHeld` keys are down then, and since the driver has not seen
them go down, the properties leave them out until they send something (`unseen`).
`held`, `caps_light`, `intended`, `delivered` and `lost`
record what the typist did and what the kernel got, for the properties.

What a key should type is not read from the driver's tables: `Keycaps` lists the
characters on the keys of a US keyboard, with their scancodes, and `Engraved` is the
one that the modifiers and the caps lock light call for. `LayoutFollowsKeys` compares
it with `Ascii` for all 128 codes, those without a character and those past the tables
among them. Two things are left out of the claim: Esc, which types nothing although
keyboard.h:11 defines `KEY_ESCAPE`, and the keypad, whose keys count as keys without a
character, except for the asterisk that the tables have.

Two remarks on what the model shows without a property: Pause contains the
scancode of NumLock and toggles `num_lock` (nothing reads it), and a repeated
CapsLock toggles again, since the handler does not look at whether the key is
already down. Only the press (`caps_light`, every make code) is compared.

### KeyboardInit

The thread's steps are `pic_init`, `lidt`, `sti`, then one action per port
access of `keyboard_init`: `WriteCommand` (with the wait for an empty input
buffer before it), `keyboard_wait_output`, `ReadData`. The polling loops spin
in `Spin`. The handler has three stages: taken, byte read, EOI sent. A byte in the
output buffer is known by where it comes from: the configuration, an
acknowledgement, a scancode. When the handler has taken the byte before the
thread's `inb`, the port gives the last byte again (`latch`).

A configuration byte is the set of those of its bits that matter: the controller's
interrupt (bit 0), the keyboard's disable bit (4), translation (6). `ReadData` sets
the first and clears the second in the byte it got (keyboard.c:215-218), whatever byte
that was, and `WriteCommand` writes the result (223). The controller takes the bits
from the byte, so what is enabled in the end follows from what the driver computed.

The controller, the keyboard and the PIC are external: the PIC latches IRQ 1
on a rising edge, the controller processes one written byte at a time and fills
its output buffer when that is empty, its answer coming before the keyboard's
bytes. The firmware used the controller, so translation is on; its interrupt and
the keyboard may each be on or off, and a key may have been typed before the kernel
starts.

### Boot

`stage` is where `kernel` is; the actions from `CheckRevision` to `LoadTr` are
the lines of `kernel` and `gdt_init_tss`, `load_font` to `Dimensions` those of
`init_shell`, `Messages` the calls of `printf` between the bring-up steps,
and `interrupts_init` and `keyboard_init` are the actions of `KeyboardInit` at
their places. The devices go on all the time.

Descriptors and addresses are sequences of bytes. `gdt_set_gate`, `tss_high` and
`idt_set_gate` are the assignments of the code in the byte order of the packed
structs; `SegmentBase`, `AvailableTss`, `GateOffset` and their like are what the CPU
makes of the bytes, so a field at the wrong place shows. `LoadTr` takes the
descriptor or faults, as `ltr` does. The boot loader's table has five entries in
front, the second of them for code, as gdt.c:20-24 assumes; that is external and not
checked. What is checked is that the gate's selector still finds a code segment within
the limit of the table that `gdt_init_tss` has loaded.

A font file is its header and its length, and a glyph is its offset. Of what
`printf` prints only the cursor is followed (`Printed`); before the console has a
size every character returns it to the corner.

### Console and Shell

A console is a record of cursor and cells, and `Put(con, ch)` is the whole of
`putChar`: `Perform` the character, `Wrap` at the right edge, `Scroll` (which
clears the screen) at the bottom. What a cell holds is the last character drawn in
it; `Residue` is what the boot loader left, since `init_shell` does not clear.

In `Shell` each case of the loop is an action (`HandleEnter`,
`HandleBackspace`, `HandleCtrlC`, `HandleCtrlL`, `HandleChar`), and what it
prints waits in `pending` until `Emit` has given it to `putChar` one character
at a time. `input_buffer` is a local array: its elements are `UNSPECIFIED`
until written. `process_command` is the chain of comparisons, with the commands
that only print in a table; `clear` and `reboot` have their own effects, and the
reset takes effect some time after it is requested.

`Framebuffer` conjoins to each action of `Console` the pixels it writes:
`DrawPixels` is the four loops of `draw_char` with their test against the size of
the framebuffer, `ClearPixels` the loops of `console_clear`. A pixel is at
`y * Pitch + x`, as in the code, and is ink or paper (or residue); colours are left
out, every call having the console's background. The early returns of `draw_char`
(no font, no glyph: console.c:69 and 76) are left out too: `init_shell` has loaded a
font, and the fonts here have a glyph for every character that is printed.

`Terminal` puts `KeyQueue` in front of `Shell`: `keyboard_buffer_add` at any time,
`keyboard_getchar` when the shell has printed everything, `Restart` when the kernel
starts again and `keyboard_init` empties the buffer.

### StdMem and Format

One action of `StdMem` is one iteration of a loop, with its test. `MemCall` picks
the memory and the arguments, with the preconditions of C: regions inside the
memory, `memcpy` without overlap, strings that end. One action of `Format` is one
directive or one digit. `Allowed` says what C asks of a call: an argument of its type
for every directive. The `info` command does not keep to it: console.c:400-405 passes
`size_t` and `uint64_t` values to `%d`. On x86-64 the low half is taken, which is the
whole of any size of a screen; `Calls` has the arguments as the `int`s they become.

`PrintsMeaning` compares the output with `Meaning`, which finds the directives from
the runs of `%` and the digits by division by powers, not by the loops of the code,
and gives every argument the text that it asks for, whatever the code makes of it. Two
arguments are known not to get it and are excepted (`Unprintable`): the least integer
under `%d`, since `-value` is undefined for it (console.c:142), and a pointer that does
not fit in an `unsigned int` under `%p` (console.c:292). A call with one of them must
still use up its arguments and stay inside its arrays. The model has what a build can
make of the least integer: no digit or one of them (`OverflowTexts`), because
`value > 0` may be tested before the first digit or after it, or the correct digits.

## Checks

TLC runs, each with its configuration:

| Run | Shows | Bounds |
| --- | --- | --- |
| `key_buffer_atomic` | the ring implements the bounded queue (`ImplementsQueue`); head, tail and count agree (`RingAgrees`) and no key is left in an "empty" ring (`NoStrandedKey`), both for an indivisible decrement only | 3 slots, 3 characters: head and tail wrap separately and the buffer fills; 3 characters tell order and loss apart |
| `key_buffer_split` | with the split decrement and `clear` as well, indices and count stay in range (`TypeOK`), a blocking read finds its key (`GetcharFindsKey`), a slot that is read was written (`ReadsWrittenSlot`); while somebody types, the thread goes on to take the keys that the count shows (`KeyDelivered`) | 3 slots, 2 characters, every operation |
| `split_strands_key` | counterexample: see Findings | 2 slots |
| `hlt_misses_key` | counterexample | 2 slots |
| `keyboard` | the characters delivered are those the strokes call for, in order, missing ones only by a full buffer (`TypedAsEngraved`); the modifiers are the keys that are down (`ModifiersTrackKeys`); in every state reached, each of the 128 codes but Esc would type what a US keyboard has engraved on its key, or nothing (`LayoutFollowsKeys`) and every character can be typed (`EveryCharacterTypeable`) | both Shifts, Ctrl, Alt, CapsLock, A, right Ctrl; 2 keys down at once, 2 bytes outstanding (more for one key's own sequence), 2 characters typed, 1 in the buffer |
| `boot` | `ltr` does not fault and the TSS is right where both layouts agree (`TssLoaded`); no interrupt before its table and vector are ready (`InterruptsReady`), and its gate leads to the stub through a code segment (`GateServesKeyboard`); the glyph of every character is the font's and lies in the file (`GlyphsOfTheFont`); after `init_shell` the cursor is on a console that is on the screen, and the shell starts in column 0 (`ConsoleReady`); when `keyboard_init` returns, the keyboard, its interrupt and IRQ 1 are on, however they were before (`DoneMeansEnabled`); no byte stays in the output buffer (`ByteServed`) | every answer of the boot loader, the controller's interrupt and the keyboard on or off, 7 font files of both formats and of none, 2 screens (one shorter than the messages), 2 scancodes waiting, any number over time |
| `tss_misplaced` | counterexample: see Findings | no scancodes |
| `keyboard_init_stuck`, `keyboard_init_config` | counterexamples | 1 scancode |
| `console` | cursor on the screen, exact erase, reading order, for every sequence of characters and clears; every cell shows its glyph, pixel by pixel (`ScreenShowsCells`), and no pixel behind the end of a line is written (`PaddingUntouched`) | 3 by 2 cells of 4 by 4 pixels, a margin of 1 pixel right and below, a padding of 2, 2 glyphs |
| `shell` | the screen shows prompt and line (`LineOnScreen`), nothing stale is ahead of the cursor (`NothingAhead`), commands are the lines edited (`ImplementsLineEditor`), and each key that the buffer takes edits the line as if it were handled at once (`ImplementsTypeAhead`); a full buffer has room again (`RoomAgain`) | 3 by 2 cells, lines of at most 2 characters after a prompt of 2, one command of each kind, 2 keys waiting; lines wrap, fill the buffer and cross the bottom of the screen |
| `library` | `memcpy`, `memmove` and `memset` write what they should and nothing else (`WritesExactly`), `strlen`, `memcmp` and `strcmp` return the right length or sign (`ResultsCorrect`) and stay inside their strings (`ReadsInside`); `printf` prints what its format means, the least integer and long pointers excepted, and always uses up its arguments (`PrintsMeaning`) within its local arrays (`FormatTypeOK`); every call returns (`CallsReturn`) | memories of 5 bytes of 3 values with every pair of regions; every number of 8 bits under every conversion; every format of up to 4 characters from `% d s c q`, and the least integer twice in one format |

The ring, the editor and the console do not look at characters beyond
comparing them with control codes, so two or three are enough. Their only
arithmetic is at boundaries (the end of the array, a row, the screen), and the
instances reach every boundary in combination; the proofs below remove the
bounds. In `Keyboard` the state that decides what
a byte does is the modifiers and the 0xE0 flag, all of which the run visits
in every combination that the keys in play can produce; `LayoutFollowsKeys` asks
about all the other keys in each of these states, so that one letter is enough
to press. `MaxHeld` is 1: what one key does that was down at `keyboard_init`, another
does too.

Five bytes are enough for every relation of two regions (apart, touching,
overlapping from either side, equal) and three values for less, equal and greater with
a terminator. The integers of `Format` have 8 bits where the code has 32
(`IntBits`; 8 and 32 both make the least integer end in the digit 8): all of them
are printed. The proofs about `StdMem` and `Format` have no bound.

Deadlock is checked in every run.

### Fairness

`FairThread`: the CPU goes on executing the thread when it is not halted
(`WF(Thread)`; `Thread` has no action in state `halted`). It says nothing of
the keyboard. `FairTyping` adds that a halted CPU is interrupted again, as it is
while somebody types: a press, its repetition and its release each interrupt.
`KeyDelivered` holds under the second and not under the first, which is the
finding on `hlt`. `FairSpec` of `KeyboardInit`: the thread and the handler
execute and the devices answer commands and deliver their bytes; no fairness is
put on typing. `BootFairSpec` says the same of the thread in all of `kernel`.
`TerminalFairSpec`: the CPU runs the shell; nothing says that a key is typed.
`LibraryFairSpec`: a call that was made runs.

### Findings

Runs that expect a violation, each of a statement in the repository:

- `split_strands_key`: an interrupt between the load and the store of
  `buffer_count--` (keyboard.c:91) loses its increment. The key is in the ring and
  `keyboard_has_key` denies it; later keys come out one late.
- `hlt_misses_key`: an interrupt between the test and `hlt`
  (keyboard.c:244-245) leaves a key in the buffer and the CPU asleep until the next
  interrupt.
- `keyboard_init_stuck`: interrupts are on when `keyboard_init` polls for its
  answers; the handler reads one, and the polling loop (keyboard.c:72-75) never
  ends. It rests on the controller raising IRQ 1 for its answers too, which PS/2
  controllers do while the interrupt bit is set.
- `keyboard_init_config`: a scancode that is in the output buffer is read as
  the configuration byte (keyboard.c:215) and written back as the configuration.
- `tss_misplaced`: the second half of the TSS descriptor is filled through the
  fields of an ordinary entry (gdt.c:75-77), while the CPU reads bits 32 to 63 of
  the base in its first four bytes. `ltr` does not notice; the base it loads is another
  address than that of `tss`. Nothing uses the TSS as long as no stack is switched,
  which is why the kernel runs.

Seen in the model and no findings:

- the least integer is printed as `-`, `-(` or correctly, and `%p` prints the lower half
  of a pointer: nothing in the repository says otherwise, C leaves the first open, and
  `PrintsMeaning` excepts both;
- Esc types nothing, although keyboard.h:11 has a code for it: a code defined is no
  statement that the key produces it, and nothing uses it;
- `glyph_count` is 512 for the font that is linked in, which has 256 glyphs. Only
  glyphs of bytes are drawn, so `GlyphsOfTheFont` does not meet the others;
- the message that the font failed clears the screen at every character and leaves
  nothing of itself.

## Proofs

`tlapm` checks the eight `*Proofs` modules. Every invariant and every refinement that a
run checks on a small instance is a theorem there for every value of the constants; what
is not is listed at the end of this section.

### Assumptions

The constants are assumed to be what the modules' `ASSUME`s say and TLC evaluates:

- the ring and the key buffer of the shell have at least one slot, and a NUL is no character;
- the console has at least one cell, and its glyphs are no control characters. The line
  buffer has at least one element, keys that insert a character insert one that is
  printable and not the terminator, and prompt and replies consist of characters that
  `printf` can print;
- the visible part of a framebuffer line fits in it, a font is 1 to 8 pixels wide, blank
  is blank, and what the boot loader left in a cell (`Residue`) is no character;
- no key has the code 0x60, which would end in the byte 0xE0 when it is released. No key
  of a PC keyboard has it. TLC has no such key in its instance, and the proof needed the
  assumption;
- addresses have 8 bytes, the boot loader's table has five entries of which the second
  is a code segment (what the code builds on and cannot see), and a linked font
  that `psf_load_font` takes holds what its header says and leaves room for at least one
  character on the framebuffer. The code does not check that: with a larger font, the
  console has no column. The message that ends the output of `kernel` ends in a newline;
- any memory and any largest byte; an int of any number of bits (at least four), and
  every format with arguments of the types its directives ask for.

### Induction

The library's induction theorems take an operator as a parameter, which the provers here
do not instantiate. `NatLessThanWellFounded` and `WFMin` take none: from them `LeastNat`
(every set of naturals that is not empty has a least element) and `SetInduction` (a set
that has 0, and with every number the next, has all) are proved once in each module that
needs them, and induction is then over a set of numbers. That a recursive function on
`0 .. n` exists is proved with it as well, since its definition is a `CHOOSE`
(`PowersExist`, `CourseExists`, `PathExists`); the `FoldSet` of `draw_char` is followed by induction over
the set. Only `RECURSIVE` operators stay out of reach, and no module has one.

### Key buffer

For every size, character set, build and client:

- `TypeCorrect` and `GetcharNeverEmpty`. The inductive invariant is
  `IInv == TypeOK /\ CountHeld`. `TypeOK` alone is not inductive: the store of
  the split decrement writes `count_reg - 1`, which is in range only because the
  loaded value was positive and is still a lower bound of the count. `CountHeld`
  says that: the handler only adds, so what the thread has seen stays true.

For an indivisible decrement and a client without `clear`
(`AtomicDecrement`), the conditions that the findings show to be needed:

- `RingSound`: `RingAgrees /\ NoStrandedKey`. `RInv` adds `RingAgrees` to
  `IInv`: the head is the tail plus the keys that wait, modulo the size, and the
  counted slots hold characters. The modulus of sums is settled once
  by `ModWrap`, since every sum involved is below twice the size.
- `QueueImplemented`: `Spec => ImplementsQueue`, with the queue read back from
  the head (`Buffered`). `keyboard_buffer_add` maps to `Add`, `Decrement` to `Get`,
  an unsuccessful get to `GetNone` and every other step to a stutter.
- `RingConsistent`: `RingAgrees` by itself.

And for every build and client again, `ReadsOnlyWritten`: a slot that is read was
written. With `clear` and the split decrement head, tail and count disagree, so
`RingAgrees` is no help. What holds (`WInv`) is weaker: the slots from the tail on
to the head are written, and there are at least as many of them as keys that the
thread may still take, unless all slots are written.

### Scancode translation

For every set of keys, any number held at once, any number of bytes on their way and every
size of the buffer:

- `ModifiersAreTheKeys`, `LayoutIsEngraved`, `TypesWhatIsEngraved`, `AllTypeable` and
  `KeyboardTypeCorrect`. The properties about modifiers and layouts speak of states in which every byte was read,
  and no such property is inductive: keys go down and up while bytes wait. The driver is
  therefore made a machine of its own (`Step`, on the modifiers, the 0xE0 flag and the
  characters called for), and the invariant `KInv` says that there is a state `d` which the
  driver reaches by the bytes on the wire (`CatchesUp`), that this state knows the keys
  (`Settled`), and that what was called for so far is what was delivered, waits or was
  lost (`Accounted`). A byte that the keyboard sends moves `d`; a byte that the handler
  takes moves the driver towards it. The keys are then cases of `d` alone: a modifier, a
  lock key, a key of the 0xE0 group with or without its fake shifts, Pause, and all others.
  That the driver's tables say what the keycaps say is `KeycapIsTable`, entry by entry;
  codes past the tables have no keycap.

### Console and framebuffer

For every width, height and glyph set:

- `CursorOnScreen`: the cursor leaves the console by at most one column or one
  row inside `putChar` (`Loose`), never both, and `Wrap` and `Scroll` bring it back.
- `EraseCorrect`: echo followed by `"\b \b"` restores the cursor and blanks the
  cell, also when the echo wrapped, except in the last cell.
- `ReadingOrder`: a character moves the cursor on by one cell.

For every framebuffer, pitch, font and scale:

- `CellsAreShown` and `PaddingKept`. Two pixels of the console, of one cell or of two, have
  different addresses (cells and pixels are digits of an address in mixed bases, and the
  pitch is at least the width), so that the writes of `draw_char`, in whatever order,
  leave each pixel of the cell with its own color and every other address as it was. The
  invariant `FramebufferInv` is that of the pixels with the types of cells and cursor.

### Kernel entry and keyboard bring-up

For any number of scancodes:

- `InterruptsInOrder` and `EnabledWhenDone`. The inductive invariant is
  `TypeOK /\ Labels /\ InterruptOrder /\ ConfigOrder`: `Labels` confines the
  thread to the steps of its program; `InterruptOrder` ties the interrupt flag, the
  mask and the table to the step the thread has reached; `ConfigOrder` follows the byte
  from `ReadData`, where the interrupt bit is in it and the disable bit is not, through
  the input buffer to the controller, which takes it at its own time, while the handler
  may take any byte meanwhile; only then can the thread be done. `BringUpTypeCorrect` is its first conjunct.
- `BootIsKeyboardInit`: `BootSpec => Spec`, each step of `kernel` being one of
  `KeyboardInit` or a stutter there; `KeyboardReadyAtBoot` is the two results again,
  for the whole of `kernel`.

For every address, font, framebuffer and message:

- `GateServed`: the table holds the one gate from
  the step before `pic_init` on, and `vector_base` is set by `pic_init`, so with
  `InterruptsReady` no interrupt meets another table or vector. That its selector finds
  a code segment in the table rests on `TssInv`: `gdt_init_tss` leaves the loader's
  entries alone, and the limit never excludes them.
- `TssAccepted`, for every table of the boot loader: the
  invariant follows the two entries through the steps of `gdt_init_tss` up to the busy bit
  that `ltr` sets.
- `ConsoleIsReady`. The console has no size until its font is known, and a message may be printed
  before; `ConsoleInv` says that until then the cursor is in the corner, from which no character
  moves it, and that afterwards the size is that of the framebuffer in characters and the
  cursor is inside. That a message of any length keeps this is an induction over its
  characters (`PrintedStays`).
- `GlyphsRight`: the offset that `psf_get_glyph` computes is that of the
  character's glyph and lies in the file, for fonts of both formats that hold what their
  header says.
- `BootTypeCorrect`: descriptors, limits, vectors and the console have their types.

### Shell

For every size of console and line, and every table of commands:

- `ShellTypeCorrect`. The inductive invariant is `ShellTypeOK /\ LineTyped`:
  without `LineTyped` (the elements before `buffer_pos` have been written) the
  string that Enter terminates could hold an unspecified element. `EnteredString`
  is the step that matters: the terminator that Enter stores is the first NUL of the
  buffer, so the string is the line, whatever older lines left behind it.
- `EditsLines`: `ShellSpec => ImplementsLineEditor`. Each case of the loop maps to
  the editor's action of the same meaning; output and ignored keys are stutters,
  the reset maps to `Restart`.
- `ScreenShowsLine` and `NothingStaleAhead`. The shell never looks at the screen: what it
  shows is right only because of what was printed since the last clear. `ScreenInv` says
  what is true while output waits. Either the shell is printing: prompt and line are shown
  as far as they are printed, the rest of them waits at the end of `pending`, and the cells
  ahead are blank. Or it is erasing (`Erasing`), and the three characters of the erase
  sequence are at one of their places. A line that crosses the bottom of the screen loses its beginning
  and keeps the invariant, which speaks of the cells that are left.

With the key buffer in front, for every size of it:

- `TerminalIsShell` (`TerminalSpec => ShellSpec`, interrupts
  being stutters) carries these results over (`TerminalEditsLines`, `TerminalShowsLine`).
- `TypesAhead`: `TerminalSpec => ImplementsTypeAhead`. What the keys that wait will make of
  the line is a fold over them (`EditAll`); the proof is that a key at the end
  of the queue edits the result (`EditOneMore`) and a key taken from its head leaves the
  result alone (`EditFirst`), by induction over the keys.

### Memory, strings and printf

For every memory and every largest byte:

- `WritesCorrect`, `ResultsFound`, `StringsReadInside`, `MemTypeCorrect`. The
  invariant `MemInv` is the type invariant and the invariant of each loop. That of
  `memmove` is the one that matters: while it copies upwards the bytes from `i` on, and
  while it copies downwards those below `i`, are still those of the call at
  the source, because the side that is written is the one already read. That of
  `strcmp` says that the strings agree and have not ended before `i`.

For every width of an int and every call that C allows:

- `PrintsWhatIsMeant` and `FormatTypeCorrect`. The invariant `FInv`: between directives,
  what was printed is what the format means up to `ptr` (`Printed`), the number of `%` just
  before `ptr` is even (`Between`), so that the loop and `Meaning` see the same
  directives, and `used` counts the directives that take an argument. Inside one, what was
  printed with what is still to come of the conversion is that with the directive's text
  (`Owed`). For a number, dividing by the base again and again is dividing by its powers
  (`QuotientTwice`), so `temp` holds the last digits of the number and the loop ends at
  the one length its numeral has (`LengthUnique`). The arrays suffice because a digit in base 10 or 16 stands for more
  than three bits (`PowerBeatsBits`): a number has at least two digits less than bits.
  The invariant is about what the code prints, `OverflowTexts` included; that this is
  what was asked for, unless an argument is `Unprintable`, is the last step
  (`PrintedIsMeant`).

### Only model-checked

Liveness, since fairness and ENABLED are out of the prover's reach: `KeyDelivered`,
`ByteServed`, `RoomAgain` and `CallsReturn`. The five
findings are counterexamples of TLC.

## Plan

1. Done: `KeyQueue`, `KeyBuffer`, `Keyboard`, `KeyboardInit`, `Console`,
   `LineEditor`, `Shell`, and their proofs.
2. Done: `Descriptors`, `Psf` and `Boot`, the pixels in `Framebuffer`, `StdMem`,
   `Format` and `Library`, the shell with its key buffer in `Terminal`.
3. Done: proofs of every invariant and refinement that a run checks.
4. Open: `Keyboard` from before `keyboard_init` on, with a scancode of two bytes of
   which `keyboard_init` reads one.
5. Open: the ring of `KeyBuffer` in the place of `KeyQueue` in `Terminal`, and
   what a client that clears may rely on.

## Not modelled

The limine headers and the boot protocol (third party), the font bitmaps
(data) and the build scripts. `inb` and `outb` are single instructions whose
effect is in `KeyboardInit` and `Shell`. Colours and the wording of messages are
abstracted.

Functions that nothing calls: `psf_unload_font`, `tss_set_kernel_stack`, `get_tss`
and the selector getters of `gdt.c`.

Inputs that cannot occur with the repository's build: font files whose header
disagrees with their size, and glyphs wider than 8 pixels, for which `draw_char` would
shift by a negative number (`FramebufferAssumption` states the bound). A boot
loader's table of another size than five entries is outside the source, as is
the check of some CPUs that the base of the TSS is canonical.

The ring itself is not in `Terminal`, which uses `KeyQueue`; that the ring is such a
queue is `ImplementsQueue`, for a build with an indivisible decrement. What the
other build and the window before `hlt` do to the shell is what the findings say
of the ring: a key late. The interrupt that comes between the resets of
`keyboard_init` leaves head and count disagreeing in the same way.

Spurious interrupts and the second PIC are left out: nothing in the code
handles them apart from the end of interrupt.
