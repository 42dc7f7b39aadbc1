----------------------------- MODULE Descriptors ----------------------------
(***************************************************************************)
(* The descriptors that gdt.c and interrupts.c write into memory, and what *)
(* the CPU reads there.  Addresses and descriptors are sequences of bytes, *)
(* the least significant first, in the order of the packed structs.        *)
(***************************************************************************)
EXTENDS Naturals, Sequences

Byte == 0 .. 255
Address == [1 .. 8 -> Byte]

-----------------------------------------------------------------------------
(* gdt.c.                                                                  *)

GDT_TSS == 137       \* 0x89, which includes GDT_PRESENT
TSS_SELECTOR == 40   \* 0x28, entry 5

(* Mutant: base_high is taken from the middle of the base.                 *)
SetGateMiddle(base, limit, access, gran) ==
  << limit % 256, (limit \div 256) % 256, base[1], base[2], base[3], access,
     ((limit \div 65536) % 16) + 16 * (gran \div 16), base[3] >>

(* limit_low, base_low, base_middle, access, granularity, base_high.       *)
gdt_set_gate(base, limit, access, gran) ==
  << limit % 256, (limit \div 256) % 256, base[1], base[2], base[3], access,
     ((limit \div 65536) % 16) + 16 * (gran \div 16), base[4] >>

(* The same struct again for the upper half, with its own fields.          *)
tss_high(base) == << 0, 0, base[5], base[6], base[7], 0, 0, base[8] >>

-----------------------------------------------------------------------------
(* interrupts.c: offset_low, selector, ist, type_attr, offset_mid,         *)
(* offset_high, reserved.                                                  *)

idt_set_gate(handler, selector, flags) ==
  << handler[1], handler[2], selector % 256, selector \div 256, 0, flags,
     handler[3], handler[4], handler[5], handler[6], handler[7], handler[8],
     0, 0, 0, 0 >>

-----------------------------------------------------------------------------
(* The CPU in 64-bit mode: a TSS descriptor is two entries long, and the   *)
(* upper one has the rest of the base in its first four bytes; the type in *)
(* the upper one must be 0.                                                *)

SegmentBase(low, high) ==
  << low[3], low[4], low[5], low[8], high[1], high[2], high[3], high[4] >>
SegmentLimit(low) == low[1] + 256 * low[2] + 65536 * (low[7] % 16)
AvailableTss(low, high) == low[6] = 137 /\ high[6] % 32 = 0

(* The low 32 bits of the base, which lie as in an ordinary segment.       *)
SegmentBaseLow(low) == << low[3], low[4], low[5], low[8] >>

GateOffset(g) == << g[1], g[2], g[7], g[8], g[9], g[10], g[11], g[12] >>
GateSelector(g) == g[3] + 256 * g[4]

(* Present, executable, for ring 0, and 64 bits wide: what a gate in       *)
(* 64-bit mode must select.                                                *)
CodeSegment(entry) == entry[6] \div 8 = 19 /\ (entry[7] \div 32) % 2 = 1

(* Present, for ring 0, and entered with interrupts off, on the stack that *)
(* is in use.                                                              *)
InterruptGate(g) == g[6] = 142 /\ g[5] = 0
=============================================================================
