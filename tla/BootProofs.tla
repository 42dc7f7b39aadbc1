----------------------------- MODULE BootProofs -----------------------------
(***************************************************************************)
(* Proofs about KeyboardInit, for any number of keys typed meanwhile, and  *)
(* then about Boot, for all addresses, fonts, framebuffers and messages.   *)
(* What is proved of KeyboardInit carries over to Boot, which does its     *)
(* steps and no others.                                                    *)
(***************************************************************************)
EXTENDS Boot, WellFoundedInduction, TLAPS

Commands == {"0xAE", "0x20", "0x60", "0xF0", "0x01"}

Labels == {"pic_init", "lidt", "sti", "enable", "read_config", "wait_config",
           "config", "write_config", "send_config", "set", "wait_ack", "ack",
           "set_1", "wait_ack_1", "ack_1", "done"}

(* Where the thread is before interrupts are on, before the configuration  *)
(* is read, and after it is written back and taken by the controller.      *)
BeforeSti == {"pic_init", "lidt", "sti"}
ConfigRead == {"write_config", "send_config", "set"}
ConfigTaken == {"wait_ack", "ack", "set_1", "wait_ack_1", "ack_1", "done"}

(* The order of interrupts_init.                                           *)
InterruptOrder ==
  /\ pc # "pic_init" => ~masked
  /\ pc \notin {"pic_init", "lidt"} => idt_loaded
  /\ IF_flag => pc \notin BeforeSti
  /\ handler # "idle" => IF_flag

(* The configuration bits that keyboard.c:217-218 set and clear.           *)
Enabling(bits) == "interrupt" \in bits /\ "disabled" \notin bits

(* What the thread has read, and what it has last written to a controller  *)
(* that takes one write at a time.                                         *)
ConfigOrder ==
  /\ output # "empty" => latch = output
  /\ pc \in ConfigRead => Enabling(config)
  /\ pc \notin {"send_config", "set"} => input # "0x60" /\ awaiting # "controller"
  /\ pc = "send_config" =>
       \/ input = "0x60" /\ awaiting # "controller"
       \/ input = "empty" /\ awaiting = "controller"
  /\ pc = "set" =>
       \/ input = "config" /\ awaiting = "controller" /\ input_bits = config
       \/ input = "empty" /\ awaiting # "controller" /\ Enabling(configuration)
  /\ pc \in ConfigTaken => Enabling(configuration)

IInv ==
  /\ TypeOK
  /\ pc \in Labels
  /\ input \in Commands \cup {"config", "empty"}
  /\ InterruptOrder
  /\ ConfigOrder

LEMMA InitIInv == Init => IInv
<1> SUFFICES ASSUME Init PROVE IInv
  OBVIOUS
<1>1. keyboard \in Seq(Bytes)
  BY DEF Init
<1>2. TypeOK
  BY <1>1 DEF Init, TypeOK, Bytes
<1>3. pc \in Labels /\ input \in Commands \cup {"config", "empty"}
  BY DEF Init, Labels
<1>4. InterruptOrder /\ ConfigOrder
  BY DEF Init, InterruptOrder, ConfigOrder, BeforeSti, ConfigRead, ConfigTaken
<1> QED
  BY <1>2, <1>3, <1>4 DEF IInv

LEMMA WriteIInv ==
  ASSUME IInv, WriteCommand
  PROVE  IInv'
<1> USE DEF WriteCommand, Write, Goto
<1>1. TypeOK'
  BY DEF IInv, TypeOK, cpu_vars, pic_vars, output_vars, device_vars
<1>2. /\ pc' \in Labels
      /\ input' \in Commands \cup {"config", "empty"}
  BY DEF IInv, Labels, Commands, ConfigOrder, ConfigRead
<1>3. InterruptOrder'
  BY DEF IInv, InterruptOrder, BeforeSti, cpu_vars, pic_vars
<1>4. ConfigOrder'
  BY DEF IInv, ConfigOrder, ConfigRead, ConfigTaken, Bytes, output_vars, device_vars
<1> QED
  BY <1>1, <1>2, <1>3, <1>4 DEF IInv

LEMMA InterruptsInitIInv ==
  ASSUME IInv, pic_init \/ LoadIdt \/ EnableInterrupts
  PROVE  IInv'
<1> USE DEF pic_init, LoadIdt, EnableInterrupts, Goto
<1>1. TypeOK'
  <2>1. IF_flag' \in BOOLEAN /\ idt_loaded' \in BOOLEAN
    BY Zenon DEF IInv, TypeOK, cpu_vars
  <2>2. masked' \in BOOLEAN /\ requested' \in BOOLEAN /\ in_service' \in BOOLEAN
    BY Zenon DEF IInv, TypeOK, pic_vars
  <2> QED
    BY <2>1, <2>2 DEF IInv, TypeOK, input_vars, output_vars, device_vars
<1>2. pc' \in Labels /\ UNCHANGED input
  BY DEF Labels, input_vars
<1>3. InterruptOrder'
  <2>1. CASE pic_init
    BY <2>1 DEF IInv, InterruptOrder, BeforeSti, cpu_vars
  <2>2. CASE LoadIdt
    BY <2>2 DEF IInv, InterruptOrder, BeforeSti, pic_vars
  <2>3. CASE EnableInterrupts
    BY <2>3 DEF IInv, InterruptOrder, BeforeSti, pic_vars
  <2> QED
    BY <2>1, <2>2, <2>3
<1>4. ConfigOrder'
  BY DEF IInv, ConfigOrder, ConfigRead, ConfigTaken, input_vars, output_vars, device_vars
<1> QED
  BY <1>1, <1>2, <1>3, <1>4 DEF IInv

LEMMA ThreadIInv ==
  ASSUME IInv, Thread
  PROVE  IInv'
<1> USE DEF IInv, TypeOK, Bytes, Commands, Labels, BeforeSti, ConfigRead, ConfigTaken,
            InterruptOrder, ConfigOrder, Goto, cpu_vars, pic_vars, input_vars,
            device_vars, output_vars
<1>1. CASE pic_init \/ LoadIdt \/ EnableInterrupts
  BY <1>1, InterruptsInitIInv
<1>2. CASE WriteCommand
  BY <1>2, WriteIInv
<1>3. CASE keyboard_wait_output
  BY <1>3 DEF keyboard_wait_output
<1>4. CASE ReadData
  <2>1. CASE pc = "config"
    <3>1. PICK bits \in LatchedBits : config' = (bits \cup {"interrupt"}) \ {"disabled"}
      BY <1>4, <2>1 DEF ReadData
    <3>2. config' \subseteq Bits /\ Enabling(config')
      BY <3>1 DEF LatchedBits, Bits, Enabling
    <3> HIDE DEF Enabling
    <3> QED
      BY <1>4, <2>1, <3>2 DEF ReadData
  <2>2. CASE pc # "config"
    BY <1>4, <2>2 DEF ReadData
  <2> QED
    BY <2>1, <2>2
<1> QED
  BY <1>1, <1>2, <1>3, <1>4 DEF Thread

LEMMA HandlerIInv ==
  ASSUME IInv, Handler
  PROVE  IInv'
<1> USE DEF Handler, TakeInterrupt, keyboard_interrupt_handler, EndOfInterrupt
<1>1. TypeOK'
  <2>1. handler' \in {"idle", "read", "eoi"}
    OBVIOUS
  <2>2. IF_flag' \in BOOLEAN /\ idt_loaded' \in BOOLEAN
    BY Zenon DEF IInv, TypeOK, cpu_vars
  <2>3. masked' \in BOOLEAN /\ requested' \in BOOLEAN /\ in_service' \in BOOLEAN
    BY Zenon DEF IInv, TypeOK, pic_vars
  <2>4. output' \in Bytes \cup {"empty"} /\ latch' = latch
    BY DEF IInv, TypeOK, output_vars
  <2> QED
    BY <2>1, <2>2, <2>3, <2>4 DEF IInv, TypeOK, input_vars, device_vars
<1>2. UNCHANGED <<pc, input>>
  BY DEF input_vars
<1>3. InterruptOrder'
  BY DEF IInv, TypeOK, InterruptOrder, BeforeSti, cpu_vars, pic_vars
<1>4. ConfigOrder'
  BY DEF IInv, ConfigOrder, ConfigRead, ConfigTaken, input_vars, output_vars, device_vars
<1> QED
  BY <1>1, <1>2, <1>3, <1>4 DEF IInv

(* The keyboard puts its answer before the scancodes it holds.             *)
LEMMA AckFirst ==
  ASSUME NEW bytes \in Seq(Bytes)
  PROVE  <<"ack">> \o bytes \in Seq(Bytes)
  BY DEF Bytes

LEMMA TakeCommandIInv ==
  ASSUME IInv, TakeCommand
  PROVE  IInv'
<1>1. requested' \in BOOLEAN
  BY DEF IInv, TypeOK, TakeCommand, Edge, Line1
<1>2. keyboard' \in Seq(Bytes)
  BY AckFirst DEF IInv, TypeOK, TakeCommand, device_vars
<1>3. /\ awaiting' \in {"keyboard", "controller", "set"} /\ reply' \in BOOLEAN
      /\ reply_bits' \subseteq Bits /\ configuration' \subseteq Bits
  BY DEF IInv, TypeOK, TakeCommand, device_vars
<1>4. TypeOK'
  BY <1>1, <1>2, <1>3 DEF IInv, TypeOK, TakeCommand, cpu_vars, output_vars
<1>5. pc' = pc /\ input' = "empty" /\ InterruptOrder'
  BY DEF IInv, InterruptOrder, TakeCommand, cpu_vars
<1>6. Enabling(configuration) /\ awaiting # "controller" => Enabling(configuration')
  BY DEF TakeCommand, device_vars, Enabling
<1>7. /\ input = "0x60" => pc = "send_config" /\ awaiting # "controller"
      /\ awaiting = "controller" => /\ pc = "set" /\ input = "config"
                                    /\ Enabling(input_bits)
  <2>1. input # "empty"
    BY DEF TakeCommand
  <2> QED
    BY <2>1 DEF IInv, ConfigOrder, ConfigRead, Bytes
<1>8. /\ input = "0x60" => awaiting' = "controller"
      /\ input # "0x60" => awaiting' # "controller"
      /\ awaiting = "controller" => Enabling(configuration')
  BY <1>7 DEF IInv, ConfigOrder, TakeCommand, Bytes
<1>9. ConfigOrder'
  BY <1>5, <1>6, <1>7, <1>8 DEF IInv, ConfigOrder, ConfigRead, ConfigTaken,
     TakeCommand, output_vars, Bytes
<1> QED
  BY <1>4, <1>5, <1>9 DEF IInv

LEMMA FillOutputIInv ==
  ASSUME IInv, NEW byte \in Bytes, FillOutput(byte), keyboard' \in Seq(Bytes), reply' \in BOOLEAN
  PROVE  IInv'
<1> USE DEF IInv, TypeOK, Bytes, Commands, Labels, BeforeSti, ConfigRead, ConfigTaken,
            InterruptOrder, ConfigOrder, cpu_vars, input_vars
<1>1. requested' \in BOOLEAN
  BY DEF FillOutput, Edge, Line1
<1> QED
  BY <1>1 DEF FillOutput

LEMMA DeviceIInv ==
  ASSUME IInv, Device \/ TypeKey
  PROVE  IInv'
<1>1. CASE TakeCommand
  BY <1>1, TakeCommandIInv
<1>2. CASE SendReply
  BY <1>2, FillOutputIInv DEF SendReply, IInv, TypeOK, Bytes
<1>3. CASE SendKeyboardByte
  <2>1. Head(keyboard) \in Bytes /\ keyboard' \in Seq(Bytes) /\ reply' \in BOOLEAN
    BY <1>3 DEF SendKeyboardByte, IInv, TypeOK
  <2> QED
    BY <1>3, <2>1, FillOutputIInv DEF SendKeyboardByte
<1>4. CASE TypeKey
  <2>1. keyboard' \in Seq(Bytes)
    BY <1>4 DEF TypeKey, IInv, TypeOK, Bytes
  <2> QED
    BY <1>4, <2>1 DEF TypeKey, IInv, TypeOK, InterruptOrder, ConfigOrder,
                      cpu_vars, pic_vars, input_vars, output_vars
<1> QED
  BY <1>1, <1>2, <1>3, <1>4 DEF Device

LEMMA NextIInv == IInv /\ [Next]_vars => IInv'
<1> SUFFICES ASSUME IInv, [Next]_vars PROVE IInv'
  OBVIOUS
<1>1. CASE Thread
  BY <1>1, ThreadIInv
<1>2. CASE Handler
  BY <1>2, HandlerIInv
<1>3. CASE Device \/ TypeKey
  BY <1>3, DeviceIInv
<1>4. CASE Spin \/ UNCHANGED vars
  BY <1>4 DEF Spin, IInv, TypeOK, InterruptOrder, ConfigOrder,
              vars, cpu_vars, pic_vars, input_vars, device_vars, output_vars
<1> QED
  BY <1>1, <1>2, <1>3, <1>4 DEF Next

(* A byte in the output buffer is always one that a device sent, and every *)
(* configuration that is written one that was read or taken for it.        *)
THEOREM BringUpTypeCorrect == Spec => []TypeOK
<1>1. IInv => TypeOK
  BY DEF IInv
<1> QED
  BY InitIInv, NextIInv, <1>1, PTL DEF Spec

(* IRQ 1 is never taken before the table it goes through is loaded and the *)
(* vector it comes under is set (interrupts.c:91-98), whatever is pending  *)
(* when the kernel starts.                                                 *)
THEOREM InterruptsInOrder == Spec => []InterruptsReady
<1>1. IInv => InterruptsReady
  BY DEF IInv, InterruptOrder, InterruptsReady, BeforeSti
<1> QED
  BY InitIInv, NextIInv, <1>1, PTL DEF Spec

(* If keyboard_init returns, the keyboard and its interrupt are enabled,   *)
(* whichever bytes the handler took from it and whatever it took for the   *)
(* configuration (keyboard.c:217-223).                                     *)
THEOREM EnabledWhenDone == Spec => []DoneMeansEnabled
<1>1. IInv => DoneMeansEnabled
  BY DEF IInv, InterruptOrder, ConfigOrder, ConfigTaken, Enabling, DoneMeansEnabled
<1> QED
  BY InitIInv, NextIInv, <1>1, PTL DEF Spec

-----------------------------------------------------------------------------
(* KeyboardInit as a part of Boot.                                         *)

(* A step of the kernel or of the devices, as the cases of the proofs.     *)
LEMMA DriverIsThread ==
  ASSUME DriverStep
  PROVE  Thread
<1>1. CASE interrupts_init
  BY <1>1 DEF DriverStep, interrupts_init, Thread
<1>2. CASE keyboard_init
  BY <1>2 DEF DriverStep, keyboard_init, Thread
<1> QED
  BY <1>1, <1>2 DEF DriverStep

LEMMA BootStepIsKeyboardStep ==
  ASSUME [BootNext]_boot_vars
  PROVE  [Next]_vars
<1>1. CASE KernelStep
  BY <1>1 DEF KernelStep
<1>2. CASE DriverStep
  BY <1>2, DriverIsThread DEF Next
<1>3. CASE Wait
  BY <1>3 DEF Wait, Next, boot_vars
<1>4. CASE (Handler \/ Device \/ TypeKey) /\ UNCHANGED <<stage, kernel_vars>>
  BY <1>4 DEF Next
<1>5. CASE UNCHANGED boot_vars
  BY <1>5 DEF boot_vars
<1> QED
  BY <1>1, <1>2, <1>3, <1>4, <1>5 DEF BootNext

(* kernel() brings the keyboard up as KeyboardInit says: what else it does *)
(* in between is a stutter there.                                          *)
THEOREM BootIsKeyboardInit == BootSpec => Spec
<1>1. BootInit => Init
  BY DEF BootInit
<1>2. [BootNext]_boot_vars => [Next]_vars
  BY BootStepIsKeyboardStep
<1> QED
  BY <1>1, <1>2, PTL DEF BootSpec, Spec

(* No interrupt is taken before its table is loaded, and the keyboard is   *)
(* enabled when keyboard_init returns, in the whole of kernel().           *)
THEOREM KeyboardReadyAtBoot == BootSpec => [](InterruptsReady /\ DoneMeansEnabled)
<1>1. BootSpec => Spec
  BY BootIsKeyboardInit
<1>2. Spec => []InterruptsReady
  BY InterruptsInOrder
<1>3. Spec => []DoneMeansEnabled
  BY EnabledWhenDone
<1> QED
  BY <1>1, <1>2, <1>3, PTL

-----------------------------------------------------------------------------
(* The gate of the keyboard.                                               *)

Gates == [v \in {33} |-> idt_set_gate(StubAddress, 8, 142)]

(* The table is filled before interrupts_init gets to the PIC, and stays.  *)
IdtInv ==
  /\ stage = "interrupts" => idt = Gates
  /\ pc # "pic_init" => idt = Gates /\ vector_base = 32

LEMMA KernelIdtInv ==
  ASSUME IdtInv, KernelStep
  PROVE  IdtInv'
<1>1. UNCHANGED pc
  BY DEF KernelStep, vars
<1>2. CASE FillIdt
  BY <1>1, <1>2 DEF FillIdt, Advance, IdtInv, Gates
<1>3. CASE ~FillIdt
  <2>1. stage' # "interrupts" /\ UNCHANGED idt_vars
    BY <1>3 DEF KernelStep, CheckRevision, ClearTss, SetTssLow, SetTssHigh, LoadGdt, LoadTr,
                CheckFramebuffer, load_font, FontLoaded, FontFailed, Dimensions, Messages,
                Say, Advance, kernel_vars
  <2> QED
    BY <1>1, <2>1 DEF IdtInv, idt_vars
<1> QED
  BY <1>2, <1>3

LEMMA DriverIdtInv ==
  ASSUME IdtInv, DriverStep
  PROVE  IdtInv'
<1>1. CASE interrupts_init
  <2>1. idt = Gates /\ UNCHANGED idt
    BY <1>1 DEF interrupts_init, IdtInv
  <2>2. CASE pic_init /\ vector_base' = 32
    BY <2>1, <2>2 DEF IdtInv, Gates
  <2>3. CASE (LoadIdt \/ EnableInterrupts) /\ UNCHANGED vector_base
    BY <2>1, <2>3 DEF IdtInv, LoadIdt, EnableInterrupts, Goto, Gates
  <2> QED
    BY <1>1, <2>2, <2>3 DEF interrupts_init
<1>2. CASE keyboard_init
  <2>1. pc # "pic_init" /\ UNCHANGED <<stage, idt, vector_base>>
    BY <1>2 DEF keyboard_init, WriteCommand, Write, keyboard_wait_output, ReadData, Goto,
                kernel_vars, idt_vars
  <2> QED
    BY <2>1 DEF IdtInv, Gates
<1> QED
  BY <1>1, <1>2 DEF DriverStep

LEMMA IdtInvariant == BootSpec => []IdtInv
<1>1. BootInit => IdtInv
  BY DEF BootInit, Init, IdtInv
<1>2. ASSUME IdtInv, [BootNext]_boot_vars
      PROVE  IdtInv'
  <2>1. CASE KernelStep
    BY <1>2, <2>1, KernelIdtInv
  <2>2. CASE DriverStep
    BY <1>2, <2>2, DriverIdtInv
  <2>3. CASE UNCHANGED boot_vars
    BY <1>2, <2>3 DEF IdtInv, Gates, boot_vars, vars, kernel_vars, idt_vars
  <2>4. CASE Wait
    BY <2>3, <2>4 DEF Wait
  <2>5. CASE (Handler \/ Device \/ TypeKey) /\ UNCHANGED <<stage, kernel_vars>>
    <3>1. UNCHANGED pc
      BY <2>5 DEF Handler, TakeInterrupt, keyboard_interrupt_handler, EndOfInterrupt, Device,
                  TakeCommand, SendReply, SendKeyboardByte, FillOutput, TypeKey
    <3> QED
      BY <1>2, <2>5, <3>1 DEF IdtInv, Gates, kernel_vars, idt_vars
  <2> QED
    BY <1>2, <2>1, <2>2, <2>3, <2>4, <2>5 DEF BootNext
<1> QED
  BY <1>1, <1>2, PTL DEF BootSpec

LEMMA GatesLead ==
  /\ GateOffset(Gates[33]) = StubAddress
  /\ GateSelector(Gates[33]) = 8
  /\ InterruptGate(Gates[33])
<1> DEFINE gate == idt_set_gate(StubAddress, 8, 142)
<1>1. Gates[33] = gate
  BY DEF Gates
<1>2. GateOffset(gate) = StubAddress
  BY BootAssumption DEF GateOffset, idt_set_gate, Address
<1>3. GateSelector(gate) = 8 /\ InterruptGate(gate)
  BY DEF GateSelector, InterruptGate, idt_set_gate
<1> QED
  BY <1>1, <1>2, <1>3

-----------------------------------------------------------------------------
(* The TSS.                                                                *)

TssLow == gdt_set_gate(TssAddress, TSS_SIZE - 1, GDT_TSS, 0)
BusyLow == [TssLow EXCEPT ![6] = 139]

BeforeLtr == {"entry", "tss", "tss_low", "tss_high", "lgdt", "ltr"}

(* What each step of gdt_init_tss leaves for the next one.                 *)
TssInv ==
  /\ DOMAIN gdt = 0 .. 6
  /\ \A n \in 0 .. 4 : gdt[n] = LoaderGdt[n + 1]
  /\ gdtr_limit \in {39, 55}
  /\ stage # "fault"
  /\ stage \in {"tss_high", "lgdt", "ltr"} => gdt[5] = TssLow
  /\ stage \in {"lgdt", "ltr"} => gdt[6] = tss_high(TssAddress)
  /\ stage = "ltr" => gdtr_limit = 55
  /\ stage \in {"tss_low", "tss_high", "lgdt", "ltr"} => tss_iopb = TSS_SIZE
  /\ stage \in BeforeLtr => tr = NULL
  /\ tr # NULL => gdt[5] = BusyLow /\ tss_iopb = TSS_SIZE

(* The CPU takes the descriptor of the TSS.                                *)
LEMMA DescriptorAvailable ==
  /\ AvailableTss(TssLow, tss_high(TssAddress))
  /\ SegmentLimit(BusyLow) = TSS_SIZE - 1
  /\ \A k \in 1 .. 4 : SegmentBaseLow(BusyLow)[k] = TssAddress[k]
<1>1. AvailableTss(TssLow, tss_high(TssAddress))
  BY DEF AvailableTss, TssLow, gdt_set_gate, tss_high, GDT_TSS
<1>2. BusyLow = << 103, 0, TssAddress[1], TssAddress[2], TssAddress[3], 139, 0, TssAddress[4] >>
  BY DEF BusyLow, TssLow, gdt_set_gate, TSS_SIZE
<1>3. SegmentLimit(BusyLow) = TSS_SIZE - 1
  BY <1>2 DEF SegmentLimit, TSS_SIZE
<1>4. SegmentBaseLow(BusyLow) = << TssAddress[1], TssAddress[2], TssAddress[3], TssAddress[4] >>
  BY <1>2 DEF SegmentBaseLow
<1> QED
  BY <1>1, <1>3, <1>4

LEMMA TssStep ==
  ASSUME TssInv,
         CheckRevision \/ ClearTss \/ SetTssLow \/ SetTssHigh \/ LoadGdt
  PROVE  TssInv'
<1> USE DEF Advance, TssInv, BeforeLtr
<1>1. CASE CheckRevision
  BY <1>1 DEF CheckRevision, kernel_vars, gdt_vars, TssLow, BusyLow
<1>2. CASE ClearTss
  BY <1>2 DEF ClearTss, TssLow, BusyLow
<1>3. CASE SetTssLow
  BY <1>3 DEF SetTssLow, TssLow, BusyLow
<1>4. CASE SetTssHigh
  BY <1>4 DEF SetTssHigh, TssLow, BusyLow
<1>5. CASE LoadGdt
  BY <1>5 DEF LoadGdt, TssLow, BusyLow
<1> QED
  BY <1>1, <1>2, <1>3, <1>4, <1>5

LEMMA LtrStep ==
  ASSUME TssInv, LoadTr
  PROVE  TssInv'
<1>1. stage = "ltr"
  BY DEF LoadTr, Advance
<1>2. /\ gdt[5] = TssLow /\ gdt[6] = tss_high(TssAddress)
      /\ gdtr_limit = 55 /\ tss_iopb = TSS_SIZE
  BY <1>1 DEF TssInv
<1>3. TSS_SELECTOR \div 8 = 5 /\ TSS_SELECTOR + 15 <= gdtr_limit
  BY <1>2 DEF TSS_SELECTOR
<1>4. /\ stage' = "framebuffer"
      /\ gdt' = [gdt EXCEPT ![5] = [TssLow EXCEPT ![6] = 139]]
      /\ UNCHANGED <<gdtr_limit, tss_iopb>>
  BY <1>2, <1>3, DescriptorAvailable DEF LoadTr, Advance
<1>5. gdt'[5] = BusyLow /\ DOMAIN gdt' = 0 .. 6 /\ \A n \in 0 .. 4 : gdt'[n] = gdt[n]
  BY <1>4 DEF TssInv, BusyLow
<1> QED
  BY <1>2, <1>4, <1>5 DEF TssInv, BeforeLtr, BusyLow, TssLow

(* Nothing else touches the table.                                         *)
LEMMA OtherStep ==
  ASSUME TssInv, UNCHANGED gdt_vars,
         \/ UNCHANGED stage
         \/ stage' \notin BeforeLtr \cup {"fault"}
  PROVE  TssInv'
BY DEF TssInv, BeforeLtr, gdt_vars, TssLow, BusyLow

LEMMA KernelTssInv ==
  ASSUME TssInv, KernelStep
  PROVE  TssInv'
<1>1. CASE CheckRevision \/ ClearTss \/ SetTssLow \/ SetTssHigh \/ LoadGdt
  BY <1>1, TssStep
<1>2. CASE LoadTr
  BY <1>2, LtrStep
<1>3. CASE \/ CheckFramebuffer \/ load_font \/ FontLoaded \/ FontFailed \/ Dimensions
           \/ Messages \/ FillIdt
  <2>1. UNCHANGED gdt_vars /\ stage' \notin BeforeLtr \cup {"fault"}
    BY <1>3 DEF CheckFramebuffer, load_font, FontLoaded, FontFailed, Dimensions, Messages, Say,
                FillIdt, Advance, kernel_vars, BeforeLtr
  <2> QED
    BY <2>1, OtherStep
<1> QED
  BY <1>1, <1>2, <1>3 DEF KernelStep

LEMMA TssInvariant == BootSpec => []TssInv
<1>1. ASSUME BootInit PROVE TssInv
  <2>1. gdt = [n \in 0 .. 6 |-> IF n < 5 THEN LoaderGdt[n + 1] ELSE Unset]
    BY <1>1 DEF BootInit
  <2>2. DOMAIN gdt = 0 .. 6 /\ \A n \in 0 .. 4 : gdt[n] = LoaderGdt[n + 1]
    BY <2>1
  <2>3. stage = "entry" /\ tr = NULL
    BY <1>1 DEF BootInit
  <2>4. gdtr_limit = 39
    <3>1. gdtr_limit = 5 * 8 - 1
      BY <1>1, Zenon DEF BootInit
    <3> QED
      BY <3>1
  <2> QED
    BY <2>2, <2>3, <2>4 DEF TssInv
<1>2. ASSUME TssInv, [BootNext]_boot_vars
      PROVE  TssInv'
  <2>1. CASE KernelStep
    BY <1>2, <2>1, KernelTssInv
  <2>2. CASE DriverStep
    <3>1. UNCHANGED gdt_vars /\ (UNCHANGED stage \/ stage' = "initialized")
      BY <2>2 DEF DriverStep, interrupts_init, keyboard_init, kernel_vars
    <3> QED
      BY <1>2, <3>1, OtherStep DEF BeforeLtr
  <2>3. CASE UNCHANGED <<stage, kernel_vars>>
    BY <1>2, <2>3, OtherStep DEF kernel_vars
  <2>4. CASE Wait \/ UNCHANGED boot_vars
    BY <2>3, <2>4 DEF Wait, boot_vars
  <2> QED
    BY <1>2, <2>1, <2>2, <2>3, <2>4 DEF BootNext
<1> QED
  BY <1>1, <1>2, PTL DEF BootSpec

(* When IRQ 1 is taken, its gate leads to the stub, wherever that lies,    *)
(* through the kernel's code segment: the boot loader's, which             *)
(* gdt_init_tss leaves in its place (gdt.c:20-24, interrupts.c:85).        *)
THEOREM GateServed == BootSpec => []GateServesKeyboard
<1>1. InterruptsReady /\ IdtInv /\ TssInv => GateServesKeyboard
  <2> SUFFICES ASSUME InterruptsReady, IdtInv, TssInv, handler # "idle"
               PROVE  GateServesKeyboard
    BY DEF GateServesKeyboard
  <2>1. idt = Gates /\ vector_base + 1 = 33
    BY DEF InterruptsReady, IdtInv
  <2>2. 33 \in DOMAIN Gates
    BY DEF Gates
  <2>3. 8 \div 8 = 1 /\ 8 + 7 <= gdtr_limit
    BY DEF TssInv
  <2>4. CodeSegment(gdt[1])
    <3>1. gdt[1] = LoaderGdt[2]
      BY DEF TssInv
    <3> QED
      BY <3>1, BootAssumption
  <2> QED
    BY <2>1, <2>2, <2>3, <2>4, GatesLead DEF GateServesKeyboard
<1> QED
  BY <1>1, KeyboardReadyAtBoot, IdtInvariant, TssInvariant, PTL

(* Loading the task register does not fault, and what the CPU has of the   *)
(* TSS is right in the half of the base that both layouts agree about,     *)
(* wherever the TSS lies.                                                  *)
THEOREM TssAccepted == BootSpec => []TssLoaded
<1>1. TssInv => TssLoaded
  <2> SUFFICES ASSUME TssInv PROVE TssLoaded
    OBVIOUS
  <2>1. tr # NULL => /\ \A k \in 1 .. 4 : SegmentBaseLow(gdt[5])[k] = TssAddress[k]
                     /\ SegmentLimit(gdt[5]) = TSS_SIZE - 1
                     /\ tss_iopb > SegmentLimit(gdt[5])
    BY DescriptorAvailable DEF TssInv, TSS_SIZE
  <2> QED
    BY <2>1 DEF TssInv, TssLoaded
<1> QED
  BY <1>1, TssInvariant, PTL

-----------------------------------------------------------------------------
(* The font and the size of the console.                                   *)

LEMMA Quotient ==
  ASSUME NEW n \in Nat, NEW m \in Nat \ {0}
  PROVE  n \div m \in Nat /\ (n \div m) * m <= n /\ (n >= m => n \div m # 0)
BY SMT

(* The fonts that init_shell may put in use, by the file that is linked in. *)
InUse(f, linked) ==
  \/ f = VgaFont /\ psf_load_font(linked) = NULL
  \/ f = psf_load_font(linked) /\ f # NULL

LEMMA LoadedFont ==
  ASSUME NEW linked, psf_load_font(linked) # NULL, WellFormed(linked)
  PROVE  /\ psf_load_font(linked) =
              [version |-> IF linked.magic = "psf1" THEN 1 ELSE 2,
               width |-> IF linked.magic = "psf1" THEN 8 ELSE linked.width,
               height |-> IF linked.magic = "psf1" THEN linked.charsize ELSE linked.height,
               glyph_size |-> linked.charsize,
               glyph_count |-> IF linked.magic # "psf1" THEN linked.length
                               ELSE IF linked.mode = 0 THEN 256 ELSE 512,
               glyph_buffer |-> IF linked.magic = "psf1" THEN PSF1_HEADER
                                ELSE linked.headersize]
<1>1. CASE linked.magic = "psf1"
  BY <1>1 DEF psf_load_font
<1>2. CASE linked.magic = "psf2"
  BY <1>2 DEF psf_load_font
<1> QED
  BY <1>1, <1>2 DEF WellFormed

(* A font in use has dimensions, and the framebuffer has room for it.      *)
LEMMA FontFits ==
  ASSUME NEW linked \in Fonts, NEW screen \in Framebuffers, NEW f, InUse(f, linked)
  PROVE  /\ f.width \in Nat \ {0} /\ f.height \in Nat \ {0} /\ HasRoom(screen, f)
         /\ screen.width \in Nat /\ screen.height \in Nat
<1>1. screen.width \in Nat /\ screen.height \in Nat
  BY BootAssumption
<1>2. CASE f = VgaFont /\ psf_load_font(linked) = NULL
  <2>1. f.width = 8 /\ f.height = 16
    BY <1>2 DEF VgaFont
  <2>2. HasRoom(screen, VgaFont)
    BY <1>2, BootAssumption
  <2> QED
    BY <1>1, <1>2, <2>1, <2>2
<1>3. CASE f = psf_load_font(linked) /\ f # NULL
  <2>1. WellFormed(linked) /\ HasRoom(screen, f)
    BY <1>3, BootAssumption
  <2>2. f.width \in Nat \ {0} /\ f.height \in Nat \ {0}
    BY <1>3, <2>1, LoadedFont DEF WellFormed
  <2> QED
    BY <1>1, <2>1, <2>2
<1> QED
  BY <1>2, <1>3 DEF InUse

(* The console has cells, and they are all on the framebuffer.             *)
LEMMA ConsoleFits ==
  ASSUME NEW linked \in Fonts, NEW screen \in Framebuffers, NEW f, InUse(f, linked),
         NEW w, w = Columns(screen.width, f, FONT_SCALE),
         NEW h, h = Rows(screen.height, f, FONT_SCALE)
  PROVE  /\ w \in Nat \ {0} /\ h \in Nat \ {0}
         /\ w * f.width * FONT_SCALE <= screen.width
         /\ h * f.height * FONT_SCALE <= screen.height
<1> DEFINE cw == f.width * FONT_SCALE
           ch == f.height * FONT_SCALE
<1>1. cw \in Nat \ {0} /\ ch \in Nat \ {0} /\ screen.width \in Nat /\ screen.height \in Nat
  BY FontFits DEF FONT_SCALE
<1>2. screen.width >= cw /\ screen.height >= ch
  BY FontFits DEF HasRoom
<1>3. w = screen.width \div cw /\ h = screen.height \div ch
  BY DEF Columns, Rows
<1>4. w * f.width * FONT_SCALE = w * cw /\ h * f.height * FONT_SCALE = h * ch
  <2>1. w \in Nat /\ h \in Nat
    BY <1>1, <1>3, Quotient
  <2> QED
    BY <2>1, FontFits DEF FONT_SCALE
<1> HIDE DEF cw, ch
<1> QED
  BY <1>1, <1>2, <1>3, <1>4, Quotient

-----------------------------------------------------------------------------
(* The cursor while a text is printed.                                     *)

LEMMA SetInduction ==
  ASSUME NEW S, 0 \in S, \A n \in Nat : n \in S => n + 1 \in S
  PROVE  Nat \subseteq S
<1> SUFFICES ASSUME Nat \ S # {} PROVE FALSE
  OBVIOUS
<1>1. PICK x \in Nat \ S : \A y \in Nat \ S : ~(y < x)
  <2>1. PICK x \in Nat \ S : \A y \in Nat \ S : <<y, x>> \notin OpToRel(<, Nat)
    BY NatLessThanWellFounded, WFMin
  <2>2. \A y \in Nat \ S : <<y, x>> \in Nat \X Nat
    OBVIOUS
  <2>3. \A y \in Nat \ S : ~(y < x)
    BY <2>1, <2>2 DEF OpToRel
  <2> QED
    BY <2>3
<1>2. x - 1 \in Nat /\ x - 1 \in S
  BY <1>1
<1> QED
  BY <1>1, <1>2

(* Where the cursor is after each of the first m characters.               *)
Path(f, text, w, h, m) ==
  f = [i \in 0 .. m |-> IF i = 0 THEN cursor ELSE PutCursor(text[i], w, h)[f[i - 1]]]

LEMMA PathSteps ==
  ASSUME NEW f, NEW text, NEW w, NEW h, NEW m \in Nat, Path(f, text, w, h, m)
  PROVE  f[0] = cursor /\ \A i \in 1 .. m : f[i] = PutCursor(text[i], w, h)[f[i - 1]]
<1>1. \A i \in 0 .. m : f[i] = IF i = 0 THEN cursor ELSE PutCursor(text[i], w, h)[f[i - 1]]
  BY DEF Path
<1> QED
  BY <1>1

LEMMA PathExists ==
  ASSUME NEW text, NEW w, NEW h, NEW m \in Nat
  PROVE  \E f : Path(f, text, w, h, m)
<1> DEFINE S == {k \in Nat : \E f : Path(f, text, w, h, k)}
<1>1. 0 \in S
  <2>1. Path([i \in 0 .. 0 |-> cursor], text, w, h, 0)
    BY DEF Path
  <2> QED
    BY <2>1
<1>2. ASSUME NEW k \in Nat, k \in S PROVE k + 1 \in S
  <2>1. PICK f : Path(f, text, w, h, k)
    BY <1>2
  <2>2. f[0] = cursor /\ \A i \in 1 .. k : f[i] = PutCursor(text[i], w, h)[f[i - 1]]
    BY <2>1, PathSteps
  <2> DEFINE next == PutCursor(text[k + 1], w, h)[f[k]]
             g == [i \in 0 .. k + 1 |-> IF i <= k THEN f[i] ELSE next]
  <2>3. \A i \in 0 .. k + 1 : g[i] = IF i = 0 THEN cursor ELSE PutCursor(text[i], w, h)[g[i - 1]]
    <3> SUFFICES ASSUME NEW i \in 0 .. k + 1
                 PROVE  g[i] = IF i = 0 THEN cursor ELSE PutCursor(text[i], w, h)[g[i - 1]]
      OBVIOUS
    <3>1. CASE i = 0
      BY <2>2, <3>1
    <3>2. CASE i \in 1 .. k
      <4>1. g[i] = f[i] /\ g[i - 1] = f[i - 1]
        BY <3>2
      <4> QED
        BY <2>2, <3>2, <4>1
    <3>3. CASE i = k + 1
      <4>1. g[i] = PutCursor(text[i], w, h)[f[k]] /\ g[i - 1] = f[k] /\ i # 0
        BY <3>3
      <4> QED
        BY <4>1
    <3> QED
      BY <3>1, <3>2, <3>3
  <2>4. Path(g, text, w, h, k + 1)
    BY <2>3 DEF Path
  <2> QED
    BY <2>4
<1> HIDE DEF S
<1>3. Nat \subseteq S
  BY <1>1, <1>2, SetInduction
<1> QED
  BY <1>3 DEF S

(* A set of places that no character leaves is not left by a text.         *)
LEMMA PrintedStays ==
  ASSUME NEW text, Len(text) \in Nat, NEW w, NEW h, NEW G, cursor \in G,
         \A ch : \A c \in G : PutCursor(ch, w, h)[c] \in G
  PROVE  /\ Printed(text, w, h) \in G
         /\ Len(text) # 0 =>
              \E c \in G : Printed(text, w, h) = PutCursor(text[Len(text)], w, h)[c]
<1> DEFINE m == Len(text)
           f == CHOOSE g : Path(g, text, w, h, m)
<1>1. Printed(text, w, h) = f[m]
  BY DEF Printed, Path
<1>2. Path(f, text, w, h, m)
  BY PathExists
<1> HIDE DEF f
<1>3. f[0] = cursor /\ \A i \in 1 .. m : f[i] = PutCursor(text[i], w, h)[f[i - 1]]
  BY <1>2, PathSteps
<1> DEFINE S == {k \in Nat : k <= m => f[k] \in G}
<1>4. 0 \in S
  BY <1>3
<1>5. ASSUME NEW k \in Nat, k \in S PROVE k + 1 \in S
  <2>1. CASE k + 1 <= m
    <3>1. k + 1 \in 1 .. m /\ (k + 1) - 1 = k /\ f[k] \in G
      BY <1>5, <2>1
    <3>2. f[k + 1] = PutCursor(text[k + 1], w, h)[f[k]]
      BY <1>3, <3>1
    <3> QED
      BY <3>1, <3>2
  <2> QED
    BY <2>1
<1> HIDE DEF S
<1>6. Nat \subseteq S
  BY <1>4, <1>5, SetInduction
<1>7. \A k \in 0 .. m : f[k] \in G
  BY <1>6 DEF S
<1>8. ASSUME m # 0
      PROVE  \E c \in G : f[m] = PutCursor(text[m], w, h)[c]
  <2>1. m \in 1 .. m /\ m - 1 \in 0 .. m
    BY <1>8
  <2> QED
    BY <1>3, <1>7, <2>1
<1> QED
  BY <1>1, <1>7, <1>8

Places(w, h) == (0 .. w - 1) \X (0 .. h - 1)

LEMMA CursorStays ==
  ASSUME NEW w \in Nat \ {0}, NEW h \in Nat \ {0}, NEW c \in Places(w, h), NEW ch
  PROVE  /\ PutCursor(ch, w, h)[c] \in Places(w, h)
         /\ ch = NEWLINE => PutCursor(ch, w, h)[c][1] = 0
<1>1. c \in Nat \X Nat /\ c[1] \in 0 .. w - 1 /\ c[2] \in 0 .. h - 1
  BY DEF Places
<1> DEFINE moved == IF ch = NEWLINE THEN <<0, c[2] + 1>> ELSE <<c[1] + 1, c[2]>>
           wrapped == IF moved[1] >= w THEN <<0, moved[2] + 1>> ELSE moved
<1>2. PutCursor(ch, w, h)[c] = IF wrapped[2] >= h THEN <<0, 0>> ELSE wrapped
  BY <1>1 DEF PutCursor
<1>3. /\ moved[1] \in Nat /\ moved[2] \in Nat /\ moved = <<moved[1], moved[2]>>
      /\ ch = NEWLINE => moved[1] = 0
  BY <1>1
<1> HIDE DEF moved
<1>4. /\ wrapped[1] \in 0 .. w - 1 /\ wrapped[2] \in Nat /\ wrapped = <<wrapped[1], wrapped[2]>>
      /\ ch = NEWLINE => wrapped[1] = 0
  BY <1>3
<1> HIDE DEF wrapped
<1> QED
  BY <1>2, <1>4 DEF Places

(* Without a size, the console keeps the cursor in the corner.             *)
LEMMA CursorCornered ==
  ASSUME NEW ch
  PROVE  PutCursor(ch, 0, 0)[<<0, 0>>] = <<0, 0>>
BY DEF PutCursor

LEMMA TextPrinted ==
  ASSUME NEW text \in Seq(STRING), NEW w \in Nat \ {0}, NEW h \in Nat \ {0}, cursor \in Places(w, h)
  PROVE  /\ Printed(text, w, h) \in Places(w, h)
         /\ text # <<>> /\ text[Len(text)] = NEWLINE => Printed(text, w, h)[1] = 0
<1>1. Len(text) \in Nat /\ (text # <<>> => Len(text) # 0)
  OBVIOUS
<1>2. \A ch : \A c \in Places(w, h) : PutCursor(ch, w, h)[c] \in Places(w, h)
  BY CursorStays
<1>3. /\ Printed(text, w, h) \in Places(w, h)
      /\ Len(text) # 0 =>
           \E c \in Places(w, h) : Printed(text, w, h) = PutCursor(text[Len(text)], w, h)[c]
  BY <1>1, <1>2, PrintedStays
<1> QED
  BY <1>1, <1>3, CursorStays

LEMMA TextCornered ==
  ASSUME NEW text \in Seq(STRING), cursor = <<0, 0>>
  PROVE  Printed(text, 0, 0) = <<0, 0>>
<1>1. Len(text) \in Nat /\ cursor \in {<<0, 0>>}
  OBVIOUS
<1>2. \A ch : \A c \in {<<0, 0>>} : PutCursor(ch, 0, 0)[c] \in {<<0, 0>>}
  BY CursorCornered
<1>3. Printed(text, 0, 0) \in {<<0, 0>>}
  BY <1>1, <1>2, PrintedStays
<1> QED
  BY <1>3

-----------------------------------------------------------------------------
(* init_shell and the messages.                                            *)

NoFontYet == BeforeLtr \cup {"framebuffer", "halted", "load_font", "font_failed"}

NoConsole == width = 0 /\ height = 0 /\ cursor = <<0, 0>>

SizedFor(f, screen, w, h, c) ==
  /\ w = Columns(screen.width, f, FONT_SCALE)
  /\ h = Rows(screen.height, f, FONT_SCALE)
  /\ c \in Places(w, h)

(* The console has no size until its font is known; if the font is that of *)
(* the VGA table it has none when the first message is printed, and gets   *)
(* it in time for the others.                                              *)
ConsoleInv ==
  /\ file \in Fonts /\ fb \in Framebuffers
  /\ stage \in NoFontYet => NoConsole /\ font = NULL
  /\ stage = "font_failed" => psf_load_font(file) = NULL
  /\ stage \notin NoFontYet => InUse(font, file)
  /\ stage \notin NoFontYet =>
       \/ SizedFor(font, fb, width, height, cursor)
       \/ stage = "dimensions" /\ NoConsole
  /\ stage = "shell" => cursor[1] = 0

LEMMA SayStays ==
  ASSUME NEW from, NEW text \in Seq(STRING), NEW to, ConsoleInv, Say(from, text, to),
         from \notin NoFontYet, from # "dimensions", to \notin NoFontYet,
         to = "shell" => text # <<>> /\ text[Len(text)] = NEWLINE
  PROVE  ConsoleInv'
<1>1. /\ stage = from /\ stage' = to
      /\ fb' = fb /\ file' = file /\ font' = font /\ width' = width /\ height' = height
      /\ cursor' = Printed(text, width, height)
  BY DEF Say, Advance, boot_inputs
<1>2. /\ InUse(font, file) /\ SizedFor(font, fb, width, height, cursor)
      /\ file \in Fonts /\ fb \in Framebuffers
  BY <1>1 DEF ConsoleInv
<1>3. width \in Nat \ {0} /\ height \in Nat \ {0} /\ cursor \in Places(width, height)
  BY <1>2, ConsoleFits DEF SizedFor
<1>4. cursor' \in Places(width, height) /\ (to = "shell" => cursor'[1] = 0)
  BY <1>1, <1>3, TextPrinted
<1>5. SizedFor(font', fb', width', height', cursor')
  BY <1>1, <1>2, <1>4 DEF SizedFor
<1>6. stage' \notin NoFontYet /\ stage' # "font_failed"
  BY <1>1 DEF NoFontYet
<1> QED
  BY <1>1, <1>2, <1>4, <1>5, <1>6 DEF ConsoleInv

LEMMA LoadStep ==
  ASSUME ConsoleInv, load_font
  PROVE  ConsoleInv'
<1>1. /\ stage = "load_font" /\ fb' = fb /\ file' = file /\ cursor' = cursor
  BY DEF load_font, Advance, boot_inputs
<1>2. font = NULL /\ NoConsole /\ file \in Fonts /\ fb \in Framebuffers
  BY <1>1 DEF ConsoleInv, NoFontYet
<1>3. CASE psf_load_font(file) = NULL
  <2>1. stage' = "font_failed" /\ font' = font /\ width' = width /\ height' = height
    BY <1>3 DEF load_font, Advance
  <2>2. stage' \in NoFontYet /\ NoConsole'
    BY <1>1, <1>2, <2>1 DEF NoFontYet, NoConsole
  <2> QED
    BY <1>1, <1>2, <1>3, <2>1, <2>2 DEF ConsoleInv
<1>4. CASE psf_load_font(file) # NULL
  <2>1. /\ stage' = "font_loaded" /\ font' = psf_load_font(file)
        /\ width' = Columns(fb.width, font', FONT_SCALE)
        /\ height' = Rows(fb.height, font', FONT_SCALE)
    BY <1>4 DEF load_font, Advance
  <2>2. InUse(font', file')
    BY <1>1, <1>4, <2>1 DEF InUse
  <2>3. width' \in Nat \ {0} /\ height' \in Nat \ {0}
    BY <1>1, <1>2, <2>1, <2>2, ConsoleFits
  <2>4. cursor' \in Places(width', height')
    BY <1>1, <1>2, <2>3 DEF NoConsole, Places
  <2>5. SizedFor(font', fb', width', height', cursor')
    BY <1>1, <2>1, <2>4 DEF SizedFor
  <2>6. stage' \notin NoFontYet
    BY <2>1 DEF NoFontYet, BeforeLtr
  <2> QED
    BY <1>1, <1>2, <2>1, <2>2, <2>5, <2>6 DEF ConsoleInv
<1> QED
  BY <1>3, <1>4

LEMMA FailedStep ==
  ASSUME ConsoleInv, FontFailed
  PROVE  ConsoleInv'
<1>1. /\ stage = "font_failed" /\ stage' = "dimensions" /\ fb' = fb /\ file' = file
      /\ font' = VgaFont /\ width' = width /\ height' = height
      /\ cursor' = Printed(FailedText, width, height)
  BY DEF FontFailed, Advance, boot_inputs
<1>2. NoConsole /\ psf_load_font(file) = NULL /\ file \in Fonts /\ fb \in Framebuffers
  BY <1>1 DEF ConsoleInv, NoFontYet
<1>3. cursor' = <<0, 0>>
  BY <1>1, <1>2, TextCornered, BootAssumption DEF NoConsole
<1>4. InUse(font', file') /\ NoConsole'
  BY <1>1, <1>2, <1>3 DEF InUse, NoConsole
<1>5. stage' \notin NoFontYet
  BY <1>1 DEF NoFontYet, BeforeLtr
<1> QED
  BY <1>1, <1>2, <1>4, <1>5 DEF ConsoleInv

LEMMA DimensionsStep ==
  ASSUME ConsoleInv, Dimensions
  PROVE  ConsoleInv'
<1>1. /\ stage = "dimensions" /\ stage' = "initializing" /\ fb' = fb /\ file' = file
      /\ font' = font /\ cursor' = cursor
      /\ width' = Columns(fb.width, font, FONT_SCALE)
      /\ height' = Rows(fb.height, font, FONT_SCALE)
  BY DEF Dimensions, Advance, boot_inputs
<1>2. stage \notin NoFontYet /\ stage' \notin NoFontYet
  BY <1>1 DEF NoFontYet, BeforeLtr
<1>3. InUse(font, file) /\ file \in Fonts /\ fb \in Framebuffers
  BY <1>2 DEF ConsoleInv
<1>4. width' \in Nat \ {0} /\ height' \in Nat \ {0}
  BY <1>1, <1>3, ConsoleFits
<1>5. CASE SizedFor(font, fb, width, height, cursor)
  <2>1. SizedFor(font', fb', width', height', cursor')
    BY <1>1, <1>5 DEF SizedFor
  <2> QED
    BY <1>1, <1>2, <1>3, <2>1 DEF ConsoleInv
<1>6. CASE NoConsole
  <2>1. cursor' \in Places(width', height')
    BY <1>1, <1>4, <1>6 DEF NoConsole, Places
  <2>2. SizedFor(font', fb', width', height', cursor')
    BY <1>1, <2>1 DEF SizedFor
  <2> QED
    BY <1>1, <1>2, <1>3, <2>2 DEF ConsoleInv
<1> QED
  BY <1>2, <1>5, <1>6 DEF ConsoleInv

(* Before the font and after it, the rest of kernel() prints nothing.      *)
LEMMA ConsoleUntouched ==
  ASSUME ConsoleInv, UNCHANGED <<boot_inputs, console_vars>>,
         stage' # "shell" \/ stage = "shell",
         \/ stage' = stage
         \/ stage \in NoFontYet /\ stage' \in NoFontYet /\ stage' # "font_failed"
         \/ stage \notin NoFontYet \cup {"dimensions"} /\ stage' \notin NoFontYet
  PROVE  ConsoleInv'
<1>1. /\ fb' = fb /\ file' = file
      /\ font' = font /\ width' = width /\ height' = height /\ cursor' = cursor
  BY DEF boot_inputs, console_vars
<1>2. NoConsole' = NoConsole
  BY <1>1 DEF NoConsole
<1>3. "font_failed" \in NoFontYet
  BY DEF NoFontYet
<1> QED
  BY <1>1, <1>2, <1>3 DEF ConsoleInv

LEMMA KernelConsoleInv ==
  ASSUME ConsoleInv, KernelStep, ~LoadTr
  PROVE  ConsoleInv'
<1>1. CASE load_font
  BY <1>1, LoadStep
<1>2. CASE FontLoaded
  <2>1. Say("font_loaded", LoadedText, "dimensions")
    BY <1>2 DEF FontLoaded, Say
  <2>2. "font_loaded" \notin NoFontYet /\ "dimensions" \notin NoFontYet
    BY DEF NoFontYet, BeforeLtr
  <2> QED
    BY <2>1, <2>2, SayStays, BootAssumption
<1>3. CASE FontFailed
  BY <1>3, FailedStep
<1>4. CASE Dimensions
  BY <1>4, DimensionsStep
<1>5. CASE Messages
  <2>1. /\ {"initializing", "initialized", "keyboard", "idt", "shell"} \cap NoFontYet = {}
        /\ {LoadedText, FailedText, InitializingText, InitializedText, WelcomeText} \subseteq Seq(STRING)
    BY BootAssumption DEF NoFontYet, BeforeLtr
  <2>2. CASE Say("initializing", InitializingText, "idt")
    BY <2>1, <2>2, SayStays
  <2>3. CASE Say("initialized", InitializedText, "keyboard")
    BY <2>1, <2>3, SayStays
  <2>4. CASE Say("keyboard", WelcomeText, "shell")
    BY <2>1, <2>4, SayStays, BootAssumption
  <2> QED
    BY <1>5, <2>2, <2>3, <2>4 DEF Messages
<1>6. CASE CheckRevision \/ ClearTss \/ SetTssLow \/ SetTssHigh \/ LoadGdt \/ CheckFramebuffer
  <2>1. UNCHANGED <<boot_inputs, console_vars>>
    BY <1>6 DEF CheckRevision, ClearTss, SetTssLow, SetTssHigh, LoadGdt, CheckFramebuffer, kernel_vars
  <2>2. stage \in NoFontYet /\ stage' \in NoFontYet /\ stage' \notin {"font_failed", "shell"}
    BY <1>6 DEF CheckRevision, ClearTss, SetTssLow, SetTssHigh, LoadGdt, CheckFramebuffer,
                Advance, NoFontYet, BeforeLtr
  <2> QED
    BY <2>1, <2>2, ConsoleUntouched
<1>7. CASE FillIdt
  <2>1. UNCHANGED <<boot_inputs, console_vars>> /\ stage = "idt" /\ stage' = "interrupts"
    BY <1>7 DEF FillIdt, Advance
  <2>2. "idt" \notin NoFontYet \cup {"dimensions"} /\ "interrupts" \notin NoFontYet
    BY DEF NoFontYet, BeforeLtr
  <2> QED
    BY <2>1, <2>2, ConsoleUntouched
<1> QED
  BY <1>1, <1>2, <1>3, <1>4, <1>5, <1>6, <1>7 DEF KernelStep

LEMMA ConsoleInvariant == BootSpec => []ConsoleInv
<1>1. ASSUME BootInit PROVE ConsoleInv
  <2>1. stage = "entry" /\ "entry" \in NoFontYet
    BY <1>1 DEF BootInit, NoFontYet, BeforeLtr
  <2> QED
    BY <1>1, <2>1 DEF BootInit, ConsoleInv, NoConsole
<1>2. ASSUME ConsoleInv, TssInv', [BootNext]_boot_vars PROVE ConsoleInv'
  <2>1. CASE KernelStep /\ LoadTr
    <3>1. stage = "ltr" /\ stage' \in {"framebuffer", "fault"} /\ UNCHANGED <<boot_inputs, console_vars>>
      BY <2>1 DEF LoadTr, Advance
    <3>2. stage' = "framebuffer"
      BY <1>2, <3>1 DEF TssInv
    <3>3. stage \in NoFontYet /\ stage' \in NoFontYet
      BY <3>1, <3>2 DEF NoFontYet, BeforeLtr
    <3> QED
      BY <1>2, <3>1, <3>2, <3>3, ConsoleUntouched
  <2>2. CASE KernelStep /\ ~LoadTr
    BY <1>2, <2>2, KernelConsoleInv
  <2>3. CASE UNCHANGED <<stage, boot_inputs, console_vars>>
    BY <1>2, <2>3, ConsoleUntouched
  <2>4. CASE DriverStep
    <3>1. CASE stage' = "initialized" /\ stage = "interrupts" /\ UNCHANGED <<boot_inputs, console_vars>>
      <4>1. stage \notin NoFontYet \cup {"dimensions"} /\ stage' \notin NoFontYet
        BY <3>1 DEF NoFontYet, BeforeLtr
      <4> QED
        BY <1>2, <3>1, <4>1, ConsoleUntouched
    <3>2. CASE UNCHANGED <<stage, boot_inputs, console_vars>>
      BY <2>3, <3>2
    <3> QED
      BY <2>4, <3>1, <3>2 DEF DriverStep, interrupts_init, keyboard_init, kernel_vars
  <2>5. CASE Wait \/ UNCHANGED boot_vars
    BY <2>3, <2>5 DEF Wait, boot_vars, kernel_vars
  <2>6. CASE (Handler \/ Device \/ TypeKey) /\ UNCHANGED <<stage, kernel_vars>>
    BY <2>3, <2>6 DEF kernel_vars
  <2> QED
    BY <1>2, <2>1, <2>2, <2>4, <2>5, <2>6 DEF BootNext
<1> QED
  BY <1>1, <1>2, TssInvariant, PTL DEF BootSpec

(* Whatever the font and the framebuffer, and whether the font loads or    *)
(* not: when init_shell is done, the cursor is on a console that is on the *)
(* framebuffer, and the shell starts at the beginning of a line            *)
(* (console.c:23-48, 385-416).                                             *)
THEOREM ConsoleIsReady == BootSpec => []ConsoleReady
<1>1. ConsoleInv /\ TssInv => ConsoleReady
  <2> SUFFICES ASSUME ConsoleInv, TssInv PROVE ConsoleReady
    OBVIOUS
  <2>1. ASSUME stage \notin NoFontYet \cup {"fault", "dimensions"}
        PROVE  /\ cursor[1] < width /\ cursor[2] < height
               /\ width * font.width * FONT_SCALE <= fb.width
               /\ height * font.height * FONT_SCALE <= fb.height
    <3>1. /\ InUse(font, file) /\ file \in Fonts /\ fb \in Framebuffers
          /\ SizedFor(font, fb, width, height, cursor)
      BY <2>1 DEF ConsoleInv
    <3>2. /\ width \in Nat \ {0} /\ height \in Nat \ {0}
          /\ width * font.width * FONT_SCALE <= fb.width
          /\ height * font.height * FONT_SCALE <= fb.height
      BY <3>1, ConsoleFits DEF SizedFor
    <3>3. cursor \in Places(width, height)
      BY <3>1 DEF SizedFor
    <3>4. cursor[1] < width /\ cursor[2] < height
      BY <3>2, <3>3 DEF Places
    <3> QED
      BY <3>2, <3>4
  <2>2. stage # "fault"
    BY DEF TssInv
  <2>3. stage = "shell" => cursor[1] = 0
    BY DEF ConsoleInv
  <2> QED
    BY <2>1, <2>2, <2>3 DEF ConsoleReady, NoFontYet, BeforeLtr
<1> QED
  BY <1>1, ConsoleInvariant, TssInvariant, PTL

LEMMA GlyphEndsBefore ==
  ASSUME NEW n \in Nat, NEW c \in Nat, NEW size \in Nat, c < n
  PROVE  c * size + size <= n * size /\ c * size \in Nat /\ n * size \in Nat
<1> DEFINE rest == n - c - 1
<1>1. rest \in Nat /\ n = c + 1 + rest
  OBVIOUS
<1> HIDE DEF rest
<1>2. n * size = c * size + size + rest * size
  BY <1>1
<1>3. rest * size \in Nat
  BY <1>1
<1> QED
  BY <1>2, <1>3

(* The glyph of a char in a font that holds its glyphs.                    *)
LEMMA GlyphInFont ==
  ASSUME NEW linked \in Fonts, NEW f, InUse(f, linked), NEW c \in Byte
  PROVE  LET glyph == psf_get_glyph(f, c)
         IN  IF f.version = 0
             THEN glyph = 16 * c /\ glyph + f.height <= VGA_SIZE
             ELSE /\ glyph = GlyphOffset(linked, c)
                  /\ glyph # NULL => glyph + f.height <= linked.size
<1>1. c \in 0 .. 255
  BY DEF Byte
<1>2. CASE f = VgaFont
  BY <1>1, <1>2 DEF VgaFont, psf_get_glyph, VGA_SIZE
<1>3. CASE f = psf_load_font(linked) /\ f # NULL
  <2>1. WellFormed(linked)
    BY <1>3, BootAssumption
  <2>2. CASE linked.magic = "psf1"
    <3>1. /\ f.version = 1 /\ f.height = linked.charsize /\ f.glyph_size = linked.charsize
          /\ f.glyph_count \in {256, 512} /\ f.glyph_buffer = PSF1_HEADER
      BY <1>3, <2>1, <2>2, LoadedFont
    <3>2. /\ linked.charsize \in Nat
          /\ linked.size >= PSF1_HEADER + GlyphsInFile(linked) * linked.charsize
          /\ GlyphsInFile(linked) \in {256, 512}
      BY <2>1, <2>2 DEF WellFormed, GlyphsInFile
    <3>3. psf_get_glyph(f, c) = PSF1_HEADER + c * linked.charsize
      BY <1>1, <3>1 DEF psf_get_glyph
    <3>4. GlyphOffset(linked, c) = PSF1_HEADER + c * linked.charsize
      BY <1>1, <2>2, <3>2 DEF GlyphOffset
    <3>5. PSF1_HEADER + c * linked.charsize + linked.charsize <= linked.size
      <4> DEFINE n == GlyphsInFile(linked)
                 size == linked.charsize
      <4>1. n \in Nat /\ c \in Nat /\ c < n /\ size \in Nat
        BY <1>1, <3>2
      <4>2. linked.size >= PSF1_HEADER + n * size
        BY <3>2
      <4>3. linked.size \in Int
        BY <2>1, <2>2 DEF WellFormed
      <4> HIDE DEF n, size
      <4>4. c * size + size <= n * size /\ c * size \in Nat /\ n * size \in Nat
        BY <4>1, GlyphEndsBefore
      <4>5. PSF1_HEADER + c * size + size <= linked.size
        BY <4>1, <4>2, <4>3, <4>4 DEF PSF1_HEADER
      <4> QED
        BY <4>5 DEF size
    <3> QED
      BY <3>1, <3>3, <3>4, <3>5
  <2>3. CASE linked.magic = "psf2"
    <3>1. /\ f.version = 2 /\ f.height = linked.height /\ f.glyph_size = linked.charsize
          /\ f.glyph_count = linked.length /\ f.glyph_buffer = linked.headersize
      BY <1>3, <2>1, <2>3, LoadedFont
    <3>2. /\ linked.headersize \in Nat /\ linked.length \in Nat /\ linked.charsize \in Nat
          /\ linked.height \in 1 .. linked.charsize
          /\ linked.size >= linked.headersize + linked.length * linked.charsize
      BY <2>1, <2>3 DEF WellFormed
    <3>3. psf_get_glyph(f, c) = IF c >= linked.length THEN NULL
                                ELSE linked.headersize + c * linked.charsize
      BY <3>1 DEF psf_get_glyph
    <3>4. GlyphOffset(linked, c) = psf_get_glyph(f, c)
      BY <2>3, <3>3 DEF GlyphOffset, GlyphsInFile
    <3>5. CASE c >= linked.length
      BY <3>1, <3>3, <3>4, <3>5
    <3>6. CASE c < linked.length
      <4> DEFINE n == linked.length
                 size == linked.charsize
      <4>1. n \in Nat /\ c \in Nat /\ c < n /\ size \in Nat
        BY <1>1, <3>2, <3>6
      <4>2. linked.size >= linked.headersize + n * size
        BY <3>2
      <4>3. linked.size \in Int /\ linked.headersize \in Nat /\ linked.height \in 1 .. size
        BY <2>1, <2>3, <3>2 DEF WellFormed
      <4>4. psf_get_glyph(f, c) = linked.headersize + c * size
        BY <1>1, <3>2, <3>3, <3>6
      <4> HIDE DEF n, size
      <4>5. c * size + size <= n * size /\ c * size \in Nat /\ n * size \in Nat
        BY <4>1, GlyphEndsBefore
      <4>6. linked.headersize + c * size + linked.height <= linked.size
        BY <4>1, <4>2, <4>3, <4>5
      <4> QED
        BY <3>1, <3>4, <4>4, <4>6
    <3> QED
      BY <1>1, <3>2, <3>5, <3>6
  <2> QED
    BY <2>1, <2>2, <2>3 DEF WellFormed
<1> QED
  BY <1>2, <1>3 DEF InUse

(* draw_char takes the glyph that the font has for a character, inside the *)
(* file, for every font that holds what its header says (psf.c:10-69).     *)
THEOREM GlyphsRight == BootSpec => []GlyphsOfTheFont
<1>1. ConsoleInv => GlyphsOfTheFont
  <2> SUFFICES ASSUME ConsoleInv, font # NULL, NEW c \in Byte
               PROVE  LET glyph == psf_get_glyph(font, c)
                      IN  IF font.version = 0
                          THEN glyph = 16 * c /\ glyph + font.height <= VGA_SIZE
                          ELSE /\ glyph = GlyphOffset(file, c)
                               /\ glyph # NULL => glyph + font.height <= file.size
    BY DEF GlyphsOfTheFont
  <2>1. file \in Fonts /\ InUse(font, file)
    BY DEF ConsoleInv
  <2> QED
    BY <2>1, GlyphInFont
<1> QED
  BY <1>1, ConsoleInvariant, PTL

-----------------------------------------------------------------------------
(* The tables as the CPU reads them.                                       *)

DescriptorType ==
  /\ gdt \in [0 .. 6 -> [1 .. 8 -> Byte]]
  /\ gdtr_limit \in {8 * n - 1 : n \in 1 .. 7}
  /\ DOMAIN idt \subseteq Byte

LEMMA DescriptorBytes ==
  TssLow \in [1 .. 8 -> Byte] /\ tss_high(TssAddress) \in [1 .. 8 -> Byte]
<1>1. \A k \in 1 .. 8 : TssAddress[k] \in Byte
  BY BootAssumption DEF Address
<1>2. TssLow = << 103, 0, TssAddress[1], TssAddress[2], TssAddress[3], 137, 0, TssAddress[4] >>
  BY DEF TssLow, gdt_set_gate, TSS_SIZE, GDT_TSS
<1>3. {0, 103, 137} \subseteq Byte
  BY DEF Byte
<1>4. TssLow \in [1 .. 8 -> Byte]
  BY <1>1, <1>2, <1>3
<1> QED
  BY <1>1, <1>3, <1>4 DEF tss_high

LEMMA DescriptorsUntouched ==
  ASSUME DescriptorType, UNCHANGED <<gdt, gdtr_limit, idt>>
  PROVE  DescriptorType'
BY DEF DescriptorType

LEMMA KernelDescriptorType ==
  ASSUME DescriptorType, KernelStep
  PROVE  DescriptorType'
<1>1. CASE SetTssLow
  BY <1>1, DescriptorBytes DEF SetTssLow, DescriptorType, TssLow, idt_vars
<1>2. CASE SetTssHigh
  BY <1>2, DescriptorBytes DEF SetTssHigh, DescriptorType, idt_vars
<1>3. CASE LoadGdt
  <2>1. gdtr_limit' = 8 * 7 - 1 /\ 7 \in 1 .. 7 /\ UNCHANGED <<gdt, idt>>
    BY <1>3 DEF LoadGdt, idt_vars
  <2> QED
    BY <2>1 DEF DescriptorType
<1>4. CASE LoadTr
  <2>1. UNCHANGED <<gdtr_limit, idt>>
    BY <1>4 DEF LoadTr, idt_vars
  <2>2. CASE gdt' = gdt
    BY <2>1, <2>2 DEF DescriptorType
  <2>3. CASE gdt' = [gdt EXCEPT ![TSS_SELECTOR \div 8] = [gdt[TSS_SELECTOR \div 8] EXCEPT ![6] = 139]]
    <3>1. TSS_SELECTOR \div 8 = 5
      BY DEF TSS_SELECTOR
    <3> DEFINE busy == [gdt[5] EXCEPT ![6] = 139]
    <3>2. gdt \in [0 .. 6 -> [1 .. 8 -> Byte]]
      BY DEF DescriptorType
    <3>3. gdt[5] \in [1 .. 8 -> Byte]
      BY <3>2
    <3>4. 139 \in Byte
      BY DEF Byte
    <3>5. busy \in [1 .. 8 -> Byte]
      BY <3>3, <3>4
    <3>6. gdt' = [gdt EXCEPT ![5] = busy]
      BY <2>3, <3>1
    <3> HIDE DEF busy
    <3>7. gdt' \in [0 .. 6 -> [1 .. 8 -> Byte]]
      BY <3>2, <3>5, <3>6
    <3> QED
      BY <2>1, <3>7 DEF DescriptorType
  <2> QED
    BY <1>4, <2>2, <2>3 DEF LoadTr
<1>5. CASE FillIdt
  <2>1. DOMAIN idt' = {33} /\ UNCHANGED <<gdt, gdtr_limit>>
    BY <1>5 DEF FillIdt, gdt_vars
  <2>2. 33 \in Byte
    BY DEF Byte
  <2> QED
    BY <2>1, <2>2 DEF DescriptorType
<1>6. CASE \/ CheckRevision \/ ClearTss \/ CheckFramebuffer \/ load_font \/ FontLoaded
           \/ FontFailed \/ Dimensions \/ Messages
  <2>1. UNCHANGED <<gdt, gdtr_limit, idt>>
    BY <1>6 DEF CheckRevision, ClearTss, CheckFramebuffer, load_font, FontLoaded, FontFailed,
                Dimensions, Messages, Say, kernel_vars, gdt_vars, idt_vars
  <2> QED
    BY <2>1, DescriptorsUntouched
<1> QED
  BY <1>1, <1>2, <1>3, <1>4, <1>5, <1>6 DEF KernelStep

LEMMA DescriptorInvariant == BootSpec => []DescriptorType
<1>1. ASSUME BootInit PROVE DescriptorType
  <2>1. gdt = [n \in 0 .. 6 |-> IF n < 5 THEN LoaderGdt[n + 1] ELSE Unset]
    BY <1>1 DEF BootInit
  <2>2. ASSUME NEW n \in 0 .. 6
        PROVE  (IF n < 5 THEN LoaderGdt[n + 1] ELSE Unset) \in [1 .. 8 -> Byte]
    <3>1. Unset \in [1 .. 8 -> Byte]
      BY DEF Unset, Byte
    <3>2. LoaderGdt \in [1 .. 5 -> [1 .. 8 -> Byte]]
      BY BootAssumption
    <3>3. n < 5 => n + 1 \in 1 .. 5
      OBVIOUS
    <3> QED
      BY <3>1, <3>2, <3>3
  <2>3. gdtr_limit = 8 * 5 - 1 /\ 5 \in 1 .. 7
    <3>1. gdtr_limit = 5 * 8 - 1
      BY <1>1, Zenon DEF BootInit
    <3> QED
      BY <3>1
  <2>4. DOMAIN idt = {}
    BY <1>1 DEF BootInit
  <2> QED
    BY <2>1, <2>2, <2>3, <2>4 DEF DescriptorType
<1>2. ASSUME DescriptorType, [BootNext]_boot_vars PROVE DescriptorType'
  <2>1. CASE KernelStep
    BY <1>2, <2>1, KernelDescriptorType
  <2>2. CASE ~KernelStep
    <3>1. UNCHANGED <<gdt, gdtr_limit, idt>>
      BY <1>2, <2>2 DEF BootNext, DriverStep, interrupts_init, keyboard_init, Wait, boot_vars,
                        kernel_vars, gdt_vars, idt_vars
    <3> QED
      BY <1>2, <3>1, DescriptorsUntouched
  <2> QED
    BY <2>1, <2>2
<1> QED
  BY <1>1, <1>2, PTL DEF BootSpec

(* Descriptors, limits, vectors and the console of kernel() have their     *)
(* types, for every address, font and framebuffer.                         *)
THEOREM BootTypeCorrect == BootSpec => []BootTypeOK
<1>1. ConsoleInv /\ DescriptorType => BootTypeOK
  <2> SUFFICES ASSUME ConsoleInv, DescriptorType PROVE BootTypeOK
    OBVIOUS
  <2>1. CASE NoConsole
    BY <2>1 DEF NoConsole, DescriptorType, BootTypeOK
  <2>2. CASE InUse(font, file) /\ SizedFor(font, fb, width, height, cursor)
    <3>1. width \in Nat \ {0} /\ height \in Nat \ {0}
      BY <2>2, ConsoleFits DEF SizedFor, ConsoleInv
    <3>2. cursor \in Nat \X Nat
      BY <2>2, <3>1 DEF SizedFor, Places
    <3> QED
      BY <3>1, <3>2 DEF DescriptorType, BootTypeOK
  <2> QED
    BY <2>1, <2>2 DEF ConsoleInv
<1> QED
  BY <1>1, ConsoleInvariant, DescriptorInvariant, PTL
=============================================================================
