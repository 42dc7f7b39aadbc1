---------------------------- MODULE KeyboardInit ----------------------------
(***************************************************************************)
(* The bring-up of the keyboard: interrupts_init (interrupts.c), which     *)
(* enables IRQ 1, followed by keyboard_init (keyboard.c), which talks to   *)
(* the keyboard controller by polling while the handler of IRQ 1 reads the *)
(* same data port.  main.c calls them in this order.                       *)
(*                                                                         *)
(* The controller, the keyboard behind it and the PIC are not in the       *)
(* source: they are modelled as the code uses them.  A byte in the         *)
(* controller's output buffer is known by its origin, a configuration byte *)
(* by the bits in it that keyboard_init sets and clears, and the bit for   *)
(* the translation of scancodes.                                           *)
(***************************************************************************)
EXTENDS Naturals, Sequences

CONSTANT MaxScan  \* bound: scancodes waiting in the keyboard

ASSUME MaxScanAssumption == MaxScan \in Nat

Bits == {"interrupt", "disabled", "translation"}   \* bits 0, 4 and 6

VARIABLES
  pc,            \* where the kernel thread is
  config,        \* local config of keyboard_init: the bits that are set
  handler,       \* the stage of keyboard_isr
  IF_flag, idt_loaded,
  masked, requested, in_service,    \* IRQ 1 in the PIC
  input,         \* command or data written and not processed, or "empty"
  input_bits,    \* those of the last configuration byte written
  awaiting,      \* what the controller takes the next data byte for
  output,        \* output buffer: a byte, or "empty"
  latch,         \* the byte that the data port holds
  reply,         \* the controller owes the configuration byte
  reply_bits,    \* the bits of the configuration byte when it was asked for
  keyboard,      \* bytes the keyboard has to send
  configuration  \* bits of the controller

cpu_vars == <<IF_flag, idt_loaded>>
pic_vars == <<masked, requested, in_service>>
input_vars == <<input, input_bits, awaiting>>
device_vars == <<reply, reply_bits, keyboard, configuration>>
output_vars == <<output, latch>>
vars == <<pc, config, handler, cpu_vars, pic_vars, input_vars, output_vars, device_vars>>

(* The firmware and the boot loader leave interrupts off and IRQ 1 masked. *)
(* They use the controller, so it translates scancodes to set 1; its       *)
(* interrupt may be on or off, and so may the keyboard, and a key may have *)
(* been typed already.  config is not initialised.                         *)
Init ==
  /\ pc = "pic_init"
  /\ config = {}
  /\ handler = "idle"
  /\ IF_flag = FALSE /\ idt_loaded = FALSE
  /\ masked = TRUE /\ requested = FALSE /\ in_service = FALSE
  /\ input = "empty" /\ input_bits = {} /\ awaiting = "keyboard"
  /\ output \in {"empty", "scancode"} /\ latch = output
  /\ reply = FALSE /\ reply_bits = {} /\ keyboard = <<>>
  /\ configuration \in {bits \in SUBSET Bits : "translation" \in bits}

-----------------------------------------------------------------------------
(* IRQ 1 follows the output buffer; the PIC is edge triggered: it latches  *)
(* a request when the line rises.                                          *)

Line1 == output # "empty" /\ "interrupt" \in configuration
Edge == requested' = (requested \/ (~Line1 /\ Line1'))

-----------------------------------------------------------------------------
(* interrupts_init.                                                        *)

Goto(from, to) == pc = from /\ pc' = to

(* Initialising the PIC forgets a pending request.                         *)
(* Mutant: interrupts are enabled before the table is loaded.              *)
PicInitSti ==
  /\ Goto("pic_init", "lidt")
  /\ masked' = FALSE /\ requested' = FALSE /\ in_service' = FALSE
  /\ IF_flag' = TRUE
  /\ UNCHANGED <<config, handler, idt_loaded, input_vars, output_vars, device_vars>>

pic_init ==
  /\ Goto("pic_init", "lidt")
  /\ masked' = FALSE /\ requested' = FALSE /\ in_service' = FALSE
  /\ UNCHANGED <<config, handler, cpu_vars, input_vars, output_vars, device_vars>>

LoadIdt ==
  /\ Goto("lidt", "sti")
  /\ idt_loaded' = TRUE
  /\ UNCHANGED <<config, handler, IF_flag, pic_vars, input_vars, output_vars, device_vars>>

EnableInterrupts ==
  /\ Goto("sti", "enable")
  /\ IF_flag' = TRUE
  /\ UNCHANGED <<config, handler, idt_loaded, pic_vars, input_vars, output_vars, device_vars>>

-----------------------------------------------------------------------------
(* keyboard_isr: the handler runs with interrupts off and to its end       *)
(* before the thread goes on; the devices go on meanwhile.                 *)

TakeInterrupt ==
  /\ IF_flag /\ requested /\ ~masked /\ ~in_service /\ handler = "idle"
  /\ handler' = "read"
  /\ requested' = FALSE /\ in_service' = TRUE
  /\ UNCHANGED <<pc, config, cpu_vars, masked, input_vars, output_vars, device_vars>>

(* The status port is read first: without a byte, the data port is not     *)
(* read.                                                                   *)
keyboard_interrupt_handler ==
  /\ handler = "read"
  /\ handler' = "eoi"
  /\ output' = "empty"
  /\ UNCHANGED <<pc, config, cpu_vars, pic_vars, input_vars, latch, device_vars>>

(* Mutant: a return before the EOI.                                        *)
EndWithoutEoi ==
  /\ handler = "eoi"
  /\ handler' = "idle"
  /\ UNCHANGED <<pc, config, cpu_vars, pic_vars, input_vars, output_vars, device_vars>>

EndOfInterrupt ==
  /\ handler = "eoi"
  /\ handler' = "idle"
  /\ in_service' = FALSE
  /\ UNCHANGED <<pc, config, cpu_vars, masked, requested, input_vars, output_vars, device_vars>>

-----------------------------------------------------------------------------
(* keyboard_init, one action per write or read of the controller.          *)

(* keyboard_wait_input, then outb.                                         *)
Write(from, byte, to) ==
  /\ Goto(from, to)
  /\ input = "empty"
  /\ input' = byte
  /\ UNCHANGED <<config, handler, cpu_vars, pic_vars, awaiting, output_vars, device_vars>>

WriteCommand ==
  \/ /\ \/ Write("enable", "0xAE", "read_config")
        \/ Write("read_config", "0x20", "wait_config")
        \/ Write("write_config", "0x60", "send_config")
        \/ Write("set", "0xF0", "wait_ack")
        \/ Write("set_1", "0x01", "wait_ack_1")
     /\ UNCHANGED input_bits
  \/ Write("send_config", "config", "set") /\ input_bits' = config

(* Mutant: there is no wait for the byte.                                  *)
WaitOutputNot ==
  /\ \/ Goto("wait_config", "config")
     \/ Goto("wait_ack", "ack")
     \/ Goto("wait_ack_1", "ack_1")
  /\ UNCHANGED <<config, handler, cpu_vars, pic_vars, input_vars, output_vars, device_vars>>

keyboard_wait_output ==
  /\ output # "empty"
  /\ \/ Goto("wait_config", "config")
     \/ Goto("wait_ack", "ack")
     \/ Goto("wait_ack_1", "ack_1")
  /\ UNCHANGED <<config, handler, cpu_vars, pic_vars, input_vars, output_vars, device_vars>>

(* The bits of the byte that the data port holds: a scancode or an         *)
(* acknowledgement may have any.                                           *)
LatchedBits == IF latch = "config" THEN {reply_bits} ELSE SUBSET Bits

(* Mutant: the keyboard is not enabled in the byte that is written back.   *)
ReadDataDisabled ==
  /\ \/ /\ Goto("config", "write_config")
        /\ \E bits \in LatchedBits : config' = bits \cup {"interrupt"}
     \/ Goto("ack", "set_1") /\ UNCHANGED config
     \/ Goto("ack_1", "done") /\ UNCHANGED config
  /\ output' = "empty"
  /\ UNCHANGED <<handler, cpu_vars, pic_vars, input_vars, latch, device_vars>>

(* inb returns the byte in the output buffer or, when the handler has      *)
(* taken it, the same byte again.                                          *)
ReadData ==
  /\ \/ /\ Goto("config", "write_config")
        /\ \E bits \in LatchedBits : config' = (bits \cup {"interrupt"}) \ {"disabled"}
     \/ Goto("ack", "set_1") /\ UNCHANGED config
     \/ Goto("ack_1", "done") /\ UNCHANGED config
  /\ output' = "empty"
  /\ UNCHANGED <<handler, cpu_vars, pic_vars, input_vars, latch, device_vars>>

(* One more round of keyboard_wait_input or keyboard_wait_output; or the   *)
(* kernel goes on, with keyboard_init done.                                *)
Spin ==
  /\ \/ pc \in {"enable", "read_config", "write_config", "send_config", "set", "set_1"}
        /\ input # "empty"
     \/ pc \in {"wait_config", "wait_ack", "wait_ack_1"} /\ output = "empty"
     \/ pc = "done"
  /\ handler = "idle"
  /\ UNCHANGED vars

Thread ==
  /\ handler = "idle"
  /\ \/ pic_init \/ LoadIdt \/ EnableInterrupts
     \/ WriteCommand \/ keyboard_wait_output \/ ReadData

-----------------------------------------------------------------------------
(* The controller and the keyboard.                                        *)

TakeCommand ==
  /\ input # "empty"
  /\ input' = "empty"
  /\ \/ /\ input = "0xAE"
        /\ configuration' = configuration \ {"disabled"}
        /\ UNCHANGED <<awaiting, reply, reply_bits, keyboard>>
     \/ /\ input = "0x20"
        /\ reply' = TRUE /\ reply_bits' = configuration
        /\ UNCHANGED <<awaiting, keyboard, configuration>>
     \/ /\ input = "0x60"
        /\ awaiting' = "controller"
        /\ UNCHANGED device_vars
     \/ /\ awaiting = "controller"
        /\ awaiting' = "keyboard"
        /\ configuration' = input_bits
        /\ UNCHANGED <<reply, reply_bits, keyboard>>
     \/ /\ input = "0xF0"
        /\ awaiting' = "set"
        /\ keyboard' = <<"ack">> \o keyboard
        /\ UNCHANGED <<reply, reply_bits, configuration>>
     \/ /\ awaiting = "set"
        /\ input = "0x01"
        /\ awaiting' = "keyboard"
        /\ keyboard' = <<"ack">> \o keyboard
        /\ UNCHANGED <<reply, reply_bits, configuration>>
  /\ UNCHANGED <<pc, config, handler, cpu_vars, masked, in_service, input_bits, output_vars>>
  /\ Edge

FillOutput(byte) ==
  /\ output = "empty"
  /\ output' = byte
  /\ latch' = byte
  /\ UNCHANGED <<pc, config, handler, cpu_vars, masked, in_service, input_vars,
                 reply_bits, configuration>>
  /\ Edge

SendReply ==
  /\ reply
  /\ reply' = FALSE
  /\ UNCHANGED keyboard
  /\ FillOutput("config")

SendKeyboardByte ==
  /\ ~reply /\ "disabled" \notin configuration /\ keyboard # <<>>
  /\ keyboard' = Tail(keyboard)
  /\ UNCHANGED reply
  /\ FillOutput(Head(keyboard))

TypeKey ==
  /\ Len(keyboard) < MaxScan
  /\ keyboard' = Append(keyboard, "scancode")
  /\ UNCHANGED <<pc, config, handler, cpu_vars, pic_vars, input_vars, output_vars,
                 reply, reply_bits, configuration>>

Handler == TakeInterrupt \/ keyboard_interrupt_handler \/ EndOfInterrupt
Device == TakeCommand \/ SendReply \/ SendKeyboardByte

Next == Thread \/ Spin \/ Handler \/ Device \/ TypeKey

Spec == Init /\ [][Next]_vars

(* The CPU executes instructions, takes a pending interrupt, and the       *)
(* devices answer.                                                         *)
FairSpec ==
  Spec /\ WF_vars(Thread) /\ WF_vars(Handler) /\ WF_vars(TakeCommand)
       /\ WF_vars(SendReply) /\ WF_vars(SendKeyboardByte)

-----------------------------------------------------------------------------
(* Properties.                                                             *)

Bytes == {"scancode", "config", "ack"}

(* The data port is read when a byte has come to it.                       *)
TypeOK ==
  /\ config \subseteq Bits /\ input_bits \subseteq Bits
  /\ reply_bits \subseteq Bits /\ configuration \subseteq Bits
  /\ handler \in {"idle", "read", "eoi"}
  /\ output \in Bytes \cup {"empty"}
  /\ latch \in Bytes \cup {"empty"}
  /\ pc \in {"config", "ack", "ack_1"} => latch # "empty"
  /\ keyboard \in Seq(Bytes)
  /\ awaiting \in {"keyboard", "controller", "set"}
  /\ IF_flag \in BOOLEAN /\ idt_loaded \in BOOLEAN
  /\ masked \in BOOLEAN /\ requested \in BOOLEAN /\ in_service \in BOOLEAN
  /\ reply \in BOOLEAN

(* The CPU never takes IRQ 1 through a table that is not loaded, or under  *)
(* the vector of a CPU exception, which it has until pic_init is done.     *)
InterruptsReady == handler # "idle" => idt_loaded /\ pc # "pic_init"

(* When keyboard_init returns, the controller interrupts on each key and   *)
(* the keyboard is enabled, as keyboard.c:217-218 intend: also if neither  *)
(* was before, if the handler took a byte from the thread, and if what was *)
(* read for the configuration was another byte.                            *)
DoneMeansEnabled ==
  pc = "done" =>
    /\ "interrupt" \in configuration /\ "disabled" \notin configuration
    /\ ~masked

(* keyboard_init returns ("Keyboard initialized!").                        *)
InitTerminates == <>(pc = "done")

(* Only the two bits that enable the keyboard and its interrupt change in  *)
(* the configuration that keyboard_init reads, changes and writes back.    *)
ConfigurationKept == pc = "done" => "translation" \in configuration
=============================================================================
