----------------------------- MODULE Exceptions -----------------------------
(***************************************************************************)
(* The exception program after Boot: the usr-mode thread of start.S and    *)
(* main.c, the handlers do_und, do_swi and do_irq with the banked          *)
(* registers of the ARM920T, and the EINT8 path of interrupt.c.            *)
(* A position in the thread is an index of Thread, one instruction or one  *)
(* call each; a return address is a position. The general registers are    *)
(* abstracted to r0 (scratch) and r4 (kept by called functions).           *)
(***************************************************************************)
EXTENDS Integers, Sequences

CONSTANTS
  EntryIs,  \* CPSR.I when usr mode is entered: reset's TRUE, which Boot shows
            \* start.S keeps, and FALSE for a start.S that clears it
  UsrSp,    \* values sp_usr may have: no instruction of the program sets it
  MaxEdges  \* bound on presses and releases of the EINT8 key

ASSUME ConstAssumption ==
  EntryIs \subseteq BOOLEAN /\ UsrSp \subseteq Int /\ MaxEdges \in Nat

\* start.S:114-125, then main.c with interrupt_init inlined; main's loop is
\* the last two entries.
Thread == << "tip_1", "undef", "tip_2", "swi", "init_interrupt",
             "entry_init", "INTMSK", "GPGCON", "EINTMASK", "EXTINT1",
             "g_A", "A", "a" >>
LoopStart == 12
Registers == {"INTMSK", "GPGCON", "EINTMASK", "EXTINT1"}
Traps == {"undef", "swi"}

Modes == {"usr", "und", "svc", "irq"}
Regs == [r0: Int, r4: Int]

VARIABLES
  mode, masked,   \* CPSR: mode and I bit
  at,             \* position in the thread, or of the interrupted thread
  hpc,            \* next step of the running handler, 0 in the thread
  regs,           \* r0 and r4
  lr, spsr,       \* banked: return address and saved CPSR of each mode
  stack,          \* the frame at the top of each mode's stack
  usrSp, entryI,  \* sp_usr and I on entry: nothing changes them
  stuck,          \* in `b halt` or run away through a lost return address
  last,           \* last message printed by the thread or a trap handler
  gpg, edge,      \* GPG0 is EINT8; it triggers on both edges, not on low level
  eintpend, eintmask, srcpnd, intmsk, intpnd,   \* the EINT8 bits
  key, edges      \* EINT8 key down (pin low); times it moved

cpu == <<mode, masked, at, hpc, regs, lr, spsr, stack, usrSp, entryI, stuck, last>>
irqc == <<gpg, edge, eintpend, eintmask, srcpnd, intmsk, intpnd>>
keys == <<key, edges>>
excVars == <<cpu, irqc, keys>>
-----------------------------------------------------------------------------
\* What the thread keeps in its registers on reaching position i: a trap
\* must leave them as they were at the trap instruction.
Live(i) == IF i > 1 /\ Thread[i - 1] \in Traps THEN i - 1 ELSE i
ThreadRegs(i) == [r0 |-> Live(i), r4 |-> Live(i)]

Following(i) == IF i = Len(Thread) THEN LoopStart ELSE i + 1

\* RAM for the thread's frames: above the image at 0x30000000, below the
\* stack of do_irq at 0x33d00000.
InRam(sp) == sp > 805306368 + 65536 /\ sp <= 869269504 - 4096

NoFrame == [regs |-> [r0 |-> 0, r4 |-> 0], lr |-> 0]

Devices ==
  /\ gpg = FALSE /\ edge = FALSE /\ eintpend = FALSE /\ eintmask = TRUE
  /\ srcpnd = FALSE /\ intmsk = TRUE /\ intpnd = FALSE
  /\ key = FALSE /\ edges = 0

\* The switch to usr mode keeps the I bit of reset.
UsrEntry == mode = "usr" /\ masked = entryI

ExcInit ==
  /\ entryI \in EntryIs /\ UsrEntry /\ at = 1 /\ hpc = 0
  /\ regs = ThreadRegs(1)
  /\ lr = [m \in Modes |-> 0]
  /\ spsr = [m \in Modes |-> [mode |-> "usr", masked |-> TRUE]]
  /\ stack = [m \in Modes |-> NoFrame]
  /\ usrSp \in UsrSp /\ stuck = FALSE /\ last = "boot"
  /\ Devices

\* The processor enters mode m with return address ret, interrupts masked.
Enter(m, ret) ==
  /\ lr' = [lr EXCEPT ![m] = ret]
  /\ spsr' = [spsr EXCEPT ![m] = [mode |-> mode, masked |-> masked]]
  /\ mode' = m /\ masked' = TRUE /\ hpc' = 1
  /\ UNCHANGED <<at, regs, stack, usrSp, entryI, stuck, last, irqc, keys>>

\* An unmasked pending interrupt is taken before the next instruction.
Interrupted == hpc = 0 /\ ~stuck /\ intpnd /\ ~masked
InThread == hpc = 0 /\ ~stuck /\ ~(intpnd /\ ~masked)

\* A call: puts, printHex, putchar or interrupt_init need the usr stack.
ThreadPrint ==
  /\ InThread /\ Thread[at] \notin Registers \cup Traps /\ InRam(usrSp)
  /\ last' = Thread[at]
  /\ at' = Following(at) /\ regs' = ThreadRegs(Following(at))
  /\ UNCHANGED <<mode, masked, hpc, lr, spsr, stack, usrSp, entryI, stuck, irqc, keys>>

\* A frame pushed where there is no RAM: an abort into `b halt`, or a return
\* to a lost address.
LostFrame ==
  /\ InThread /\ Thread[at] \notin Registers \cup Traps /\ ~InRam(usrSp)
  /\ stuck' = TRUE
  /\ UNCHANGED <<mode, masked, at, hpc, regs, lr, spsr, stack, usrSp, entryI,
                 last, irqc, keys>>

\* One register of interrupt_init.
InterruptInit ==
  /\ InThread /\ Thread[at] \in Registers
  /\ intmsk' = (intmsk /\ Thread[at] # "INTMSK")
  /\ gpg' = (gpg \/ Thread[at] = "GPGCON")
  /\ eintmask' = (eintmask /\ Thread[at] # "EINTMASK")
  /\ edge' = (edge \/ Thread[at] = "EXTINT1")
  /\ at' = Following(at) /\ regs' = ThreadRegs(Following(at))
  /\ UNCHANGED <<mode, masked, hpc, lr, spsr, stack, usrSp, entryI, stuck, last,
                 eintpend, srcpnd, intpnd, keys>>

Trap ==
  /\ InThread /\ Thread[at] \in Traps
  /\ Enter(IF Thread[at] = "undef" THEN "und" ELSE "svc", at + 1)

\* lr_irq is one instruction further than the thread has got.
Interrupt == Interrupted /\ Enter("irq", at + 1)
-----------------------------------------------------------------------------
\* ldr sp, sub lr (do_irq only), stmdb sp!, {r0-r12, lr}
Save(m, ret) ==
  /\ mode = m /\ hpc = 1 /\ hpc' = 2
  /\ lr' = [lr EXCEPT ![m] = ret]
  /\ stack' = [stack EXCEPT ![m] = [regs |-> regs, lr |-> ret]]
  /\ UNCHANGED <<mode, masked, at, regs, spsr, usrSp, entryI, stuck, last, irqc, keys>>

\* bl to a C function in mode m: r0 and lr are lost, r4 becomes kept.
Call(m, step, kept, msg) ==
  /\ mode = m /\ hpc = step /\ hpc' = step + 1
  /\ regs' = [r0 |-> 0, r4 |-> kept]
  /\ lr' = [lr EXCEPT ![m] = 0]
  /\ last' = msg
  /\ UNCHANGED <<mode, masked, at, spsr, stack, usrSp, entryI, stuck>>

\* r0 left out of the registers a handler restores.
ReturnWithoutR0(m, step) ==
  /\ mode = m /\ hpc = step /\ hpc' = 0
  /\ regs' = [stack[m].regs EXCEPT !.r0 = regs.r0] /\ at' = stack[m].lr
  /\ mode' = spsr[m].mode /\ masked' = spsr[m].masked
  /\ UNCHANGED <<lr, spsr, stack, usrSp, entryI, stuck, last, irqc, keys>>

\* msr in place of the caret, with a CPSR that has the I bit clear.
ReturnUnmasked(m, step) ==
  /\ mode = m /\ hpc = step /\ hpc' = 0
  /\ regs' = stack[m].regs /\ at' = stack[m].lr
  /\ mode' = spsr[m].mode /\ masked' = FALSE
  /\ UNCHANGED <<lr, spsr, stack, usrSp, entryI, stuck, last, irqc, keys>>

\* ldmia sp!, {r0-r12, pc}^
Return(m, step) ==
  /\ mode = m /\ hpc = step /\ hpc' = 0
  /\ regs' = stack[m].regs /\ at' = stack[m].lr
  /\ mode' = spsr[m].mode /\ masked' = spsr[m].masked
  /\ UNCHANGED <<lr, spsr, stack, usrSp, entryI, stuck, last, irqc, keys>>

DoUnd ==
  \/ Save("und", lr["und"])
  \/ Call("und", 2, regs.r4, "und_cpsr") /\ UNCHANGED <<irqc, keys>>
  \/ Call("und", 3, regs.r4, "und_exception") /\ UNCHANGED <<irqc, keys>>
  \/ Return("und", 4)

\* r4 taken for the address of the swi instruction.
DoSwiNextWord ==
  \/ Save("svc", lr["svc"])
  \/ Call("svc", 2, lr["svc"], "swi_cpsr") /\ UNCHANGED <<irqc, keys>>
  \/ Call("svc", 3, regs.r4, "swi_exception") /\ UNCHANGED <<irqc, keys>>
  \/ Call("svc", 4, regs.r4, Thread[regs.r4]) /\ UNCHANGED <<irqc, keys>>
  \/ Return("svc", 5)

\* r4 keeps the return address over the calls; the word before it, the swi
\* instruction, is printed.
DoSwi ==
  \/ Save("svc", lr["svc"])
  \/ Call("svc", 2, lr["svc"], "swi_cpsr") /\ UNCHANGED <<irqc, keys>>
  \/ Call("svc", 3, regs.r4, "swi_exception") /\ UNCHANGED <<irqc, keys>>
  \/ regs.r4 - 1 \in 1..Len(Thread)
     /\ Call("svc", 4, regs.r4, Thread[regs.r4 - 1]) /\ UNCHANGED <<irqc, keys>>
  \/ Return("svc", 5)

\* interrupt_service: puts, then SRCPND and INTPND of the source INTOFFSET
\* names, the only one unmasked.
InterruptService ==
  \/ Call("irq", 2, regs.r4, last) /\ UNCHANGED <<irqc, keys>>
  \/ /\ Call("irq", 3, regs.r4, last) /\ srcpnd' = FALSE
     /\ UNCHANGED <<gpg, edge, eintpend, eintmask, intmsk, intpnd, keys>>
  \/ /\ Call("irq", 4, regs.r4, last) /\ intpnd' = FALSE
     /\ UNCHANGED <<gpg, edge, eintpend, eintmask, srcpnd, intmsk, keys>>

DoIrq == Save("irq", lr["irq"] - 1) \/ InterruptService \/ Return("irq", 5)
-----------------------------------------------------------------------------
\* The pin: once GPG0 is EINT8, a press latches EINTPEND, and a release too
\* when EXTINT1 asks for both edges; before that, EINTPEND follows the level.
KeyMove ==
  /\ edges < MaxEdges /\ edges' = edges + 1
  /\ key' = ~key
  /\ eintpend' = (eintpend \/ (gpg /\ (edge \/ key')))
  /\ UNCHANGED <<cpu, gpg, edge, eintmask, srcpnd, intmsk, intpnd>>
LowLevel ==
  /\ gpg /\ key /\ ~edge /\ ~eintpend /\ eintpend' = TRUE
  /\ UNCHANGED <<cpu, gpg, edge, eintmask, srcpnd, intmsk, intpnd, keys>>

\* The controller: an unmasked EINTPEND requests SRCPND, and INTPND follows
\* an unmasked SRCPND.
Request ==
  /\ eintpend /\ ~eintmask /\ ~srcpnd /\ srcpnd' = TRUE
  /\ UNCHANGED <<cpu, gpg, edge, eintpend, eintmask, intmsk, intpnd, keys>>
Pend ==
  /\ srcpnd /\ ~intmsk /\ ~intpnd /\ intpnd' = TRUE
  /\ UNCHANGED <<cpu, gpg, edge, eintpend, eintmask, srcpnd, intmsk, keys>>

Processor == \/ ThreadPrint \/ LostFrame \/ InterruptInit \/ Trap \/ Interrupt
             \/ DoUnd \/ DoSwi \/ DoIrq
Controller == LowLevel \/ Request \/ Pend
ExcNext == Processor \/ KeyMove \/ Controller

ExcSpec == ExcInit /\ [][ExcNext]_excVars
\* The processor executes and the controller's gates propagate; keys need not.
FairExc == ExcSpec /\ WF_excVars(Processor) /\ WF_excVars(Controller)
-----------------------------------------------------------------------------
ExcTypeOK ==
  /\ mode \in Modes /\ masked \in BOOLEAN /\ at \in 1..Len(Thread)
  /\ hpc \in 0..5 /\ regs \in Regs /\ lr \in [Modes -> Int]
  /\ spsr \in [Modes -> [mode: Modes, masked: BOOLEAN]]
  /\ stack \in [Modes -> [regs: Regs, lr: Int]]
  /\ usrSp \in UsrSp /\ entryI \in BOOLEAN /\ stuck \in BOOLEAN
  /\ gpg \in BOOLEAN /\ edge \in BOOLEAN /\ eintpend \in BOOLEAN
  /\ eintmask \in BOOLEAN /\ srcpnd \in BOOLEAN /\ intmsk \in BOOLEAN
  /\ intpnd \in BOOLEAN /\ key \in BOOLEAN /\ edges \in 0..MaxEdges

\* Whenever the thread runs, its registers, mode and interrupt mask are as if
\* no handler had run (start.S:25-42, 143-169, 185-198).
ContextKept ==
  hpc = 0 => mode = "usr" /\ masked = entryI /\ regs = ThreadRegs(at)

\* interrupt.c:8, "the interrupt cannot be triggered": do_irq never runs,
\* whatever the controller has pending, when reset's I bit is kept.
IrqNeverTaken == entryI => mode # "irq"

\* Each message once and in order: the two handlers report between the tips
\* of start.S around the instruction that trapped, and do_swi finds the swi
\* instruction (start.S:114-125, 155-166).
Transcript == << "boot", "tip_1", "und_cpsr", "und_exception", "tip_2",
                 "swi_cpsr", "swi_exception", "swi", "init_interrupt",
                 "entry_init", "g_A", "A", "a" >>
InOrder ==
  [][\/ \E i \in 1..Len(Transcript)-1 :
          last = Transcript[i] /\ last' = Transcript[i + 1]
     \/ last = "a" /\ last' = "A"]_last

\* clock/README.md:8-9, the stack pointer must be initialised: every call of
\* the thread has RAM under sp_usr.  It has not: no instruction sets sp_usr.
UsrStackInRam == InThread /\ Thread[at] \notin Registers \cup Traps => InRam(usrSp)

\* interrupt.c:13, "enable the EINT8 interrupt": a pending interrupt is eventually
\* taken.  It is not with the I bit of reset, which nothing clears.
PendingServed == intpnd ~> (mode = "irq" \/ stuck)
=============================================================================
