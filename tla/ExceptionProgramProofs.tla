------------------------- MODULE ExceptionProgramProofs -------------------------
(***************************************************************************)
(* Proofs about the three parts of the exception program: Boot, for every  *)
(* image, memory size, stack depth, place of the usr stack and number of   *)
(* resets that its assumptions allow; Exceptions, with and without the I   *)
(* bit of reset; and Uart, for texts of any length and any number of       *)
(* interrupts.                                                             *)
(***************************************************************************)
EXTENDS Boot, Exceptions, Uart, SequenceTheorems, TLAPS

(***************************************************************************)
(* Boot: the reset path and relocation.                                    *)
(***************************************************************************)
\* Where the reset path stands: which blocks have set up which resource.
Progress ==
  /\ pc \in {"reset", "clock", "probe"} => sp = "unset"
  /\ pc \notin {"reset", "clock", "probe"} => sp # "unset"
  /\ pc \in {"copy", "clean", "mode", "uart", "messages", "run"} => ready
  /\ cpsr = (IF pc \in {"uart", "messages", "run", "lost"} THEN 208 ELSE 211)

\* How far the two loops of relocate have got.
LoopInv ==
  /\ pc = "copy" => /\ dest \in 0..N
                    /\ \A w \in 0..dest-1 : sdram[w] = Image[w]
  /\ pc = "clean" => /\ dest \in N..EndWord+1
                     /\ \A w \in 0..N-1 : sdram[w] = Image[w]
                     /\ \A w \in N..dest-1 : sdram[w] = 0

BootIInv == BootTypeOK /\ Progress /\ VectorsIntact /\ StackInRam /\ LoopInv /\ Loaded

\* _end lies in the word EndWord; that word is modelled and above .data.
LEMMA EndWordFacts ==
  /\ EndWord \in Nat /\ EndWord < MemWords /\ N <= EndWord
  /\ \A d \in Nat : 4 * d <= EndByte <=> d <= EndWord
BY SizeAssumption DEF EndWord

\* Power up puts the image at address 0 on either medium.
LEMMA LowImageHoldsImage ==
  ASSUME NEW m \in Media
  PROVE  /\ LowImage(m) \in [Words -> Int]
         /\ \A w \in 0..N-1 : LowImage(m)[w] = Image[w]
<1>1. \A w \in 0..N-1 : w \in Words /\ (m = "nor" \/ w < SramWords)
  BY SizeAssumption, MediaAssumption, EndWordFacts DEF Words
<1>2. \A w \in Words : w < N => Image[w] \in Int
  BY SizeAssumption, ImageAssumption DEF Words
<1>3. LowImage(m) \in [Words -> Int]
  BY <1>2, ImageAssumption DEF LowImage
<1>4. \A w \in 0..N-1 : LowImage(m)[w] = Image[w]
  BY <1>1, SizeAssumption DEF LowImage
<1>5. QED
  BY <1>3, <1>4

LEMMA BlankSdram == [w \in Words |-> Junk] \in [Words -> Int]
BY ImageAssumption

\* Nothing but a reset moves the usr stack.
LEMMA ClearKept ==
  ASSUME UNCHANGED <<usrStack, medium>>
  PROVE  Clear(UsrFrame)' <=> Clear(UsrFrame)
BY DEF Clear, Held, Frames, Program, Writable

\* Frames clear of the program leave it alone, those of a single word too.
LEMMA PushKeeps ==
  ASSUME BootTypeOK, NEW depth \in 1..UsrFrame, Push(depth)
  PROVE  /\ low' \in [Words -> Int] /\ sdram' \in [Words -> Int]
         /\ Clear(UsrFrame) => /\ \A w \in 0..N-1 : low'[w] = low[w]
                              /\ \A w \in 0..EndWord : sdram'[w] = sdram[w]
                              /\ Clear(depth)
<1>1. low' \in [Words -> Int] /\ sdram' \in [Words -> Int]
  BY ImageAssumption DEF Push, BootTypeOK
<1>2. usrStack.top \in Int /\ usrStack.mem \in {"low", "sdram", "none"}
  BY UsrAssumption DEF BootTypeOK
<1>3. Frames(depth) \subseteq Frames(UsrFrame)
  BY <1>2, UsrAssumption DEF Frames
<1>4. ASSUME Clear(UsrFrame)
      PROVE  /\ \A w \in 0..N-1 : low'[w] = low[w]
             /\ \A w \in 0..EndWord : sdram'[w] = sdram[w]
  <2>1. /\ \A w \in 0..N-1 : w \in Words
        /\ \A w \in 0..EndWord : w \in Words
    BY SizeAssumption, EndWordFacts DEF Words
  <2>2. usrStack.mem = "low" => Frames(depth) \intersect 0..N-1 = {}
    BY <1>3, <1>4 DEF Clear, Program
  <2>3. usrStack.mem = "sdram" => Frames(depth) \intersect 0..EndWord = {}
    BY <1>3, <1>4 DEF Clear, Program
  <2>4. ASSUME NEW w \in 0..N-1 PROVE low'[w] = low[w]
    BY <2>1, <2>2, <2>4 DEF Push
  <2>5. ASSUME NEW w \in 0..EndWord PROVE sdram'[w] = sdram[w]
    BY <2>1, <2>3, <2>5 DEF Push
  <2>6. QED
    BY <2>4, <2>5
<1>5. Clear(UsrFrame) => Clear(depth)
  BY <1>3 DEF Clear, Held
<1>6. QED
  BY <1>1, <1>4, <1>5

LEMMA BootInitIInv == BootInit => BootIInv
<1> SUFFICES ASSUME BootInit PROVE BootIInv
  OBVIOUS
<1>1. medium \in Media /\ low \in [Words -> Int] /\ sdram \in [Words -> Int]
  BY LowImageHoldsImage, BlankSdram DEF BootInit
<1>2. dest \in 0..MemWords /\ cpsr \in 0..255 /\ resets \in 0..MaxResets
  BY SizeAssumption DEF BootInit
<1>3. BootTypeOK
  BY <1>1, <1>2 DEF BootInit, BootTypeOK, Steps
<1>4. VectorsIntact
  BY LowImageHoldsImage DEF BootInit, VectorsIntact
<1>5. QED
  BY <1>3, <1>4 DEF BootInit, BootIInv, Progress, StackInRam, LoopInv, Loaded

\* A chip reset from any state establishes the invariant again.
LEMMA ResetIInv ==
  ASSUME BootIInv, ChipReset, resets' \in 0..MaxResets
  PROVE  BootIInv'
<1>1. medium' \in Media /\ low' \in [Words -> Int]
  BY LowImageHoldsImage DEF BootIInv, BootTypeOK, ChipReset
<1>2. sdram' \in [Words -> Int]
  BY BlankSdram DEF BootIInv, BootTypeOK, ChipReset
<1>3. dest' \in 0..MemWords /\ cpsr' \in 0..255
  BY SizeAssumption DEF ChipReset
<1>4. BootTypeOK'
  BY <1>1, <1>2, <1>3 DEF ChipReset, BootTypeOK, Steps
<1>5. VectorsIntact'
  BY LowImageHoldsImage DEF BootIInv, BootTypeOK, ChipReset, VectorsIntact
<1>6. QED
  BY <1>4, <1>5 DEF ChipReset, BootIInv, Progress, StackInRam, LoopInv, Loaded

LEMMA BootNextIInv == BootIInv /\ [BootNext]_bootVars => BootIInv'
<1> SUFFICES ASSUME BootIInv, [BootNext]_bootVars PROVE BootIInv'
  OBVIOUS
<1> USE DEF BootIInv
<1>1. CASE WatchdogOff
  BY <1>1 DEF WatchdogOff, BootTypeOK, Steps, Progress, VectorsIntact,
              StackInRam, LoopInv, Loaded
<1>2. CASE ClockInit
  BY <1>2 DEF ClockInit, BootTypeOK, Steps, Progress, VectorsIntact,
              StackInRam, LoopInv, Loaded
<1>3. CASE Probe
  <2> DEFINE zeroed == Store(low, 0, 0)
  <2>1. 0 \in Words /\ 0 \in 0..N-1 /\ low[0] = Image[0] /\ low[0] # 0
    BY <1>3, SizeAssumption, ImageAssumption, EndWordFacts DEF Probe, VectorsIntact, Words
  <2>2. zeroed[0] = 0 <=> Writable(0)
    BY <2>1 DEF BootTypeOK, Store
  <2>3. Writable(0) <=> medium = "nand"
    BY SizeAssumption, MediaAssumption DEF Writable, BootTypeOK
  <2>4. low' = low /\ (sp' = "low" <=> medium = "nand") /\ sp' \in {"low", "sram"}
    <3>1. CASE Writable(0)
      <4>1. sp' = "low" /\ low' = Store(zeroed, 0, low[0])
        BY <1>3, <2>2, <3>1 DEF Probe
      <4>2. Store(zeroed, 0, low[0]) = low
        BY <2>1, <3>1 DEF Store, BootTypeOK
      <4>3. QED
        BY <4>1, <4>2, <3>1, <2>3
    <3>2. CASE ~Writable(0)
      <4>1. sp' = "sram" /\ low' = zeroed /\ zeroed = low
        BY <1>3, <2>2, <3>2 DEF Probe, Store
      <4>2. QED
        BY <4>1, <3>2, <2>3
    <3>3. QED
      BY <3>1, <3>2
  <2>5. QED
    BY <1>3, <2>4 DEF Probe, BootTypeOK, Steps, Progress, VectorsIntact,
                      StackInRam, LoopInv, Loaded
<1>4. CASE SdramInit
  <2>1. Pushed \in [Words -> Int]
    BY ImageAssumption DEF Pushed, BootTypeOK
  <2>2. \A w \in 0..N-1 : Pushed[w] = low[w]
    <3>1. \A w \in 0..N-1 : w \in Words
      BY SizeAssumption, EndWordFacts DEF Words
    <3>2. medium = "nand" => \A w \in 0..N-1 : ~(w >= SramWords - Frame)
      BY SizeAssumption, MediaAssumption DEF BootTypeOK
    <3>3. QED
      BY <3>1, <3>2 DEF Pushed, Writable
  <2>3. QED
    BY <1>4, <2>1, <2>2, SizeAssumption
       DEF SdramInit, BootTypeOK, Steps, Progress, VectorsIntact, StackInRam,
           LoopInv, Loaded
<1>5. CASE Copy2Sdram
  <2>1. CASE /\ dest < N
             /\ SdramStore(dest, low[dest])
             /\ dest' = dest + 1 /\ UNCHANGED pc
    <3>1. ready /\ dest \in 0..N-1 /\ dest \in Words /\ low[dest] = Image[dest]
      BY <1>5, <2>1, SizeAssumption, EndWordFacts
         DEF Copy2Sdram, Progress, LoopInv, VectorsIntact, Words
    <3>2. sdram' = [sdram EXCEPT ![dest] = low[dest]]
      BY <2>1, <3>1 DEF SdramStore
    <3>3. BootTypeOK'
      BY <1>5, <2>1, <3>1, <3>2, SizeAssumption, EndWordFacts
         DEF Copy2Sdram, BootTypeOK, Words
    <3>4. LoopInv'
      BY <1>5, <2>1, <3>1, <3>2, SizeAssumption, EndWordFacts
         DEF Copy2Sdram, BootTypeOK, LoopInv, Words
    <3>5. QED
      BY <1>5, <2>1, <3>3, <3>4
         DEF Copy2Sdram, Progress, VectorsIntact, StackInRam, Loaded
  <2>2. CASE /\ dest >= N
             /\ pc' = "clean" /\ UNCHANGED <<sdram, dest>>
    <3>1. dest = N
      BY <1>5, <2>2, SizeAssumption DEF Copy2Sdram, LoopInv
    <3>2. QED
      BY <1>5, <2>2, <3>1, SizeAssumption, EndWordFacts
         DEF Copy2Sdram, BootTypeOK, Steps, Progress, VectorsIntact, StackInRam,
             LoopInv, Loaded
  <2>3. QED
    BY <1>5, <2>1, <2>2 DEF Copy2Sdram
<1>6. CASE CleanBss
  <2>1. dest \in Nat
    BY SizeAssumption DEF BootTypeOK
  <2>2. CASE /\ 4 * dest <= EndByte
             /\ SdramStore(dest, 0)
             /\ dest' = dest + 1 /\ UNCHANGED pc
    <3>1. ready /\ dest \in N..EndWord /\ dest \in Words
      BY <1>6, <2>1, <2>2, SizeAssumption, EndWordFacts
         DEF CleanBss, CleanTo, Progress, LoopInv, Words
    <3>2. sdram' = [sdram EXCEPT ![dest] = 0]
      BY <2>2, <3>1 DEF SdramStore
    <3>3. BootTypeOK'
      BY <1>6, <2>2, <3>1, <3>2, SizeAssumption, EndWordFacts
         DEF CleanBss, CleanTo, BootTypeOK, Words
    <3>4. LoopInv'
      BY <1>6, <2>2, <3>1, <3>2, SizeAssumption, EndWordFacts
         DEF CleanBss, CleanTo, BootTypeOK, LoopInv, Words
    <3>5. QED
      BY <1>6, <2>2, <3>3, <3>4
         DEF CleanBss, CleanTo, Progress, VectorsIntact, StackInRam, Loaded
  <2>3. CASE /\ 4 * dest > EndByte
             /\ pc' = "mode" /\ UNCHANGED <<sdram, dest>>
    <3>1. dest = EndWord + 1
      BY <1>6, <2>1, <2>3, SizeAssumption, EndWordFacts DEF CleanBss, CleanTo, LoopInv
    <3>2. QED
      BY <1>6, <2>3, <3>1, SizeAssumption, EndWordFacts
         DEF CleanBss, CleanTo, BootTypeOK, Steps, Progress, VectorsIntact, StackInRam,
             LoopInv, Loaded
  <2>4. QED
    BY <1>6, <2>2, <2>3 DEF CleanBss, CleanTo
<1>7. CASE EnterUsr
  <2>1. cpsr = 211 /\ cpsr' = 208
    BY <1>7 DEF EnterUsr, Progress
  <2>2. QED
    BY <1>7, <2>1 DEF EnterUsr, BootTypeOK, Steps, Progress, VectorsIntact,
                      StackInRam, LoopInv, Loaded
<1>8. CASE Uart0Init
  <2>1. /\ pc = "uart" /\ pc' \in {"messages", "lost"} /\ ubrdiv' = 26 /\ Push(1)
        /\ UNCHANGED <<medium, wdt, fclk, ready, sp, dest, cpsr, usrStack, resets>>
    BY <1>8 DEF Uart0Init
  <2>2. /\ low' \in [Words -> Int] /\ sdram' \in [Words -> Int]
        /\ Clear(UsrFrame) => /\ \A w \in 0..N-1 : low'[w] = low[w]
                             /\ \A w \in 0..EndWord : sdram'[w] = sdram[w]
    BY <2>1, PushKeeps, UsrAssumption
  <2>3. Clear(UsrFrame)' <=> Clear(UsrFrame)
    BY <2>1, ClearKept
  <2>4. BootTypeOK'
    BY <2>1, <2>2 DEF BootTypeOK, Steps
  <2>5. VectorsIntact'
    BY <2>1, <2>2, <2>3 DEF VectorsIntact
  <2>6. Loaded'
    BY <2>1, <2>2, <2>3, SizeAssumption, EndWordFacts DEF Loaded
  <2>7. QED
    BY <2>1, <2>4, <2>5, <2>6 DEF Progress, StackInRam, LoopInv
<1>14. CASE Messages
  <2>1. /\ pc = "messages" /\ pc' \in {"run", "lost"} /\ Push(UsrFrame)
        /\ UNCHANGED <<medium, wdt, fclk, ready, sp, dest, cpsr, ubrdiv, usrStack, resets>>
    BY <1>14 DEF Messages
  <2>2. /\ low' \in [Words -> Int] /\ sdram' \in [Words -> Int]
        /\ Clear(UsrFrame) => \A w \in 0..N-1 : low'[w] = low[w]
    BY <2>1, PushKeeps, UsrAssumption
  <2>3. Clear(UsrFrame)' <=> Clear(UsrFrame)
    BY <2>1, ClearKept
  <2>4. BootTypeOK'
    BY <2>1, <2>2 DEF BootTypeOK, Steps
  <2>5. VectorsIntact'
    BY <2>1, <2>2, <2>3 DEF VectorsIntact
  <2>6. QED
    BY <2>1, <2>4, <2>5 DEF Progress, StackInRam, LoopInv, Loaded
<1>9. CASE MainStore
  <2>1. PICK w \in DataStart..N-1, v \in Vals : SdramStore(w, v)
    BY <1>9 DEF MainStore
  <2>2. sdram' \in [Words -> Int]
    BY <2>1, ImageAssumption DEF SdramStore, BootTypeOK
  <2>3. QED
    BY <1>9, <2>2, ClearKept DEF MainStore, BootTypeOK, Progress, VectorsIntact, StackInRam,
                      LoopInv, Loaded
<1>10. CASE WatchdogBite
  BY <1>10, ResetIInv DEF WatchdogBite, BootTypeOK
<1>11. CASE ResetButton
  BY <1>11, ResetIInv, SizeAssumption DEF ResetButton, BootTypeOK
<1>12. CASE UNCHANGED bootVars
  BY <1>12, ClearKept DEF bootVars, BootTypeOK, Progress, VectorsIntact, StackInRam, LoopInv, Loaded
<1>13. QED
  BY <1>1, <1>2, <1>3, <1>4, <1>5, <1>6, <1>7, <1>8, <1>9, <1>10, <1>11, <1>12, <1>14
     DEF BootNext, Code

LEMMA BootIInvHolds == BootSpec => []BootIInv
<1>1. BootInit => BootIInv
  BY BootInitIInv
<1>2. BootIInv /\ [BootNext]_bootVars => BootIInv'
  BY BootNextIInv
<1>3. QED
  BY <1>1, <1>2, PTL DEF BootSpec
-----------------------------------------------------------------------------
\* Every variable of Boot keeps its type.
THEOREM BootTypeCorrect == BootSpec => []BootTypeOK
<1>1. BootIInv => BootTypeOK
  BY DEF BootIInv
<1>2. QED
  BY <1>1, BootIInvHolds, PTL

\* relocate leaves the linked image and zeroed .bss in SDRAM, on either
\* medium and whatever a previous run left there (relocate.c, start.S:103).
THEOREM LoadedCorrect == BootSpec => []Loaded
<1>1. BootIInv => Loaded
  BY DEF BootIInv
<1>2. QED
  BY <1>1, BootIInvHolds, PTL

\* The vectors and handlers at address 0 survive the probe and the stack, and the
\* frames of usr mode if sp_usr happens to point to RAM clear of the program.
THEOREM VectorsIntactCorrect == BootSpec => []VectorsIntact
<1>1. BootIInv => VectorsIntact
  BY DEF BootIInv
<1>2. QED
  BY <1>1, BootIInvHolds, PTL

\* The stack the probe chooses is in RAM (start.S:92-99).
THEOREM StackInRamCorrect == BootSpec => []StackInRam
<1>1. BootIInv => StackInRam
  BY DEF BootIInv
<1>2. QED
  BY <1>1, BootIInvHolds, PTL

\* The program runs in usr mode with interrupts masked (start.S:108-110).
THEOREM UsrModeCorrect == BootSpec => []UsrMode
<1>1. BootIInv => UsrMode
  BY DEF BootIInv, Progress, UsrMode
<1>2. QED
  BY <1>1, BootIInvHolds, PTL

\* Boot implements Loader: main is handed fresh memory at every start, and
\* between two starts only main's own stores change it, unless a frame of usr mode
\* was pushed over the program.
THEOREM BootImplementsLoader == BootSpec => ImplementsLoader
<1> USE DEF L!Init, L!Next, L!Start, L!Store, L!PowerDown
<1>1. BootInit => L!Init
  BY DEF BootInit, Usable
<1>2. BootIInv /\ [BootNext]_bootVars => [L!Next]_<<IF Usable THEN "run" ELSE "boot",
         IF Usable THEN [w \in LinkWords |-> sdram[w]] ELSE Blank>>
  <2> SUFFICES ASSUME BootIInv, [BootNext]_bootVars
               PROVE  [L!Next]_<<IF Usable THEN "run" ELSE "boot",
                 IF Usable THEN [w \in LinkWords |-> sdram[w]] ELSE Blank>>
    OBVIOUS
  <2>1. CASE Messages
    <3>1. /\ pc = "messages" /\ Push(UsrFrame) /\ UNCHANGED <<usrStack, medium>>
          /\ ~Usable
      BY <2>1 DEF Messages, Usable
    <3>2. CASE Usable'
      <4>1. Clear(UsrFrame)
        BY <3>1, <3>2, ClearKept DEF Usable
      <4>2. \A w \in 0..EndWord : sdram'[w] = sdram[w]
        BY <3>1, <4>1, PushKeeps, UsrAssumption DEF BootIInv
      <4>3. \A w \in 0..EndWord : sdram[w] = IF w < N THEN Image[w] ELSE 0
        BY <3>1, <4>1, SizeAssumption, EndWordFacts DEF BootIInv, Loaded
      <4>4. [w \in LinkWords |-> sdram'[w]]
              = [w \in LinkWords |-> IF w < N THEN Image[w] ELSE 0]
        BY <4>2, <4>3 DEF LinkWords
      <4>5. L!Start
        BY <3>1, <3>2, <4>4
      <4>6. QED
        BY <4>5
    <3>3. CASE ~Usable'
      BY <3>1, <3>3
    <3>4. QED
      BY <3>2, <3>3
  <2>2. CASE MainStore
    <3>1. PICK w \in DataStart..N-1, v \in Vals : SdramStore(w, v)
      BY <2>2 DEF MainStore
    <3>2. pc = "run" /\ pc' = "run" /\ sdram' = [sdram EXCEPT ![w] = v]
      BY <2>2, <3>1 DEF MainStore, BootIInv, Progress, SdramStore
    <3>3. Usable' <=> Usable
      BY <2>2, <3>2, ClearKept DEF MainStore, Usable
    <3>4. LinkWords \subseteq Words
      BY SizeAssumption, EndWordFacts DEF LinkWords, Words
    <3>5. [u \in LinkWords |-> sdram'[u]]
            = [[u \in LinkWords |-> sdram[u]] EXCEPT ![w] = v]
      BY <3>2, <3>4 DEF BootIInv, BootTypeOK
    <3>6. CASE Usable
      <4>1. L!Store
        BY <3>1, <3>3, <3>5, <3>6
      <4>2. QED
        BY <4>1
    <3>7. CASE ~Usable
      BY <3>3, <3>7
    <3>8. QED
      BY <3>6, <3>7
  <2>3. CASE WatchdogBite \/ ResetButton
    <3>1. ~Usable'
      BY <2>3 DEF WatchdogBite, ResetButton, ChipReset, Usable
    <3>2. CASE Usable
      <4>1. L!PowerDown
        BY <3>1, <3>2
      <4>2. QED
        BY <4>1
    <3>3. CASE ~Usable
      BY <3>1, <3>3
    <3>4. QED
      BY <3>2, <3>3
  <2>4. CASE WatchdogOff \/ ClockInit \/ Probe \/ SdramInit \/ Copy2Sdram
             \/ CleanBss \/ EnterUsr \/ Uart0Init
    <3>1. pc # "run" /\ pc' # "run"
      BY <2>4 DEF WatchdogOff, ClockInit, Probe, SdramInit, Copy2Sdram,
                  CleanBss, CleanTo, EnterUsr, Uart0Init
    <3>2. ~Usable /\ ~Usable'
      BY <3>1 DEF Usable
    <3>3. QED
      BY <3>2
  <2>5. CASE UNCHANGED bootVars
    <3>1. (Usable' <=> Usable) /\ sdram' = sdram
      BY <2>5, ClearKept DEF bootVars, Usable
    <3>2. QED
      BY <3>1
  <2>6. QED
    BY <2>1, <2>2, <2>3, <2>4, <2>5 DEF BootNext, Code
<1>3. QED
  BY <1>1, <1>2, BootIInvHolds, PTL DEF BootSpec, ImplementsLoader, L!Spec

(***************************************************************************)
(* Exceptions: traps, the interrupt and the thread.                        *)
(***************************************************************************)
\* Where do_und, do_swi and do_irq return to.
Resume == IF mode = "irq" THEN at ELSE at + 1

\* A handler runs masked, over the CPSR of the thread, and a trap handler
\* only for its own instruction.
InHandler ==
  /\ masked /\ spsr[mode] = [mode |-> "usr", masked |-> entryI]
  /\ mode = "und" => at = 2 /\ hpc \in 1..4
  /\ mode = "svc" => at = 4 /\ hpc \in 1..5
  /\ mode = "irq" => ~entryI /\ hpc \in 1..5

\* Before the save the registers are the thread's; after it the frame holds
\* them and the position to return to.
Saved ==
  /\ hpc = 1 => regs = ThreadRegs(at) /\ lr[mode] = at + 1
  /\ hpc = 2 => lr[mode] = Resume
  /\ hpc > 1 => stack[mode] = [regs |-> ThreadRegs(Resume), lr |-> Resume]
  /\ mode = "svc" /\ hpc > 2 => regs.r4 = at + 1

\* The last message on reaching a position of the thread ...
Reported ==
  /\ at = 1 => last = "boot"
  /\ at = 2 => last = "tip_1"
  /\ at = 3 => last = "und_exception"
  /\ at = 4 => last = "tip_2"
  /\ at = 5 => last = "swi"
  /\ at = 6 => last = "init_interrupt"
  /\ at \in 7..11 => last = "entry_init"
  /\ at = 12 => last = "g_A" \/ last = "a"
  /\ at = 13 => last = "A"

\* ... and within a handler, which reports before the thread moves on.
Told ==
  /\ mode \notin {"und", "svc"} \/ hpc < 3 => Reported
  /\ mode = "und" /\ hpc = 3 => last = "und_cpsr"
  /\ mode = "und" /\ hpc = 4 => last = "und_exception"
  /\ mode = "svc" /\ hpc = 3 => last = "swi_cpsr"
  /\ mode = "svc" /\ hpc = 4 => last = "swi_exception"
  /\ mode = "svc" /\ hpc = 5 => last = "swi"

ExcIInv ==
  /\ ExcTypeOK /\ ContextKept /\ Told
  /\ mode = "usr" <=> hpc = 0
  /\ hpc > 0 => InHandler /\ Saved

\* The thread in numbers: its length, its traps and its register writes.
LEMMA ThreadFacts ==
  /\ Len(Thread) = 13 /\ Thread[2] = "undef" /\ Thread[4] = "swi"
  /\ \A i \in 1..13 : /\ Thread[i] \in Traps <=> i \in {2, 4}
                      /\ Thread[i] \in Registers <=> i \in 7..10
                      /\ Thread[i] = "undef" <=> i = 2
BY DEF Thread, Traps, Registers

\* After a trap the thread's registers are those at the trap.
LEMMA TrapRegs ==
  /\ ThreadRegs(3) = ThreadRegs(2) /\ ThreadRegs(5) = ThreadRegs(4)
  /\ \A i \in 1..13 : ThreadRegs(i) \in Regs /\ Following(i) \in 1..13
BY ThreadFacts DEF ThreadRegs, Live, Following, LoopStart, Regs

LEMMA ExcInitIInv == ExcInit => ExcIInv
<1> SUFFICES ASSUME ExcInit PROVE ExcIInv
  OBVIOUS
<1>1. regs \in Regs /\ [r0 |-> 0, r4 |-> 0] \in Regs
  BY ThreadFacts, TrapRegs DEF ExcInit, UsrEntry, Devices, Regs
<1>2. NoFrame \in [regs: Regs, lr: Int]
  BY <1>1 DEF NoFrame
<1>3. stack \in [Modes -> [regs: Regs, lr: Int]]
  BY <1>2 DEF ExcInit, UsrEntry, Devices
<1>4. spsr \in [Modes -> [mode: Modes, masked: BOOLEAN]]
  BY DEF ExcInit, UsrEntry, Devices, Modes
<1>5. lr \in [Modes -> Int] /\ mode \in Modes /\ masked \in BOOLEAN
  BY ConstAssumption DEF ExcInit, UsrEntry, Devices, Modes
<1>6. at \in 1..Len(Thread) /\ hpc \in 0..5 /\ edges \in 0..MaxEdges
  BY ThreadFacts, ConstAssumption DEF ExcInit, UsrEntry, Devices
<1>7. ExcTypeOK
  BY <1>1, <1>3, <1>4, <1>5, <1>6 DEF ExcInit, UsrEntry, Devices, ExcTypeOK
<1>8. ContextKept /\ Told
  BY DEF ExcInit, UsrEntry, Devices, ContextKept, Told, Reported
<1>9. QED
  BY <1>7, <1>8 DEF ExcInit, UsrEntry, Devices, ExcIInv

\* The invariant but for its types is about the processor.
LEMMA SameProcessor ==
  ASSUME ExcIInv, cpu' = cpu, ExcTypeOK'
  PROVE  ExcIInv'
<1>1. ContextKept' /\ Told'
  BY DEF ExcIInv, ContextKept, Told, Reported, cpu
<1>2. (mode = "usr" <=> hpc = 0)'
  BY DEF ExcIInv, cpu
<1>3. (hpc > 0 => InHandler /\ Saved)'
  BY DEF ExcIInv, InHandler, Saved, Resume, cpu
<1>4. QED
  BY <1>1, <1>2, <1>3 DEF ExcIInv

\* The key and the controller leave the processor alone.
LEMMA DeviceStep ==
  ASSUME ExcIInv, KeyMove \/ Controller
  PROVE  ExcIInv'
<1>1. cpu' = cpu
  BY DEF KeyMove, Controller, LowLevel, Request, Pend
<1>2. CASE KeyMove
  BY <1>1, <1>2, ConstAssumption, SameProcessor DEF ExcIInv, ExcTypeOK, KeyMove, cpu
<1>3. CASE Controller
  <2>1. /\ eintpend' \in BOOLEAN /\ srcpnd' \in BOOLEAN /\ intpnd' \in BOOLEAN
        /\ UNCHANGED <<gpg, edge, eintmask, intmsk, key, edges>>
    BY <1>3 DEF ExcIInv, ExcTypeOK, Controller, LowLevel, Request, Pend, keys
  <2>2. ExcTypeOK'
    BY <1>1, <2>1 DEF ExcIInv, ExcTypeOK, cpu
  <2>3. QED
    BY <1>1, <2>2, SameProcessor
<1>4. QED
  BY <1>2, <1>3

\* The invariant for a state in which the thread runs.
LEMMA InThreadIInv ==
  ASSUME ExcTypeOK', ContextKept', Reported', mode' = "usr", hpc' = 0
  PROVE  ExcIInv'
<1>1. Told'
  BY DEF Told
<1>2. QED
  BY <1>1 DEF ExcIInv

\* ... and for one within a handler.
LEMMA InHandlerIInv ==
  ASSUME ExcTypeOK', InHandler', Saved', Told', mode' # "usr", hpc' \in Nat, hpc' > 0
  PROVE  ExcIInv'
BY DEF ExcIInv, ContextKept

\* The thread moves on with the registers of its next position.
LEMMA ThreadStep ==
  ASSUME ExcIInv, ThreadPrint \/ LostFrame \/ InterruptInit
  PROVE  ExcIInv'
<1>1. at \in 1..13 /\ hpc = 0 /\ mode = "usr" /\ ContextKept /\ ExcTypeOK
  BY ThreadFacts
     DEF ExcIInv, ExcTypeOK, ThreadPrint, LostFrame, InterruptInit, InThread
<1>2. Reported
  BY <1>1 DEF ExcIInv, Told
<1>3. ContextKept' /\ mode' = "usr" /\ hpc' = 0
  BY <1>1 DEF ThreadPrint, LostFrame, InterruptInit, ContextKept
<1>4. CASE LostFrame
  <2>1. ExcTypeOK'
    BY <1>1, <1>4 DEF LostFrame, ExcTypeOK, irqc, keys
  <2>2. Reported'
    BY <1>2, <1>4 DEF LostFrame, Reported
  <2>3. QED
    BY <1>3, <2>1, <2>2, InThreadIInv
<1>5. CASE ThreadPrint
  <2>1. ExcTypeOK'
    BY <1>1, <1>5, ThreadFacts, TrapRegs DEF ThreadPrint, ExcTypeOK, irqc, keys
  <2>2. at \in {1, 3, 5, 6, 11, 12, 13}
    BY <1>1, <1>5, ThreadFacts DEF ThreadPrint
  <2>3. /\ at = 12 => Following(at) = 13
        /\ at = 13 => Following(at) = 12
        /\ at \in 1..11 => Following(at) = at + 1
    BY ThreadFacts DEF Following, LoopStart
  <2>4. at' = Following(at) /\ last' = Thread[at]
    BY <1>5 DEF ThreadPrint
  <2>5. /\ at = 1 => at' = 2 /\ last' = "tip_1"
        /\ at = 3 => at' = 4 /\ last' = "tip_2"
        /\ at = 5 => at' = 6 /\ last' = "init_interrupt"
        /\ at = 6 => at' = 7 /\ last' = "entry_init"
        /\ at = 11 => at' = 12 /\ last' = "g_A"
        /\ at = 12 => at' = 13 /\ last' = "A"
        /\ at = 13 => at' = 12 /\ last' = "a"
    BY <2>3, <2>4 DEF Thread
  <2>6. Reported'
    BY <2>2, <2>5 DEF Reported
  <2>7. QED
    BY <1>3, <2>1, <2>6, InThreadIInv
<1>6. CASE InterruptInit
  <2>1. ExcTypeOK'
    BY <1>1, <1>6, ThreadFacts, TrapRegs DEF InterruptInit, ExcTypeOK, keys
  <2>2. at \in 7..10 /\ Following(at) \in 8..11
    BY <1>1, <1>6, ThreadFacts DEF InterruptInit, Following
  <2>3. at' \in 8..11 /\ last' = last
    BY <1>6, <2>2 DEF InterruptInit
  <2>4. last' = "entry_init"
    BY <1>2, <2>2, <2>3 DEF Reported
  <2>5. Reported'
    BY <2>3, <2>4 DEF Reported
  <2>6. QED
    BY <1>3, <2>1, <2>5, InThreadIInv
<1>7. QED
  BY <1>4, <1>5, <1>6

\* The processor enters a handler from the thread.
LEMMA EntryStep ==
  ASSUME ExcIInv, Trap \/ Interrupt
  PROVE  ExcIInv'
<1>1. PICK m \in {"und", "svc", "irq"} :
        /\ Enter(m, at + 1)
        /\ m = "und" => at = 2
        /\ m = "svc" => at = 4
        /\ m = "irq" => ~masked
  BY ThreadFacts DEF ExcIInv, ExcTypeOK, Trap, Interrupt, Interrupted, InThread
<1>2. hpc = 0 /\ at \in 1..13 /\ ExcTypeOK /\ ContextKept /\ Reported
  BY ThreadFacts DEF ExcIInv, ExcTypeOK, Told, Trap, Interrupt, Interrupted, InThread
<1>3. [mode |-> mode, masked |-> masked] = [mode |-> "usr", masked |-> entryI]
  BY <1>2 DEF ContextKept
<1>4. ExcTypeOK'
  <2>1. lr' \in [Modes -> Int]
    <3>1. at + 1 \in Int /\ lr \in [Modes -> Int]
      BY <1>2 DEF ExcTypeOK
    <3>2. lr' = [lr EXCEPT ![m] = at + 1]
      BY <1>1 DEF Enter
    <3>3. QED
      BY <3>1, <3>2
  <2>2. spsr' \in [Modes -> [mode: Modes, masked: BOOLEAN]]
    BY <1>1, <1>2 DEF Enter, ExcTypeOK
  <2>3. mode' \in Modes /\ masked' = TRUE /\ hpc' = 1
    BY <1>1 DEF Enter, Modes
  <2>4. UNCHANGED <<at, regs, stack, usrSp, entryI, stuck, irqc, keys>>
    BY <1>1 DEF Enter
  <2>5. QED
    BY <1>2, <2>1, <2>2, <2>3, <2>4 DEF ExcTypeOK, irqc, keys
<1>5. lr'[mode'] = at + 1 /\ spsr'[mode'] = [mode |-> "usr", masked |-> entryI]
  <2>1. mode' = m /\ m \in Modes
    BY <1>1 DEF Enter, Modes
  <2>2. lr'[m] = at + 1
    BY <1>1, <1>2, <2>1 DEF Enter, ExcTypeOK
  <2>3. spsr'[m] = [mode |-> "usr", masked |-> entryI]
    BY <1>1, <1>2, <1>3, <2>1 DEF Enter, ExcTypeOK
  <2>4. QED
    BY <2>1, <2>2, <2>3
<1>6. InHandler' /\ Saved'
  BY <1>1, <1>2, <1>5 DEF Enter, InHandler, Saved, ContextKept, ExcTypeOK
<1>7. Reported'
  BY <1>1, <1>2 DEF Enter, Reported
<1>8. hpc' = 1 /\ mode' # "usr"
  BY <1>1 DEF Enter
<1>9. Told'
  BY <1>7, <1>8 DEF Told
<1>10. QED
  BY <1>4, <1>6, <1>8, <1>9, InHandlerIInv

\* A handler saves the thread's registers and its own return address.
LEMMA SaveStep ==
  ASSUME ExcIInv, NEW m \in {"und", "svc", "irq"},
         Save(m, IF m = "irq" THEN lr[m] - 1 ELSE lr[m])
  PROVE  ExcIInv'
<1>1. mode = m /\ mode' = m /\ hpc = 1 /\ hpc' = 2 /\ at \in 1..13 /\ ExcTypeOK /\ InHandler /\ Saved
  BY ThreadFacts DEF ExcIInv, ExcTypeOK, Save
<1>2. /\ (IF m = "irq" THEN lr[m] - 1 ELSE lr[m]) = Resume
      /\ Resume \in Int /\ regs = ThreadRegs(at) /\ regs \in Regs
  BY <1>1 DEF Saved, Resume, ExcTypeOK
<1>3. regs = ThreadRegs(Resume)
  BY <1>1, <1>2, TrapRegs DEF InHandler, Resume
<1>4. stack' = [stack EXCEPT ![m] = [regs |-> regs, lr |-> Resume]]
  BY <1>2 DEF Save
<1>5. stack'[m] = [regs |-> ThreadRegs(Resume), lr |-> Resume]
  <2>1. m \in Modes /\ DOMAIN stack = Modes
    BY <1>1 DEF ExcTypeOK, Modes
  <2>2. stack'[m] = [regs |-> regs, lr |-> Resume]
    BY <1>4, <2>1
  <2>3. QED
    BY <1>3, <2>2
<1>6. ExcTypeOK'
  <2>1. stack' \in [Modes -> [regs: Regs, lr: Int]]
    <3>1. [regs |-> regs, lr |-> Resume] \in [regs: Regs, lr: Int]
      BY <1>2
    <3>2. stack \in [Modes -> [regs: Regs, lr: Int]]
      BY <1>1 DEF ExcTypeOK
    <3>3. QED
      BY <1>4, <3>1, <3>2
  <2>2. lr' \in [Modes -> Int]
    BY <1>1, <1>2, <1>4 DEF Save, ExcTypeOK
  <2>3. QED
    BY <1>1, <2>1, <2>2 DEF Save, ExcTypeOK, irqc, keys
<1>7. InHandler'
  BY <1>1 DEF Save, InHandler
<1>8. Saved'
  <2>1. lr'[m] = Resume
    BY <1>1, <1>2 DEF Save, ExcTypeOK, Modes
  <2>2. Resume' = Resume
    BY DEF Save, Resume
  <2>3. QED
    BY <1>1, <1>5, <2>1, <2>2 DEF Saved, ThreadRegs, Live
<1>9. Told'
  <2>1. Reported
    BY <1>1 DEF ExcIInv, Told
  <2>2. Reported'
    BY <2>1 DEF Save, Reported
  <2>3. QED
    BY <1>1, <2>2 DEF Told
<1>10. hpc' = 2 /\ mode' # "usr"
  BY <1>1 DEF Save
<1>11. QED
  BY <1>6, <1>7, <1>8, <1>9, <1>10, InHandlerIInv

\* A call in a handler loses r0 and lr, and keeps the frame.
LEMMA CallStep ==
  ASSUME ExcIInv, NEW m \in {"und", "svc", "irq"}, NEW pos \in 2..4,
         NEW kept \in Int, NEW msg, Call(m, pos, kept, msg),
         m = "und" => pos < 4, m = "svc" => kept = at + 1,
         srcpnd' \in BOOLEAN, intpnd' \in BOOLEAN,
         UNCHANGED <<gpg, edge, eintpend, eintmask, intmsk, keys>>, Told'
  PROVE  ExcIInv'
<1>1. /\ mode = m /\ mode' = m /\ hpc = pos /\ hpc' = pos + 1
      /\ ExcTypeOK /\ InHandler /\ Saved
  BY DEF ExcIInv, Call
<1>2. regs' \in Regs /\ lr' \in [Modes -> Int] /\ regs'.r4 = kept
  <2>1. regs' = [r0 |-> 0, r4 |-> kept] /\ lr' = [lr EXCEPT ![m] = 0]
    BY DEF Call
  <2>2. lr \in [Modes -> Int]
    BY <1>1 DEF ExcTypeOK
  <2>3. lr' \in [Modes -> Int]
    <3>1. lr' = [lr EXCEPT ![m] = 0] /\ 0 \in Int
      BY <2>1
    <3>2. QED
      BY <2>2, <3>1
  <2>4. QED
    BY <2>1, <2>3 DEF Regs
<1>3. ExcTypeOK'
  BY <1>1, <1>2 DEF Call, ExcTypeOK, keys
<1>4. InHandler'
  BY <1>1 DEF Call, InHandler
<1>5. Saved'
  BY <1>1, <1>2 DEF Call, Saved, Resume
<1>6. QED
  BY <1>1, <1>3, <1>4, <1>5, InHandlerIInv

\* A handler returns to the thread as it found it.
LEMMA ReturnStep ==
  ASSUME ExcIInv, NEW m \in {"und", "svc", "irq"}, NEW pos \in {4, 5},
         Return(m, pos), m = "und" <=> pos = 4
  PROVE  ExcIInv'
<1>1. /\ mode = m /\ hpc = pos /\ hpc' = 0 /\ at \in 1..13
      /\ ExcTypeOK /\ InHandler /\ Saved /\ Told
  BY ThreadFacts DEF ExcIInv, ExcTypeOK, Return
<1>2. stack[m] = [regs |-> ThreadRegs(Resume), lr |-> Resume]
  BY <1>1 DEF Saved
<1>3. Resume \in 1..13
  BY <1>1 DEF InHandler, Resume
<1>4. at' = Resume /\ regs' = ThreadRegs(Resume) /\ regs' \in Regs
  BY <1>2, <1>3, TrapRegs DEF Return
<1>5. mode' = "usr" /\ masked' = entryI /\ entryI' = entryI
  BY <1>1 DEF Return, InHandler
<1>6. ExcTypeOK'
  BY <1>1, <1>3, <1>4, <1>5, ThreadFacts, ConstAssumption
     DEF Return, ExcTypeOK, Modes, irqc, keys
<1>7. ContextKept'
  BY <1>4, <1>5 DEF ContextKept
<1>8. Reported'
  <2>1. last' = last
    BY DEF Return
  <2>2. CASE m = "und"
    BY <1>1, <1>4, <2>1, <2>2 DEF Told, InHandler, Resume, Reported
  <2>3. CASE m = "svc"
    BY <1>1, <1>4, <2>1, <2>3 DEF Told, InHandler, Resume, Reported
  <2>4. CASE m = "irq"
    BY <1>1, <1>4, <2>1, <2>4 DEF Told, InHandler, Resume, Reported
  <2>5. QED
    BY <2>2, <2>3, <2>4
<1>9. QED
  BY <1>1, <1>5, <1>6, <1>7, <1>8, InThreadIInv

LEMMA ExcNextIInv == ExcIInv /\ [ExcNext]_excVars => ExcIInv'
<1> SUFFICES ASSUME ExcIInv, [ExcNext]_excVars PROVE ExcIInv'
  OBVIOUS
<1>1. CASE KeyMove \/ Controller
  BY <1>1, DeviceStep
<1>2. CASE ThreadPrint \/ LostFrame \/ InterruptInit
  BY <1>2, ThreadStep
<1>3. CASE Trap \/ Interrupt
  BY <1>3, EntryStep
<1>4. ExcTypeOK /\ Told /\ (hpc > 0 => InHandler /\ Saved)
  BY DEF ExcIInv
<1>5. CASE DoUnd
  <2>1. CASE Save("und", lr["und"])
    BY <2>1, SaveStep
  <2>2. CASE Call("und", 2, regs.r4, "und_cpsr") /\ UNCHANGED <<irqc, keys>>
    <3>1. Told'
      BY <2>2 DEF Call, Told
    <3>2. QED
      BY <1>4, <2>2, <3>1, CallStep DEF ExcTypeOK, Regs, irqc
  <2>3. CASE Call("und", 3, regs.r4, "und_exception") /\ UNCHANGED <<irqc, keys>>
    <3>1. Told'
      BY <2>3 DEF Call, Told
    <3>2. QED
      BY <1>4, <2>3, <3>1, CallStep DEF ExcTypeOK, Regs, irqc
  <2>4. CASE Return("und", 4)
    BY <2>4, ReturnStep
  <2>5. QED
    BY <1>5, <2>1, <2>2, <2>3, <2>4 DEF DoUnd
<1>6. CASE DoSwi
  <2>1. CASE Save("svc", lr["svc"])
    BY <2>1, SaveStep
  <2>2. CASE Call("svc", 2, lr["svc"], "swi_cpsr") /\ UNCHANGED <<irqc, keys>>
    <3>1. Told'
      BY <2>2 DEF Call, Told
    <3>2. mode = "svc" /\ hpc = 2
      BY <2>2 DEF Call
    <3>3. lr["svc"] = at + 1 /\ at + 1 \in Int
      BY <1>4, <3>2 DEF Saved, Resume, ExcTypeOK
    <3>4. QED
      BY <1>4, <2>2, <3>1, <3>3, CallStep DEF ExcTypeOK, irqc
  <2>3. CASE Call("svc", 3, regs.r4, "swi_exception") /\ UNCHANGED <<irqc, keys>>
    <3>1. Told'
      BY <2>3 DEF Call, Told
    <3>2. mode = "svc" /\ hpc = 3
      BY <2>3 DEF Call
    <3>3. regs.r4 = at + 1 /\ at + 1 \in Int
      BY <1>4, <3>2 DEF Saved, ExcTypeOK
    <3>4. QED
      BY <1>4, <2>3, <3>1, <3>3, CallStep DEF ExcTypeOK, irqc
  <2>4. CASE Call("svc", 4, regs.r4, Thread[regs.r4 - 1]) /\ UNCHANGED <<irqc, keys>>
    <3>1. mode = "svc" /\ hpc = 4
      BY <2>4 DEF Call
    <3>2. regs.r4 = at + 1 /\ at + 1 \in Int /\ at = 4
      BY <1>4, <3>1 DEF Saved, InHandler, ExcTypeOK
    <3>3. Thread[regs.r4 - 1] = "swi"
      BY <3>2, ThreadFacts
    <3>4. Told'
      BY <2>4, <3>3 DEF Call, Told
    <3>5. QED
      BY <1>4, <2>4, <3>2, <3>4, CallStep DEF ExcTypeOK, irqc
  <2>5. CASE Return("svc", 5)
    BY <2>5, ReturnStep
  <2>6. QED
    BY <1>6, <2>1, <2>2, <2>3, <2>4, <2>5 DEF DoSwi
<1>7. CASE DoIrq
  <2>1. CASE Save("irq", lr["irq"] - 1)
    BY <2>1, SaveStep
  <2>2. CASE InterruptService
    <3>1. PICK pos \in 2..4 :
            /\ Call("irq", pos, regs.r4, last)
            /\ UNCHANGED <<gpg, edge, eintpend, eintmask, intmsk, keys>>
            /\ srcpnd' \in BOOLEAN /\ intpnd' \in BOOLEAN
      <4> DEFINE P(pos) ==
            /\ Call("irq", pos, regs.r4, last)
            /\ UNCHANGED <<gpg, edge, eintpend, eintmask, intmsk, keys>>
            /\ srcpnd' \in BOOLEAN /\ intpnd' \in BOOLEAN
      <4>1. P(2) \/ P(3) \/ P(4)
        BY <1>4, <2>2 DEF InterruptService, ExcTypeOK, irqc
      <4>2. QED
        BY <4>1
    <3>2. Told'
      <4>1. Reported /\ mode' = "irq"
        BY <1>4, <3>1 DEF Call, Told
      <4>2. last' = last /\ at' = at
        BY <3>1 DEF Call
      <4>3. Reported'
        BY <4>1, <4>2 DEF Reported
      <4>4. QED
        BY <4>1, <4>3 DEF Told
    <3>3. regs.r4 \in Int
      BY <1>4 DEF ExcTypeOK, Regs
    <3>4. QED
      BY <3>1, <3>2, <3>3, CallStep
  <2>3. CASE Return("irq", 5)
    BY <2>3, ReturnStep
  <2>4. QED
    BY <1>7, <2>1, <2>2, <2>3 DEF DoIrq
<1>8. CASE UNCHANGED excVars
  <2>1. cpu' = cpu /\ irqc' = irqc /\ keys' = keys
    BY <1>8 DEF excVars
  <2>2. ExcTypeOK'
    BY <1>4, <2>1 DEF ExcTypeOK, cpu, irqc, keys
  <2>3. QED
    BY <2>1, <2>2, SameProcessor
<1>9. QED
  BY <1>1, <1>2, <1>3, <1>5, <1>6, <1>7, <1>8 DEF ExcNext, Processor

LEMMA ExcIInvHolds == ExcSpec => []ExcIInv
BY ExcInitIInv, ExcNextIInv, PTL DEF ExcSpec

\* The exception program is type correct, its handlers' frames included.
THEOREM ExcTypeCorrect == ExcSpec => []ExcTypeOK
BY ExcIInvHolds, PTL DEF ExcIInv

\* do_und, do_swi and do_irq give the thread back the registers, the mode,
\* the interrupt mask and the position they took it from (start.S:25-42,
\* 143-169, 185-198).
THEOREM ContextKeptCorrect == ExcSpec => []ContextKept
BY ExcIInvHolds, PTL DEF ExcIInv

\* Entered with the I bit reset sets, the program never runs do_irq: no
\* return of a handler clears it (interrupt.c:8).
THEOREM IrqNeverTakenCorrect == ExcSpec => []IrqNeverTaken
<1>1. ExcIInv => IrqNeverTaken
  BY DEF ExcIInv, InHandler, IrqNeverTaken, ExcTypeOK
<1>2. QED
  BY <1>1, ExcIInvHolds, PTL

\* One step of the program prints the next message or none.
LEMMA PrintStep ==
  ASSUME ExcIInv, ExcNext, last' # last
  PROVE  \/ \E i \in 1..Len(Transcript)-1 :
              last = Transcript[i] /\ last' = Transcript[i + 1]
         \/ last = "a" /\ last' = "A"
<1> DEFINE P == \/ \E i \in 1..Len(Transcript)-1 :
                     last = Transcript[i] /\ last' = Transcript[i + 1]
                \/ last = "a" /\ last' = "A"
<1>1. ExcTypeOK /\ Told /\ (hpc > 0 => InHandler /\ Saved) /\ (mode = "usr" <=> hpc = 0)
  BY DEF ExcIInv
<1>2. \/ ThreadPrint
      \/ Call("und", 2, regs.r4, "und_cpsr")
      \/ Call("und", 3, regs.r4, "und_exception")
      \/ Call("svc", 2, lr["svc"], "swi_cpsr")
      \/ Call("svc", 3, regs.r4, "swi_exception")
      \/ Call("svc", 4, regs.r4, Thread[regs.r4 - 1])
  BY DEF ExcNext, Processor, Controller, LostFrame, InterruptInit, Trap,
         Interrupt, Enter, DoUnd, DoSwi, DoIrq, InterruptService, Save, Call,
         Return, KeyMove, LowLevel, Request, Pend, cpu
<1>3. /\ Len(Transcript) = 13
      /\ \A i \in 1..12 : last = Transcript[i] /\ last' = Transcript[i + 1] => P
  BY DEF Transcript
<1>4. CASE ThreadPrint
  <2>1. at \in {1, 3, 5, 6, 11, 12, 13} /\ last' = Thread[at] /\ Reported
    BY <1>1, <1>4, ThreadFacts DEF ThreadPrint, InThread, ExcTypeOK, Told
  <2>2. \/ last = "boot" /\ last' = "tip_1"
        \/ last = "und_exception" /\ last' = "tip_2"
        \/ last = "swi" /\ last' = "init_interrupt"
        \/ last = "init_interrupt" /\ last' = "entry_init"
        \/ last = "entry_init" /\ last' = "g_A"
        \/ last \in {"g_A", "a"} /\ last' = "A"
        \/ last = "A" /\ last' = "a"
    BY <2>1 DEF Reported, Thread
  <2>3. QED
    BY <1>3, <2>2 DEF Transcript
<1>5. CASE Call("und", 2, regs.r4, "und_cpsr")
  <2>1. last = "tip_1" /\ last' = "und_cpsr"
    BY <1>1, <1>5 DEF Call, Told, InHandler, Reported
  <2>2. QED
    BY <1>3, <2>1 DEF Transcript
<1>6. CASE Call("und", 3, regs.r4, "und_exception")
  <2>1. last = "und_cpsr" /\ last' = "und_exception"
    BY <1>1, <1>6 DEF Call, Told
  <2>2. QED
    BY <1>3, <2>1 DEF Transcript
<1>7. CASE Call("svc", 2, lr["svc"], "swi_cpsr")
  <2>1. last = "tip_2" /\ last' = "swi_cpsr"
    BY <1>1, <1>7 DEF Call, Told, InHandler, Reported
  <2>2. QED
    BY <1>3, <2>1 DEF Transcript
<1>8. CASE Call("svc", 3, regs.r4, "swi_exception")
  <2>1. last = "swi_cpsr" /\ last' = "swi_exception"
    BY <1>1, <1>8 DEF Call, Told
  <2>2. QED
    BY <1>3, <2>1 DEF Transcript
<1>9. CASE Call("svc", 4, regs.r4, Thread[regs.r4 - 1])
  <2>1. mode = "svc" /\ hpc = 4 /\ last' = Thread[regs.r4 - 1]
    BY <1>9 DEF Call
  <2>2. last = "swi_exception" /\ regs.r4 - 1 = 4
    BY <1>1, <2>1 DEF Told, Saved, InHandler
  <2>3. last' = "swi"
    BY <2>1, <2>2, ThreadFacts
  <2>4. QED
    BY <1>3, <2>2, <2>3 DEF Transcript
<1>10. QED
  BY <1>2, <1>4, <1>5, <1>6, <1>7, <1>8, <1>9

\* The messages of the thread and of the trap handlers come once each and
\* in the order of the program (start.S:114-125, main.c).
THEOREM InOrderCorrect == ExcSpec => InOrder
<1>1. ExcIInv /\ [ExcNext]_excVars =>
        [\/ \E i \in 1..Len(Transcript)-1 :
              last = Transcript[i] /\ last' = Transcript[i + 1]
         \/ last = "a" /\ last' = "A"]_last
  BY PrintStep DEF excVars, cpu
<1>2. QED
  BY <1>1, ExcIInvHolds, PTL DEF ExcSpec, InOrder

(***************************************************************************)
(* Uart: the console.                                                      *)
(***************************************************************************)
\* Who may be where in putchar, and what it knows of the transmitter: the
\* thread's check holds until an interrupt, and that interrupt has lost
\* nothing before the thread's store.
Polled ==
  /\ left = 0 => step["handler"] = "poll"
  /\ step["handler"] = "store" => TransmitterEmpty
  /\ step["thread"] = "store" => hold = None \/ hold[1] = "handler"

Budget ==
  /\ lost <= interrupts
  /\ left > 0 => lost < interrupts
  /\ step["thread"] = "store" /\ ~TransmitterEmpty => lost < interrupts

UartIInv == UartTypeOK /\ Polled /\ Budget

LEMMA UartInitIInv == UartInit => UartIInv
<1> SUFFICES ASSUME UartInit PROVE UartIInv
  OBVIOUS
<1>1. UartTypeOK
  BY CountAssumption DEF UartInit, UartTypeOK
<1>2. QED
  BY <1>1 DEF UartInit, UartIInv, Polled, Budget, TransmitterEmpty, Writers

LEMMA UartNextIInv == UartIInv /\ [UartNext]_uartVars => UartIInv'
<1> SUFFICES ASSUME UartIInv, [UartNext]_uartVars PROVE UartIInv'
  OBVIOUS
<1> USE DEF UartIInv
<1>1. CASE \E w \in Writers : Poll(w)
  <2>1. PICK w \in Writers : Poll(w)
    BY <1>1
  <2>2. UartTypeOK'
    BY <2>1 DEF UartTypeOK, Poll
  <2>3. Polled' /\ Budget'
    BY <2>1 DEF UartTypeOK, Poll, Polled, Budget, TransmitterEmpty, Running, Writers
  <2>4. QED
    BY <2>2, <2>3
<1>2. CASE \E w \in Writers : StoreChar(w)
  <2>1. PICK w \in Writers : StoreChar(w)
    BY <1>2
  <2>2. UartTypeOK'
    <3>1. said[w] \in Nat /\ said'[w] = said[w] + 1 /\ said' \in [Writers -> Nat]
      BY <2>1 DEF UartTypeOK, StoreChar
    <3>2. hold' \in Chars
      BY <2>1, <3>1 DEF StoreChar, Chars
    <3>3. left' \in 0..MsgLen
      BY <2>1, CountAssumption DEF UartTypeOK, StoreChar, Running
    <3>4. QED
      BY <2>1, <3>1, <3>2, <3>3 DEF UartTypeOK, StoreChar
  <2>3. hold' = <<w, said'[w]>> /\ hold' # None
    BY <2>1 DEF StoreChar, None, Writers
  <2>4. CASE w = "thread"
    BY <2>1, <2>2, <2>3, <2>4 DEF UartTypeOK, StoreChar, Polled, Budget, TransmitterEmpty,
                            Running, Writers
  <2>5. CASE w = "handler"
    BY <2>1, <2>2, <2>3, <2>5 DEF UartTypeOK, StoreChar, Polled, Budget, TransmitterEmpty,
                            Running, Writers
  <2>6. QED
    BY <2>4, <2>5 DEF Writers
<1>3. CASE Interrupting
  <2>1. UartTypeOK'
    BY <1>3, CountAssumption DEF UartTypeOK, Interrupting
  <2>2. Polled' /\ Budget'
    BY <1>3, CountAssumption DEF UartTypeOK, Interrupting, Polled, Budget, TransmitterEmpty
  <2>3. QED
    BY <2>1, <2>2
<1>4. CASE Load
  BY <1>4 DEF UartTypeOK, Load, Polled, Budget, TransmitterEmpty
<1>5. CASE Shift
  <2>1. shift \in Chars /\ line' = Append(line, shift)
    BY <1>5 DEF UartTypeOK, Shift
  <2>2. line' \in Seq(Chars)
    BY <2>1, AppendProperties DEF UartTypeOK
  <2>3. UartTypeOK'
    BY <1>5, <2>2 DEF UartTypeOK, Shift
  <2>4. Polled' /\ Budget'
    BY <1>5 DEF UartTypeOK, Shift, Polled, Budget, TransmitterEmpty
  <2>5. QED
    BY <2>3, <2>4
<1>6. CASE UNCHANGED uartVars
  BY <1>6 DEF uartVars, UartTypeOK, Polled, Budget, TransmitterEmpty
<1>7. QED
  BY <1>1, <1>2, <1>3, <1>4, <1>5, <1>6 DEF UartNext, Putting

LEMMA UartIInvHolds == UartSpec => []UartIInv
BY UartInitIInv, UartNextIInv, PTL DEF UartSpec

\* The UART's state stays within its types, whatever the interrupts do.
THEOREM UartTypeCorrect == UartSpec => []UartTypeOK
BY UartIInvHolds, PTL DEF UartIInv

\* An interrupt between putchar's check and its store costs one character
\* at most, whenever it comes (uart.c:34-35).
THEOREM LossBoundedCorrect == UartSpec => []LossBounded
BY UartIInvHolds, PTL DEF UartIInv, Budget, LossBounded

\* The accepted characters as a sequence, by what the transmitter holds.
LEMMA OutFacts ==
  ASSUME NEW l \in Seq(Chars), NEW s \in Chars \cup {None}, NEW h \in Chars \cup {None}
  PROVE  LET t == l \o InRegister(s)
         IN  /\ t \in Seq(Chars)
             /\ s = None => t = l
             /\ s # None => t = Append(l, s)
             /\ h = None => t \o InRegister(h) = t
             /\ h # None => t \o InRegister(h) = Append(t, h)
<1>1. InRegister(s) \in Seq(Chars)
  BY DEF InRegister
<1>2. l \o InRegister(s) \in Seq(Chars)
  BY <1>1, ConcatProperties
<1>3. s = None => l \o InRegister(s) = l
  BY ConcatEmptySeq DEF InRegister
<1>4. s # None => l \o InRegister(s) = Append(l, s)
  BY AppendIsConcat DEF InRegister
<1>5. h = None => (l \o InRegister(s)) \o InRegister(h) = l \o InRegister(s)
  BY <1>2, ConcatEmptySeq DEF InRegister
<1>6. h # None => (l \o InRegister(s)) \o InRegister(h) = Append(l \o InRegister(s), h)
  BY <1>2, AppendIsConcat DEF InRegister
<1>7. QED
  BY <1>2, <1>3, <1>4, <1>5, <1>6

LEMMA NextOut == Out' = line' \o InRegister(shift') \o InRegister(hold')
BY DEF Out, InRegister

\* Replacing the last element of a sequence.
LEMMA AppendLast ==
  ASSUME NEW s \in Seq(Chars), NEW x \in Chars, NEW y \in Chars
  PROVE  [Append(s, x) EXCEPT ![Len(s) + 1] = y] = Append(s, y)
<1> DEFINE t == Append(s, x)
           u == [t EXCEPT ![Len(s) + 1] = y]
           v == Append(s, y)
<1>1. /\ t \in Seq(Chars) /\ Len(t) = Len(s) + 1 /\ Len(s) \in Nat
      /\ \A i \in 1..Len(s) : t[i] = s[i]
  BY AppendProperties, LenProperties
<1>2. /\ v \in Seq(Chars) /\ Len(v) = Len(s) + 1 /\ v[Len(s) + 1] = y
      /\ \A i \in 1..Len(s) : v[i] = s[i]
  BY AppendProperties
<1>3. Len(s) + 1 \in 1..Len(t)
  BY <1>1
<1>4. /\ u \in Seq(Chars) /\ Len(u) = Len(t)
      /\ \A j \in 1..Len(t) : u[j] = IF j = Len(s) + 1 THEN y ELSE t[j]
  <2> DEFINE n == Len(s) + 1
  <2> HIDE DEF t, n
  <2>1. t \in Seq(Chars) /\ n \in 1..Len(t)
    BY <1>1, <1>3 DEF n
  <2>2. /\ [t EXCEPT ![n] = y] \in Seq(Chars) /\ Len([t EXCEPT ![n] = y]) = Len(t)
        /\ \A j \in 1..Len(t) : [t EXCEPT ![n] = y][j] = IF j = n THEN y ELSE t[j]
    BY <2>1, ExceptSeq
  <2>3. QED
    BY <2>2 DEF n
<1> HIDE DEF t, u, v
<1>5. \A i \in 1..Len(u) : u[i] = v[i]
  BY <1>1, <1>2, <1>4
<1>6. u = v
  BY <1>1, <1>2, <1>4, <1>5, SeqEqual
<1>7. QED
  BY <1>6 DEF t, u, v

LEMMA InitConsole == UartInit => C!Init
BY ConcatEmptySeq DEF UartInit, C!Init, Out, InRegister, Writers, C!Writers

LEMMA StepConsole ==
  ASSUME UartIInv, [UartNext]_uartVars
  PROVE  [C!Next]_<<Out, said, interrupts, lost>>
<1>1. /\ line \in Seq(Chars) /\ shift \in Chars \cup {None}
      /\ hold \in Chars \cup {None}
  BY DEF UartIInv, UartTypeOK
<1>2. /\ line' \in Seq(Chars) /\ shift' \in Chars \cup {None}
      /\ hold' \in Chars \cup {None}
  BY UartNextIInv DEF UartIInv, UartTypeOK
<1>3. CASE \E w \in Writers : Poll(w)
  BY <1>3 DEF Poll, Out, InRegister
<1>4. CASE \E w \in Writers : StoreChar(w)
  <2>1. PICK w \in Writers : StoreChar(w)
    BY <1>4
  <2> DEFINE c == <<w, said'[w]>>
  <2>2. /\ said' = [said EXCEPT ![w] = @ + 1] /\ hold' = c
        /\ line' = line /\ shift' = shift /\ interrupts' = interrupts
        /\ step[w] = "store"
    BY <2>1 DEF StoreChar
  <2>3. hold' # None
    BY <2>2 DEF None, Writers
  <2>4. Out' = Append(line \o InRegister(shift), c)
    BY <1>2, <2>2, <2>3, NextOut, OutFacts
  <2>5. CASE hold = None
    <3>1. Out = line \o InRegister(shift) /\ lost' = lost
      BY <1>1, <2>1, <2>5, OutFacts DEF StoreChar, Out
    <3>2. C!Say(w)
      BY <2>2, <2>4, <3>1 DEF C!Say
    <3>3. QED
      BY <3>2 DEF C!Next, Writers, C!Writers
  <2>6. CASE hold # None
    <3>1. w = "thread" /\ hold[1] = "handler" /\ lost < interrupts /\ lost' = lost + 1
      BY <2>1, <2>2, <2>6
         DEF UartIInv, StoreChar, Polled, Budget, TransmitterEmpty, Writers, UartTypeOK
    <3>0. c \in Chars
      BY <1>2, <2>2, <2>3
    <3> DEFINE s == line \o InRegister(shift)
    <3>2. s \in Seq(Chars) /\ hold \in Chars /\ Out = Append(s, hold)
      BY <1>1, <2>6, OutFacts DEF Out
    <3>3. Out # << >> /\ Len(Out) = Len(s) + 1 /\ Out[Len(Out)] = hold
      BY <3>2, AppendProperties
    <3>4. Out' = [Out EXCEPT ![Len(Out)] = c]
      <4>1. Out' = Append(s, c)
        BY <2>4
      <4>2. [Append(s, hold) EXCEPT ![Len(s) + 1] = c] = Append(s, c)
        BY <3>2, <3>0, AppendLast
      <4> HIDE DEF s, c
      <4>3. QED
        BY <4>1, <4>2, <3>2, <3>3
    <3>5. C!SayOver
      BY <2>2, <3>1, <3>3, <3>4 DEF C!SayOver
    <3>6. QED
      BY <3>5 DEF C!Next
  <2>7. QED
    BY <2>5, <2>6
<1>5. CASE Interrupting
  BY <1>5 DEF Interrupting, Out, InRegister, C!Next, C!Interrupt
<1>6. CASE Load
  <2>1. hold' = None /\ shift' = hold /\ shift = None /\ line' = line
    BY <1>6 DEF Load
  <2>2. Out' = line \o InRegister(hold)
    BY <1>2, <2>1, NextOut, OutFacts
  <2>3. Out = line \o InRegister(hold)
    BY <1>1, <2>1, OutFacts DEF Out
  <2>4. QED
    BY <1>6, <2>2, <2>3 DEF Load
<1>7. CASE Shift
  <2>1. line' = Append(line, shift) /\ shift' = None /\ shift # None /\ hold' = hold
    BY <1>7 DEF Shift
  <2>2. line \o InRegister(shift) = Append(line, shift)
    BY <1>1, <2>1, OutFacts
  <2>3. line' \o InRegister(shift') = line'
    BY <1>2, <2>1, OutFacts
  <2>4. Out' = Out
    BY <2>1, <2>2, <2>3, NextOut DEF Out
  <2>5. QED
    BY <1>7, <2>4 DEF Shift
<1>8. CASE UNCHANGED uartVars
  BY <1>8 DEF uartVars, Out, InRegister
<1>9. QED
  BY <1>3, <1>4, <1>5, <1>6, <1>7, <1>8 DEF UartNext, Putting

\* The UART implements the console of its writers, for any timing of the
\* interrupts (uart.c:29-37, 100-108; interrupt.c:27-34).
THEOREM UartImplementsConsole == UartSpec => ImplementsConsole
<1>1. UartIInv /\ [UartNext]_uartVars => [C!Next]_<<Out, said, interrupts, lost>>
  BY StepConsole
<1>2. QED
  BY <1>1, InitConsole, UartIInvHolds, PTL DEF UartSpec, ImplementsConsole, C!Spec
===============================================================================
