-------------------------------- MODULE Boot --------------------------------
(***************************************************************************)
(* From reset to main in src/arm920t/exception: the reset path of start.S, *)
(* sdram_init, relocate (copy2sdram and clean_bss over the symbols of      *)
(* exception.lds), the switch to usr mode, uart0_init, and the calls of    *)
(* start.S in usr mode, up to the jump to main.                            *)
(* Memory is an array of words; word 0 of low is address 0, word 0 of      *)
(* sdram is __code_start = 0x30000000.                                     *)
(***************************************************************************)
EXTENDS Integers

CONSTANTS
  Image,      \* words of exception.bin: a function on 0..N-1
  N,          \* __bss_start - __code_start, in words
  DataStart,  \* first word of .data
  EndByte,    \* _end - __code_start, in bytes (not aligned by exception.lds)
  MemWords,   \* words of memory modelled, at address 0 and in SDRAM
  SramWords,  \* words of the 4 KB SRAM that a NAND boot maps at address 0
  Frame,      \* words of stack used by the calls of the reset path
  UsrStacks,  \* where sp_usr, which no instruction sets, may point
  UsrFrame,   \* words of stack used by the calls in usr mode
  Media,      \* boot media of the board: a subset of {"nor", "nand"}
  Vals,       \* values main stores
  Junk,       \* the value of a word nobody has written
  MaxResets   \* bound on presses of the reset button

ASSUME SizeAssumption ==
  /\ N \in Nat \ {0} /\ DataStart \in 0..N
  /\ EndByte \in Nat /\ EndByte >= 4 * N
  /\ MemWords \in Nat /\ EndByte < 4 * MemWords
  /\ SramWords \in Nat /\ Frame \in Nat /\ MaxResets \in Nat

ASSUME ImageAssumption ==
  /\ Image \in [0..N-1 -> Int] /\ Vals \subseteq Int /\ Junk \in Int
  /\ Image[0] # 0             \* word 0 is the branch `b reset'

\* A NAND boot runs from the SRAM that also holds its stack.
ASSUME MediaAssumption ==
  /\ Media \subseteq {"nor", "nand"}
  /\ "nand" \in Media => N + Frame <= SramWords

\* A stack ends below word `top' of a memory, "none" being where nothing answers.
ASSUME UsrAssumption ==
  /\ UsrStacks \subseteq [mem: {"low", "sdram", "none"}, top: Int]
  /\ UsrFrame \in Nat \ {0}

Words == 0..MemWords-1
EndWord == EndByte \div 4   \* the last word clean_bss writes

VARIABLES
  pc,      \* next block of start.S
  medium,  \* what the board boots from
  wdt,     \* watchdog timer running
  fclk,    \* core clock, MHz
  low,     \* memory at address 0: NOR flash, or SRAM on a NAND boot
  sdram,   \* memory at 0x30000000
  ready,   \* SDRAM controller initialised
  sp,      \* sp_svc: "sram" (0x40001000), "low" (4096) or "unset"
  dest,    \* dest and src of copy2sdram, then start of clean_bss
  cpsr,    \* low byte of the CPSR
  ubrdiv,  \* UBRDIV0
  usrStack, \* the stack sp_usr points to
  resets   \* presses of the reset button so far

bootVars == <<pc, medium, wdt, fclk, low, sdram, ready, sp, dest, cpsr, ubrdiv,
          usrStack, resets>>

Steps == {"reset", "clock", "probe", "sdram", "copy", "clean", "mode",
          "uart", "messages", "run", "lost"}
-----------------------------------------------------------------------------
\* Address 0 after power up: flash, or the first 4 KB of NAND loaded to SRAM.
LowImage(m) == [w \in Words |->
                  IF w < N /\ (m = "nor" \/ w < SramWords) THEN Image[w]
                  ELSE Junk]

\* A store to address 0: flash ignores it.
Writable(w) == medium = "nand" /\ w < SramWords
Store(mem, w, v) == IF Writable(w) THEN [mem EXCEPT ![w] = v] ELSE mem

\* The frames of sdram_init, relocate and its callees, below sp_svc.
Pushed == [w \in Words |->
             IF sp = "low" /\ Writable(w) /\ w >= SramWords - Frame THEN Junk
             ELSE low[w]]

\* FCLK in MHz of the PLL on the 12 MHz crystal.
Mpll(mdiv, pdiv, sdiv) == (2 * (mdiv + 8) * 12) \div ((pdiv + 2) * 2^sdiv)

BootInit ==
  /\ pc = "reset" /\ medium \in Media /\ wdt = TRUE /\ fclk = 12
  /\ low = LowImage(medium)
  /\ sdram = [w \in Words |-> Junk]
  /\ ready = FALSE /\ sp = "unset" /\ dest = 0
  /\ usrStack \in UsrStacks
  /\ cpsr = 211 /\ ubrdiv = 0 /\ resets = 0    \* 0xd3: I, F, svc

\* 1 stored where 0 stops the timer.
WatchdogKept ==
  /\ pc = "reset" /\ pc' = "clock"
  /\ wdt' = TRUE
  /\ UNCHANGED <<medium, fclk, low, sdram, ready, sp, dest, cpsr, ubrdiv, usrStack, resets>>

WatchdogOff ==
  /\ pc = "reset" /\ pc' = "clock"
  /\ wdt' = FALSE
  /\ UNCHANGED <<medium, fclk, low, sdram, ready, sp, dest, cpsr, ubrdiv, usrStack, resets>>

ClockInit ==
  /\ pc = "clock" /\ pc' = "probe"
  /\ fclk' = Mpll(92, 1, 1)
  /\ UNCHANGED <<medium, wdt, low, sdram, ready, sp, dest, cpsr, ubrdiv, usrStack, resets>>

\* Without the store that puts the old word back.
ProbeForgets ==
  /\ pc = "probe" /\ pc' = "sdram"
  /\ low' = Store(low, 0, 0)
  /\ sp' = IF low'[0] = 0 THEN "low" ELSE "sram"
  /\ UNCHANGED <<medium, wdt, fclk, sdram, ready, dest, cpsr, ubrdiv, usrStack, resets>>

\* Write 0 to address 0 and read it back: only RAM holds it.
Probe ==
  /\ pc = "probe" /\ pc' = "sdram"
  /\ LET zeroed == Store(low, 0, 0)
     IN IF zeroed[0] = 0
        THEN sp' = "low" /\ low' = Store(zeroed, 0, low[0])
        ELSE sp' = "sram" /\ low' = zeroed
  /\ UNCHANGED <<medium, wdt, fclk, sdram, ready, dest, cpsr, ubrdiv, usrStack, resets>>

SdramInit ==
  /\ pc = "sdram" /\ pc' = "copy"
  /\ ready' = TRUE /\ dest' = 0
  /\ low' = Pushed
  /\ UNCHANGED <<medium, wdt, fclk, sdram, sp, cpsr, ubrdiv, usrStack, resets>>

\* A word stored to SDRAM is lost until its controller is set up.
SdramStore(w, v) == sdram' = IF ready THEN [sdram EXCEPT ![w] = v] ELSE sdram

Copy2Sdram ==
  /\ pc = "copy"
  /\ \/ /\ dest < N
        /\ SdramStore(dest, low[dest])
        /\ dest' = dest + 1 /\ UNCHANGED pc
     \/ /\ dest >= N
        /\ pc' = "clean" /\ UNCHANGED <<sdram, dest>>
  /\ UNCHANGED <<medium, wdt, fclk, low, ready, sp, cpsr, ubrdiv, usrStack, resets>>

\* clean_bss with a bound of `to' bytes.
CleanTo(to) ==
  /\ pc = "clean"
  /\ \/ /\ 4 * dest <= to
        /\ SdramStore(dest, 0)
        /\ dest' = dest + 1 /\ UNCHANGED pc
     \/ /\ 4 * dest > to
        /\ pc' = "mode" /\ UNCHANGED <<sdram, dest>>
  /\ UNCHANGED <<medium, wdt, fclk, low, ready, sp, cpsr, ubrdiv, usrStack, resets>>
\* The call left out.
CleanNothing == CleanTo(0)

\* while (start <= end), end being _end.
CleanBss == CleanTo(EndByte)

\* bic r0, r0, #0xf; msr cpsr, r0
EnterUsr ==
  /\ pc = "mode" /\ pc' = "uart"
  /\ cpsr' = cpsr - (cpsr % 16)
  /\ UNCHANGED <<medium, wdt, fclk, low, sdram, ready, sp, dest, ubrdiv, usrStack, resets>>

\* From here on frames go where sp_usr points.
Frames(depth) == usrStack.top - depth .. usrStack.top - 1

\* Frames in flash, or where nothing answers, do not keep what is pushed.
Held(depth) == \/ usrStack.mem = "sdram" /\ Frames(depth) \subseteq Nat
               \/ usrStack.mem = "low" /\ Frames(depth) \subseteq {w \in Words : Writable(w)}

\* The words of the program: at address 0 the image, in SDRAM .bss too.
Program == IF usrStack.mem = "low" THEN 0..N-1 ELSE 0..EndWord
Clear(depth) == Held(depth) /\ Frames(depth) \intersect Program = {}

\* What was pushed is not known to the model.
Push(depth) ==
  /\ low' = [w \in Words |-> IF usrStack.mem = "low" /\ w \in Frames(depth) /\ Writable(w)
                             THEN Junk ELSE low[w]]
  /\ sdram' = [w \in Words |-> IF usrStack.mem = "sdram" /\ w \in Frames(depth)
                               THEN Junk ELSE sdram[w]]

\* It calls nothing, so that its frame is one word, fp, which start.S does not use:
\* where the word is lost it still returns, unless the access is aborted or the
\* word was one of its own instructions.
Uart0Init ==
  /\ pc = "uart"
  /\ Push(1)
  /\ \/ pc' = "messages"
     \/ ~Clear(1) /\ pc' = "lost"
  /\ ubrdiv' = 26
  /\ UNCHANGED <<medium, wdt, fclk, ready, sp, dest, cpsr, usrStack, resets>>

\* puts keeps its return address in a frame: it comes back only if that is held.
Messages ==
  /\ pc = "messages"
  /\ Push(UsrFrame)
  /\ \/ Held(UsrFrame) /\ pc' = "run"
     \/ ~Clear(UsrFrame) /\ pc' = "lost"
  /\ UNCHANGED <<medium, wdt, fclk, ready, sp, dest, cpsr, ubrdiv, usrStack, resets>>

\* main: g_Char++ and g_Char3++, variables of .data.
MainStore ==
  /\ pc = "run"
  /\ \E w \in DataStart..N-1, v \in Vals : SdramStore(w, v)
  /\ UNCHANGED <<pc, medium, wdt, fclk, low, ready, sp, dest, cpsr, ubrdiv, usrStack, resets>>

\* A chip reset: registers to their reset values, SRAM reloaded from NAND,
\* SDRAM without refresh until sdram_init: kept or decayed.
ChipReset ==
  /\ pc' = "reset" /\ wdt' = TRUE /\ fclk' = 12
  /\ low' = LowImage(medium)
  /\ sdram' \in {sdram, [w \in Words |-> Junk]}
  /\ ready' = FALSE /\ sp' = "unset" /\ dest' = 0 /\ cpsr' = 211 /\ ubrdiv' = 0
  /\ usrStack' \in UsrStacks
  /\ UNCHANGED medium

\* The watchdog runs from reset and nothing in the program feeds it.
WatchdogBite == wdt /\ ChipReset /\ UNCHANGED resets
ResetButton == resets < MaxResets /\ resets' = resets + 1 /\ ChipReset

Code == \/ WatchdogOff \/ ClockInit \/ Probe \/ SdramInit \/ Copy2Sdram
        \/ CleanBss \/ EnterUsr \/ Uart0Init \/ Messages
BootNext == Code \/ MainStore \/ WatchdogBite \/ ResetButton

BootSpec == BootInit /\ [][BootNext]_bootVars
\* The processor always executes its next instruction.
FairBoot == BootSpec /\ WF_bootVars(Code)
-----------------------------------------------------------------------------
BootTypeOK ==
  /\ pc \in Steps /\ medium \in Media /\ wdt \in BOOLEAN
  /\ fclk \in {12, Mpll(92, 1, 1)}
  /\ low \in [Words -> Int] /\ sdram \in [Words -> Int]
  /\ ready \in BOOLEAN /\ sp \in {"unset", "low", "sram"}
  /\ dest \in 0..MemWords /\ cpsr \in 0..255 /\ ubrdiv \in Nat
  /\ usrStack \in UsrStacks /\ resets \in 0..MaxResets

\* When relocate has returned, SDRAM holds the linked image and zeroed .bss,
\* whatever an earlier run left there (start.S:103, relocate.c), and keeps them as
\* long as no frame of usr mode has been pushed over them.
Loaded ==
  pc \in {"mode", "uart"} \/ (pc = "messages" /\ Clear(UsrFrame)) =>
    /\ \A w \in 0..N-1 : sdram[w] = Image[w]
    /\ \A w \in N..EndWord : sdram[w] = 0

\* The vectors and handlers at address 0, which run there even after the
\* copy, survive the NAND/NOR probe and the stack (start.S:92-103); and the
\* frames of usr mode, if sp_usr happens to point to RAM clear of them.
VectorsIntact ==
  pc \notin {"messages", "run", "lost"} \/ Clear(UsrFrame) => \A w \in 0..N-1 : low[w] = Image[w]

\* The probe tells the media apart: the stack is in RAM (start.S:96-98).
StackInRam == sp # "unset" => (sp = "low" <=> medium = "nand")

\* The program runs in usr mode, interrupts masked as reset left them
\* (start.S:108-110: M4-M0 become 0b10000).
UsrMode == pc \in {"uart", "messages", "run"} => cpsr % 32 = 16 /\ cpsr \div 128 = 1

\* Once nobody presses reset, the board reaches main and stays there: the
\* watchdog is off before it can keep resetting the board (start.S:50-53).  It is
\* lost before main only where sp_usr happens not to point to RAM clear of the
\* program, for start.S:110 switches to a stack that nothing has set.
BootCompletes == <>[](pc = "run" \/ (pc = "lost" /\ ~Clear(UsrFrame)))

\* Boot implements Loader: main sees fresh memory after every reset, unless a frame
\* of usr mode was pushed over the program.
Usable == pc = "run" /\ Clear(UsrFrame)
LinkWords == 0..EndWord
Blank == [w \in LinkWords |-> Junk]
L == INSTANCE Loader WITH
       Fresh <- [w \in LinkWords |-> IF w < N THEN Image[w] ELSE 0],
       DataWords <- DataStart..N-1,
       phase <- IF Usable THEN "run" ELSE "boot",
       mem <- IF Usable THEN [w \in LinkWords |-> sdram[w]] ELSE Blank
ImplementsLoader == L!Spec
=============================================================================
