-------------------------------- MODULE Uart --------------------------------
(***************************************************************************)
(* Printing in the exception program: putchar of uart.c, called through    *)
(* puts by the thread and by interrupt_service, and the transmitter of     *)
(* UART0 without FIFO: a holding register UTXH0 and a shift register.      *)
(* A character is its writer and its number among that writer's.           *)
(***************************************************************************)
EXTENDS Integers, Sequences

CONSTANTS
  MaxChars,      \* bound on the characters the thread prints
  MsgLen,        \* characters of interrupt_service's message
  MaxInterrupts  \* bound on interrupts; 0 while CPSR.I is never cleared

ASSUME CountAssumption ==
  MaxChars \in Nat /\ MsgLen \in Nat \ {0} /\ MaxInterrupts \in Nat

Writers == {"thread", "handler"}
Chars == Writers \X (Nat \ {0})
None == <<"none", 0>>

VARIABLES
  step,       \* writer -> "poll" or "store", its place in putchar
  said,       \* writer -> characters it has stored so far
  left,       \* characters interrupt_service has still to print; 0: not running
  hold,       \* UTXH0, None when empty
  shift,      \* the shift register, None when empty
  line,       \* what the terminal has received
  interrupts, \* interrupts taken so far
  lost        \* characters overwritten in UTXH0 so far

uartVars == <<step, said, left, hold, shift, line, interrupts, lost>>
-----------------------------------------------------------------------------
\* The loop of putchar without its negation.
TransmitterBusy == ~(hold = None /\ shift = None)

\* Bit 2 of UTRSTAT0: both registers empty. Bit 1, UTXH0 empty, is not used.
TransmitterEmpty == hold = None /\ shift = None

UartInit ==
  /\ step = [w \in Writers |-> "poll"] /\ said = [w \in Writers |-> 0]
  /\ left = 0 /\ hold = None /\ shift = None /\ line = << >>
  /\ interrupts = 0 /\ lost = 0

\* The interrupt handler runs until it is done; the thread only without it.
Running(w) == IF w = "handler" THEN left > 0 ELSE left = 0
HasChar(w) == w = "thread" => said["thread"] < MaxChars

\* The loop of putchar left out.
PollOnce(w) ==
  /\ Running(w) /\ HasChar(w) /\ step[w] = "poll"
  /\ step' = [step EXCEPT ![w] = "store"]
  /\ UNCHANGED <<said, left, hold, shift, line, interrupts, lost>>

\* while (!(UTRSTAT0 & (1<<2)));
Poll(w) ==
  /\ Running(w) /\ HasChar(w) /\ step[w] = "poll" /\ TransmitterEmpty
  /\ step' = [step EXCEPT ![w] = "store"]
  /\ UNCHANGED <<said, left, hold, shift, line, interrupts, lost>>

\* UTXH0 = c; puts then moves to its next character.
StoreChar(w) ==
  /\ Running(w) /\ step[w] = "store"
  /\ step' = [step EXCEPT ![w] = "poll"]
  /\ said' = [said EXCEPT ![w] = @ + 1]
  /\ hold' = <<w, said'[w]>>
  /\ lost' = IF hold = None THEN lost ELSE lost + 1
  /\ left' = IF w = "handler" THEN left - 1 ELSE left
  /\ UNCHANGED <<shift, line, interrupts>>

\* An interrupt between any two steps of the thread.
Interrupting ==
  /\ left = 0 /\ interrupts < MaxInterrupts
  /\ interrupts' = interrupts + 1 /\ left' = MsgLen
  /\ UNCHANGED <<step, said, hold, shift, line, lost>>

\* The transmitter: UTXH0 to the shift register, and that to the line.
Load ==
  /\ hold # None /\ shift = None
  /\ shift' = hold /\ hold' = None
  /\ UNCHANGED <<step, said, left, line, interrupts, lost>>
Shift ==
  /\ shift # None
  /\ line' = Append(line, shift) /\ shift' = None
  /\ UNCHANGED <<step, said, left, hold, interrupts, lost>>

Putting == \E w \in Writers : Poll(w) \/ StoreChar(w)
UartNext == Putting \/ Interrupting \/ Load \/ Shift

UartSpec == UartInit /\ [][UartNext]_uartVars
\* The processor executes and the transmitter shifts; interrupts need not come.
FairUart == UartSpec /\ WF_uartVars(Putting) /\ WF_uartVars(Load) /\ WF_uartVars(Shift)
-----------------------------------------------------------------------------
UartTypeOK ==
  /\ step \in [Writers -> {"poll", "store"}] /\ said \in [Writers -> Nat]
  /\ left \in 0..MsgLen /\ hold \in Chars \cup {None} /\ shift \in Chars \cup {None}
  /\ line \in Seq(Chars) /\ interrupts \in 0..MaxInterrupts /\ lost \in Nat

\* However the interrupts fall into putchar's check and store, each costs at
\* most one character; with interrupts masked none is lost (uart.c:34-35).
LossBounded == lost <= interrupts

\* Everything printed reaches the terminal but for what was overwritten.
AllShown ==
  <>[](/\ said["thread"] = MaxChars
       /\ Len(line) = said["thread"] + said["handler"] - lost)

\* The accepted characters: those on the line, then the transmitter's.
InRegister(r) == IF r = None THEN << >> ELSE <<r>>
Out == line \o InRegister(shift) \o InRegister(hold)
C == INSTANCE Console WITH out <- Out, drops <- lost

\* The UART implements the console of its writers: nothing is reordered or
\* repeated, and a lost character is the last one of an interrupt's message.
ImplementsConsole == C!Spec
=============================================================================
