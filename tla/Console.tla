------------------------------ MODULE Console ------------------------------
(***************************************************************************)
(* What a program that prints with putchar may rely on: the terminal shows *)
(* the characters of each writer in order, one at a time and only once. An *)
(* interrupt may cost the last character of its own message, no other.     *)
(***************************************************************************)
EXTENDS Integers, Sequences

VARIABLES
  out,        \* characters accepted, in the order the terminal will show them
  said,       \* characters each writer has printed
  interrupts, \* interrupts taken
  drops       \* characters lost

Writers == {"thread", "handler"}
Init == out = << >> /\ said = [w \in Writers |-> 0] /\ interrupts = 0 /\ drops = 0

Say(w) ==
  /\ said' = [said EXCEPT ![w] = @ + 1]
  /\ out' = Append(out, <<w, said'[w]>>)
  /\ UNCHANGED <<interrupts, drops>>

\* The thread's character takes the place of the one the handler said last.
SayOver ==
  /\ out # << >> /\ out[Len(out)][1] = "handler" /\ drops < interrupts
  /\ said' = [said EXCEPT !["thread"] = @ + 1]
  /\ out' = [out EXCEPT ![Len(out)] = <<"thread", said'["thread"]>>]
  /\ drops' = drops + 1
  /\ UNCHANGED interrupts

Interrupt == interrupts' = interrupts + 1 /\ UNCHANGED <<out, said, drops>>

Next == SayOver \/ Interrupt \/ \E w \in Writers : Say(w)
Spec == Init /\ [][Next]_<<out, said, interrupts, drops>>
=============================================================================
