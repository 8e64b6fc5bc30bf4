------------------------------- MODULE Loader -------------------------------
(***************************************************************************)
(* What the boot code of the exception program promises to main: each time *)
(* the board comes up, main finds the linked image in SDRAM, its .bss zero, *)
(* and from then on only main's own stores change that memory.             *)
(***************************************************************************)
CONSTANTS Fresh,      \* the linked memory: the image's words, then zeroed .bss
          DataWords,  \* the words main may store to
          Vals,       \* the values it may store
          Blank       \* the memory nobody may rely on, before main runs

VARIABLES phase, mem

Init == phase = "boot" /\ mem = Blank

Start == phase = "boot" /\ phase' = "run" /\ mem' = Fresh

Store == /\ phase = "run"
         /\ \E w \in DataWords, v \in Vals : mem' = [mem EXCEPT ![w] = v]
         /\ UNCHANGED phase

PowerDown == phase = "run" /\ phase' = "boot" /\ mem' = Blank

Next == Start \/ Store \/ PowerDown

Spec == Init /\ [][Next]_<<phase, mem>>
=============================================================================
