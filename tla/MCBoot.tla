------------------------------- MODULE MCBoot -------------------------------
(* Boot on an image of three words, the last one of .data, and one word of  *)
(* .bss, with the word after _end inside the modelled memory.  sp_usr ends  *)
(* a stack of two words in SDRAM above the image or in it, at the top of    *)
(* the SRAM of a NAND boot or over its vectors, or where nothing answers.   *)
EXTENDS Boot

MCImage == [w \in 0..2 |-> 11 + w]

MCUsrStacks == {[mem |-> "sdram", top |-> 7], [mem |-> "sdram", top |-> 6],
                [mem |-> "low", top |-> 5], [mem |-> "low", top |-> 2],
                [mem |-> "none", top |-> 0]}
=============================================================================
