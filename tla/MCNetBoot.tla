------------------------------ MODULE MCNetBoot ------------------------------
(* NetBoot with files of a few blocks. *)
EXTENDS NetBoot

\* A kernel whose last block is short and a ramdisk that ends with an empty one;
\* a kernel of whole blocks, the last of which nobody asks for, and a command line.
MCLoads ==
  {<<[reader |-> "fill_inbuf", size |-> 3], [reader |-> "initrd", size |-> 2]>>,
   <<[reader |-> "fill_inbuf", size |-> 2], [reader |-> "cmdline", size |-> 1]>>}

\* What the theorems of NetBootProofs suppose holds here.
ASSUME ShortFiles == FewerThanBlocks
=============================================================================
