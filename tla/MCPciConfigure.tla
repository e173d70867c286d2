---------------------------- MODULE MCPciConfigure ----------------------------
(* PciConfigure with all machines of a few functions.  An I/O window is of 8,  *)
(* a megabyte of 8, and I/O and memory are given out in pieces of 2.           *)
EXTENDS PciConfigure

Io(n) == [space |-> "io", size |-> n]
Mem(n) == [space |-> "mem", size |-> n]
Pref(n) == [space |-> "pref", size |-> n]

MCBarSets == {<<>>, <<Io(1), Pref(4)>>, <<Mem(1), Mem(16), Io(2), Pref(32)>>}
MCPowerUp == {[secondary |-> 0, subordinate |-> 0], [secondary |-> 2, subordinate |-> 3]}
=============================================================================
