---------------------------- MODULE MCKernelLists ----------------------------
(* Small instances of KernelLists for TLC. *)
EXTENDS KernelLists, TLC

CONSTANTS m, a, b, s1, idle, noRet, null

ThreadsMAB == {m, a, b}
SemsOne    == {s1}
BootA      == <<a>>
NoPollers  == {}
MainPolls  == {m}
Times23    == {2, 3}
Times12    == {1, 2}
Inits0     == {0}
=============================================================================
