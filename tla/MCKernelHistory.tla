------------------------------ MODULE MCKernelHistory ------------------------------
(* Small instances of KernelHistory for TLC. *)
EXTENDS KernelHistory, TLC

CONSTANTS m, a, b, s1, idle, noRet

ThreadsMAB == {m, a, b}
SemsOne    == {s1}
BootA      == <<a>>
MainPolls  == {m}
NoPollers  == {}
Times2     == {2}
Times23    == {2, 3}
Inits0     == {0}
Inits01    == {0, 1}
=============================================================================
