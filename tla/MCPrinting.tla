----------------------------- MODULE MCPrinting -----------------------------
(* Small instances of Printing for TLC. *)
EXTENDS Printing, TLC

CONSTANTS u, v

TwoClients == {u, v}

Strings(n) == [i \in 1..n |-> "printString"]

Work(n, cu, cv) == [typed |-> n, calls |-> u :> cu @@ v :> cv]

\* Strings against strings, readers against readers, and a line against a string.
AllWorkloads ==
  { Work(0, Strings(2), Strings(1)),
    Work(4, <<"getc", "getc", "getc">>, <<"getc", "getc">>),
    Work(2, Strings(1), <<"getString">>) }
=============================================================================
