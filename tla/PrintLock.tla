------------------------------ MODULE PrintLock ------------------------------
(***************************************************************************)
(* What the lock of printing.cpp promises: a client is let in only when    *)
(* nobody is inside, nobody leaves for another one, and only who is inside *)
(* prints characters of a string.                                          *)
(***************************************************************************)
EXTENDS Naturals, Sequences

CONSTANTS Clients, StringLen

VARIABLES inside,  \* the clients that are let in
          author   \* whose character, and which one of its string, each one is

vars == <<inside, author>>

Init == inside = {} /\ author = <<>>

Enter(p) == inside = {} /\ inside' = {p} /\ UNCHANGED author

PutChar(p) ==
  /\ inside = {p}
  /\ \E n \in 1..StringLen : author' = Append(author, [by |-> p, nth |-> n])
  /\ UNCHANGED inside

Leave(p) == inside = {p} /\ inside' = {} /\ UNCHANGED author

Next == \E p \in Clients : Enter(p) \/ PutChar(p) \/ Leave(p)

Spec == Init /\ [][Next]_vars
=============================================================================
