------------------------------- MODULE MCShell -------------------------------
(* Two script names, one slot, bodies of up to two lines, three lines *)
(* of input.                                                                  *)
EXTENDS Shell
CONSTANTS a, b
Cmd(op, name, times, subs) == [op |-> op, name |-> name, times |-> times, subs |-> subs]
P == Cmd("plain", Absent, 0, <<>>)
Nap == Cmd("sleep", Absent, 0, <<>>)
RunA == Cmd("run", a, 0, <<>>)
SaveA == Cmd("save", a, 0, <<>>)
Rep(c) == Cmd("repeat", Absent, 2, <<c>>)
MCTyped == {Nap, RunA, SaveA, Cmd("fetch", a, 0, <<>>),
            Cmd("rm", a, 0, <<>>), Rep(RunA), Cmd("if", Absent, 0, <<SaveA, Nap, RunA>>),
            Cmd("while", Absent, 0, <<P, Nap>>)}
MCWords == {Nap, RunA}
MCStrays == {P, RunA}
MCCommands == MCTyped \cup MCWords \cup MCStrays
MCBodies == UNION {[1 .. n -> MCWords] : n \in 0 .. 2}
Empty == [i \in Slots |-> Erased]
MCStored == {[Empty EXCEPT ![1] = Header(a, <<Nap, RunA>>, TRUE)]}
=============================================================================
