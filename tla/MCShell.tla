------------------------------ MODULE MCShell ------------------------------
(***************************************************************************)
(* A byte is one hexadecimal digit and an int four, so that words of five  *)
(* and more digits overflow; the arrays keep the order of their sizes.     *)
(* Command names are shortened: the read and the write commands differ in  *)
(* their last letter, and the file "e" is a beginning of the command "ec". *)
(***************************************************************************)
EXTENDS Shell

MCFiles == <<"fshell", "fuptime">>

\* e c r b w l i o t s u 0 1 8 f g F
MCCommandNames ==
    [ECHO |-> <<101, 99>>, READB |-> <<114, 98>>, READW |-> <<114, 119>>,
     READL |-> <<114, 108>>, IOREADB |-> <<105>>, WRITEB |-> <<119, 98>>,
     WRITEW |-> <<119, 119>>, WRITEL |-> <<119, 108>>, IOWRITEB |-> <<111>>,
     TEST |-> <<116>>, SHUTDOWN |-> <<115>>]
MCFileNames == [fshell |-> <<115, 104>>, fuptime |-> <<101>>]

MCMapped == 1 .. 5
MCOwn == {5}
\* For a write the stack is full before second is, or after (WRITEB).
MCFrames == [id \in Reads \cup Writes |-> IF id \in Reads THEN 9
                                          ELSE IF id = "WRITEB" THEN 7 ELSE 6]

Sp == <<Space>>

\* f, abcde (more digits than an int has)
Data == {<<102>>, <<97, 98, 99, 100, 101>>}
\* 1, 2 (four bytes from it reach the shell's own), 10001 (1 after the overflow)
Addr == {<<49>>, <<50>>, <<49, 48, 48, 48, 49>>}
\* 1a2b3c (fills its array), 1234567 (overruns it), 8000 (the smallest int), g
OddData == {<<49, 97, 50, 98, 51, 99>>, <<56, 48, 48, 48>>, <<49, 50, 51, 52, 53, 54, 55>>, <<103>>}
\* 5 (the shell's own), ffff (wraps around), 6, 7 and 8 digits (more than the stack takes, than
\* second takes), no word
OddAddr == {<<53>>, <<102, 102, 102, 102>>, <<>>} \cup {[j \in 1 .. n |-> 49] : n \in 6 .. 8}

Write(D, A) == {CommandNames[id] \o Sp \o d \o Sp \o a : id \in Writes, d \in D, a \in A}

MCLines ==
    Write(Data, Addr) \cup Write(OddData, OddAddr)
    \cup {CommandNames[id] \o Sp \o a : id \in Reads, a \in Addr \cup OddAddr}
    \cup {CommandNames[id] \o <<Space, 49>> \o [j \in 1 .. n |-> Space] : id \in Reads, n \in {1, 12, 16}}
    \cup {CommandNames[id] \o Sp \o [j \in 1 .. n |-> 49] : id \in Reads, n \in {9, 10}}
    \cup {CommandNames[id] \o t : id \in {"READB", "WRITEB"},
             t \in {<<Space, 49, NUL, 102>>, <<Space, 102, NUL, Space, 49>>, <<Space, 102, Space, 49, NUL>>}}
    \cup BoundedSeq({Space, 101, 99}, 4) \cup BoundedSeq({NUL, Space, 101}, 3)
    \cup {<<101, 99, NUL, 101>>, <<101, 99, Space, NUL, 101>>, <<101, 99, Space, 101, NUL, 101>>}
    \cup {<<101, NUL>> \o [j \in 1 .. 20 |-> 101]}
    \cup {[j \in 1 .. n |-> 101] : n \in 19 .. 20}
    \cup {<<101, 99, Space>> \o [j \in 1 .. n |-> 101] : n \in 19 .. 20}
    \cup {<<115>>, <<115, 104>>, <<115, 104, 49>>, <<116>>, <<114>>}
=============================================================================
