------------------------------- MODULE Shell -------------------------------
(***************************************************************************)
(* The shell's command interpreter (apps/shell.c) with the file table it   *)
(* looks commands up in (kernel/fs.c on the list of kernel/queue.c), from  *)
(* the typed line to what the command does to memory or shows.             *)
(*                                                                         *)
(* The character arrays of the code have no bound checks, and the stack    *)
(* has none either.  After a store outside an array, or into the shell's   *)
(* own code or stacks, anything may happen: the shell is then in the state *)
(* "overrun", about which nothing more is said.  A user access outside the *)
(* mapped pages, or a forbidden port, raises an exception whose handler    *)
(* never returns: "halt".                                                  *)
(***************************************************************************)
EXTENDS Strings, FiniteSets, SequencesExt

CONSTANTS Lines,          \* what may be typed: get_line's results
          CommandNames,   \* the name of every built-in command
          Files, fhead,    \* struct files in the table's order; the list head
          FileNames,      \* their names in the disk image
          Mapped,         \* addresses user code may access
          Own,            \* those of the binary and of the two stacks
          Frames,         \* calls of pow the stack has room for, in each command
          HexPerByte,     \* 2
          ArgSize,        \* command[256], args[256]
          ReadSize,       \* first[128], other[128] of the read commands
          DataSize,       \* first[16] of the write commands
          AddrSize,       \* second[32]
          OtherSize       \* other[128], _other[128]

\* What the i-th byte of a number counts; a byte and an int have as many
\* values as the next byte would count.
ByteWeight(i) == Power(16, HexPerByte * i)
ByteMod == ByteWeight(1)
IntMod == ByteWeight(4)

Width == [READB |-> 1, READW |-> 2, READL |-> 4, IOREADB |-> 1,
          WRITEB |-> 1, WRITEW |-> 2, WRITEL |-> 4, IOWRITEB |-> 1]
Reads == {"READB", "READW", "READL", "IOREADB"}
Writes == {"WRITEB", "WRITEW", "WRITEL", "IOWRITEB"}
Ports == {"IOREADB", "IOWRITEB"}
Commands == Reads \cup Writes \cup {"ECHO", "TEST", "SHUTDOWN"}

ASSUME ShellAssumption ==
    \* The keys without a character, Shift and Ctrl among them, give NUL.
    /\ Lines \subseteq Seq(0 .. 127)
    /\ CommandNames \in [Commands -> Seq(1 .. 127)]
    /\ IsInjective(CommandNames)
    /\ Files \in Seq(ToSet(Files)) /\ IsInjective(Files)
    /\ ToSet(Files) \cap (Commands \cup {fhead}) = {}
    /\ FileNames \in [ToSet(Files) -> Seq(1 .. 127)]
    /\ HexPerByte \in Nat \ {0}
    \* task_init() maps two pages: the last byte an address can reach is in neither.
    /\ Mapped \subseteq 0 .. IntMod - 2 /\ Own \subseteq Mapped
    /\ Frames \in [Reads \cup Writes -> Nat]
    /\ {ArgSize, ReadSize, DataSize, AddrSize, OtherSize} \subseteq Nat \ {0}
    /\ ReadSize <= ArgSize

VARIABLES
    pc,               \* where shell_main is
    stack,            \* what the bytes of an array hold before the first store
    typed,            \* history: the line
    command, args,    \* the arrays of shell_main
    command_id,
    first, second,    \* the arrays of the command
    mem,              \* the other bytes of user memory
    list,             \* the file table: next and prev of its entries
    fp,               \* where fs_open's walk stands, or its result
    walked,           \* history: entries the walk has passed
    did, shown,       \* history: what the last command was and displayed
    written           \* history: address, width and data word of the last write

line  == <<stack, typed, command, args, command_id>>
files == <<list, fp, walked>>
vars  == <<pc, line, first, second, mem, files, did, shown, written>>

\* What is left of the mapped bytes when the shell's own are taken away, which a
\* write may harm and which change without one: the page of the binary (the
\* file's name in front, shared by a second shell) and, in the stack page, the
\* user stack in the lower half and, at the end of the upper half, the kernel
\* stack, on which the shell's system calls and the interrupts run.
Free == Mapped \ Own

\* Reference definitions: a line up to its first NUL, and the words of it, as
\* sequences.
Text(l) == LET n == SelectInSeq(l, LAMBDA c : c = NUL)
           IN  IF n = 0 THEN l ELSE SubSeq(l, 1, n - 1)
said == Text(typed)
Blank(l) == SelectInSeq(l, LAMBDA c : c = Space)
WordOf(l) == IF Blank(l) = 0 THEN l ELSE SubSeq(l, 1, Blank(l) - 1)
RestOf(l) == IF Blank(l) = 0 THEN <<>> ELSE SubSeq(l, Blank(l) + 1, Len(l))

Garbage == {NUL, LowerA}
Uninit(n) == [i \in 0 .. n - 1 |-> stack]
Nothing == [addr |-> 0, width |-> 0, word |-> <<>>]

TypeOK ==
    /\ pc \in {"loop", "line", "split", "dispatch", "read", "write", "open", "exec",
               "overrun", "halt", "off"}
    /\ stack \in Garbage
    /\ typed \in Seq(0 .. 127)
    /\ DOMAIN command = 0 .. ArgSize - 1 /\ DOMAIN args = 0 .. ArgSize - 1
    /\ command_id \in Commands \cup {"COMMAND_NUM"}
    /\ mem \in [Free -> 0 .. ByteMod - 1]
    /\ fp \in ToSet(Files) \cup {fhead}
    /\ walked \in 0 .. Len(Files)
    /\ did \in Commands \cup ToSet(Files) \cup {"none", "unknown"}
    /\ shown \in Seq(1 .. 127)

----------------------------------------------------------------------------
(***************************************************************************)
(* queue.c and fs.c.                                                       *)
(***************************************************************************)
\* The links of the entries before fs_init, which are static.
StaticLinks == [f \in ToSet(Files) \cup {fhead} |-> "NULL"]

queue_init(l, h) == [next |-> [l.next EXCEPT ![h] = h], prev |-> [l.prev EXCEPT ![h] = h]]

\* Mutants: the new entry points to the first one instead of the head; nothing
\* points to it.
QueueEnqLoop(l, entry, h) ==
    [next |-> [l.next EXCEPT ![entry] = l.next[h], ![l.prev[h]] = entry],
     prev |-> [l.prev EXCEPT ![entry] = l.prev[h], ![h] = entry]]

QueueEnqUnlinked(l, entry, h) ==
    [next |-> [l.next EXCEPT ![entry] = h],
     prev |-> [l.prev EXCEPT ![entry] = l.prev[h], ![h] = entry]]

queue_enq(l, entry, h) ==
    [next |-> [l.next EXCEPT ![entry] = h, ![l.prev[h]] = entry],
     prev |-> [l.prev EXCEPT ![entry] = l.prev[h], ![h] = entry]]

\* num_files, read from the image, is never used.
fs_init ==
    LET static == [next |-> StaticLinks, prev |-> StaticLinks]
        ring[k \in 0 .. Len(Files)] == IF k = 0 THEN queue_init(static, fhead)
                                       ELSE queue_enq(ring[k - 1], Files[k], fhead)
    IN  ring[Len(Files)]

----------------------------------------------------------------------------
Init ==
    /\ pc = "loop" /\ stack = NUL
    /\ typed = <<>>
    /\ command = Uninit(ArgSize) /\ args = Uninit(ArgSize)
    /\ command_id = "COMMAND_NUM"
    /\ first = Uninit(1) /\ second = Uninit(1)
    /\ mem = [a \in Free |-> 0]
    /\ list = fs_init
    /\ fp = fhead /\ walked = 0
    /\ did = "none" /\ shown = <<>>
    /\ written = Nothing

\* Mutant: the rest of the line starts with the blank.
RestAtBlank(first_len) == first_len

RestStart(first_len) == first_len + 1

\* The word up to the first blank and the rest of the line, and whether both
\* were stored inside their arrays.
str_get_first_entry(src, fst, oth) ==
    LET first_len == str_find_char(src, Space)
        line_len == str_get_len(src)
        other_len == line_len - RestStart(first_len)
    IN  IF first_len < 0
        THEN [ok |-> line_len <= Cardinality(DOMAIN fst),
              first |-> copy_mem(src, 0, fst, line_len),
              other |-> [oth EXCEPT ![0] = NUL]]
        ELSE [ok |-> first_len < Cardinality(DOMAIN fst) /\ other_len <= Cardinality(DOMAIN oth),
              first |-> [i \in DOMAIN fst |-> IF i = first_len THEN NUL
                                              ELSE copy_mem(src, 0, fst, first_len)[i]],
              other |-> copy_mem(src, RestStart(first_len), oth, other_len)]

get_command_id(cmd) ==
    LET Ids == {c \in Commands : str_compare(cmd, CString(CommandNames[c])) = 0}
    IN  IF Ids = {} THEN "COMMAND_NUM" ELSE CHOOSE c \in Ids : TRUE

Is(id) == pc = "dispatch" /\ command_id = id

\* The loop body starts: the prompt is printed, the arrays hold no value yet.
shell_main ==
    /\ pc = "loop" /\ pc' = "line"
    /\ stack' \in Garbage
    /\ typed' = <<>>
    /\ command' = Uninit(ArgSize)' /\ args' = Uninit(ArgSize)'
    /\ command_id' = "COMMAND_NUM"
    /\ first' = Uninit(1)' /\ second' = Uninit(1)'
    /\ did' = "none" /\ shown' = <<>>
    /\ UNCHANGED <<mem, files, written>>

get_line(l) ==
    /\ pc = "line"
    /\ pc' = IF l = <<>> THEN "loop" ELSE "split"
    /\ typed' = l
    /\ UNCHANGED <<stack, command, args, command_id, first, second, mem, files, did, shown, written>>

split_line ==
    /\ pc = "split"
    /\ LET e == str_get_first_entry(CString(typed), command, args)
       IN  IF e.ok
           THEN /\ pc' = "dispatch"
                /\ command' = e.first /\ args' = e.other
                /\ command_id' = get_command_id(e.first)
           ELSE pc' = "overrun" /\ UNCHANGED <<command, args, command_id>>
    /\ UNCHANGED <<stack, typed, first, second, mem, files, did, shown, written>>

\* The command is over: what it was and what it put on the screen.
Return(id, text) == pc' = "loop" /\ did' = id /\ shown' = text

command_echo ==
    /\ Is("ECHO")
    /\ Return("ECHO", StringOf(args))
    /\ UNCHANGED <<line, first, second, mem, files, written>>

\* test, and shutdown on a machine without the port that switches it off.
command_test ==
    /\ \E id \in {"TEST", "SHUTDOWN"} : Is(id) /\ Return(id, <<>>)
    /\ UNCHANGED <<line, first, second, mem, files, written>>

command_shutdown ==
    /\ Is("SHUTDOWN")
    /\ pc' = "off"
    /\ UNCHANGED <<line, first, second, mem, files, did, shown, written>>

----------------------------------------------------------------------------
(***************************************************************************)
(* readb, readw, readl, ioreadb, writeb, writew, writel, iowriteb: the     *)
(* words are taken from the arguments, then converted and used.            *)
(***************************************************************************)
command_read(id) ==
    /\ Is(id)
    /\ LET e == str_get_first_entry(args, Uninit(ReadSize), Uninit(ReadSize))
       IN  IF e.ok THEN pc' = "read" /\ first' = e.first
                   ELSE pc' = "overrun" /\ UNCHANGED first
    /\ UNCHANGED <<line, second, mem, files, did, shown, written>>

\* Mutant: the address gets an array as short as the data's.
SecondShort == Uninit(DataSize)

SecondArray == Uninit(AddrSize)

command_write(id) ==
    /\ Is(id)
    /\ LET e == str_get_first_entry(args, Uninit(DataSize), Uninit(OtherSize))
           f == str_get_first_entry(e.other, SecondArray, Uninit(OtherSize))
       IN  IF e.ok /\ f.ok THEN pc' = "write" /\ first' = e.first /\ second' = f.first
                           ELSE pc' = "overrun" /\ UNCHANGED <<first, second>>
    /\ UNCHANGED <<line, mem, files, did, shown, written>>

Bytes(addr, n) == {(addr + i) % IntMod : i \in 0 .. n - 1}

Load(m, addr, n) ==
    LET val[i \in 0 .. n] == IF i = 0 THEN 0 ELSE val[i - 1] * ByteMod + m[addr + n - i]
    IN  val[n]

\* Mutant: the most significant byte goes first.
StoreBig(m, addr, n, val) ==
    [a \in DOMAIN m |-> IF a \in Bytes(addr, n)
                        THEN (val \div ByteWeight(n - 1 - (a - addr))) % ByteMod ELSE m[a]]

\* Little endian; the conversion to the pointer's type drops the high bytes.
Store(m, addr, n, val) ==
    [a \in DOMAIN m |-> IF a \in Bytes(addr, n)
                        THEN (val \div ByteWeight(a - addr)) % ByteMod ELSE m[a]]

Fits(id, word) == pow_depth(word) <= Frames[id]

\* The user stack ends where the binary's page begins, and that can be written.
pow_overruns(id) ==
    /\ command_id = id
    /\ \/ pc = "read" /\ ~Fits(id, first)
       \/ pc = "write" /\ ~(Fits(id, first) /\ Fits(id, second))
    /\ pc' = "overrun"
    /\ UNCHANGED <<line, first, second, mem, files, did, shown, written>>

\* All of user memory; what the shell's own bytes hold is left open.
Memory(own) == [a \in Mapped |-> IF a \in Own THEN own[a] ELSE mem[a]]

read_access(id) ==
    /\ pc = "read" /\ command_id = id /\ Fits(id, first)
    /\ LET addr == str_conv_ahex_int(first, IntMod)
           n == Width[id]
       IN  \/ /\ id \notin Ports /\ Bytes(addr, n) \subseteq Mapped
              /\ \E own \in [Own -> 0 .. ByteMod - 1] :
                    Return(id, dump_hex(Load(Memory(own), addr, n), n * HexPerByte))
           \/ /\ id \in Ports
              /\ \E v \in {0, ByteMod - 1} : Return(id, dump_hex(v, HexPerByte))
           \/ /\ id \in Ports \/ ~(Bytes(addr, n) \subseteq Mapped)
              /\ pc' = "halt" /\ UNCHANGED <<did, shown>>
    /\ UNCHANGED <<line, first, second, mem, files, written>>

write_access(id) ==
    /\ pc = "write" /\ command_id = id /\ Fits(id, first) /\ Fits(id, second)
    /\ LET data == str_conv_ahex_int(first, IntMod)
           addr == str_conv_ahex_int(second, IntMod)
           n == Width[id]
       IN  \/ /\ id \notin Ports /\ Bytes(addr, n) \subseteq Free
              /\ mem' = Store(mem, addr, n, data)
              /\ written' = [addr |-> addr, width |-> n, word |-> WordOf(RestOf(said))]
              /\ Return(id, <<>>)
           \/ /\ id \notin Ports /\ Bytes(addr, n) \subseteq Mapped
              /\ ~(Bytes(addr, n) \subseteq Free)
              /\ mem' = Store(mem, addr, n, data) /\ written' = Nothing
              /\ \/ Return(id, <<>>)
                 \/ pc' = "overrun" /\ UNCHANGED <<did, shown>>
           \/ /\ id \in Ports
              /\ Return(id, <<>>) /\ UNCHANGED <<mem, written>>
           \/ /\ id \in Ports \/ ~(Bytes(addr, n) \subseteq Mapped)
              /\ pc' = "halt" /\ UNCHANGED <<mem, did, shown, written>>
    /\ UNCHANGED <<line, first, second, files>>

----------------------------------------------------------------------------
(***************************************************************************)
(* Anything else is looked up in the file table and started.               *)
(***************************************************************************)
fs_open ==
    /\ Is("COMMAND_NUM")
    /\ pc' = "open" /\ fp' = list.next[fhead] /\ walked' = 0
    /\ UNCHANGED <<line, first, second, mem, list, did, shown, written>>

fs_open_next ==
    /\ pc = "open"
    /\ IF fp = fhead
       THEN Return("unknown", <<>>) /\ walked' = 0 /\ UNCHANGED fp
       ELSE IF str_compare(command, CString(FileNames[fp])) = 0
       THEN pc' = "exec" /\ UNCHANGED <<fp, walked, did, shown>>
       ELSE fp' = list.next[fp] /\ walked' = walked + 1 /\ UNCHANGED <<pc, did, shown>>
    /\ UNCHANGED <<line, first, second, mem, list, written>>

exec ==
    /\ pc = "exec"
    /\ Return(fp, <<>>) /\ fp' = fhead /\ walked' = 0
    /\ UNCHANGED <<line, first, second, mem, list, written>>

\* After an overrun, an exception or a shutdown.
stopped == pc \in {"overrun", "halt", "off"} /\ UNCHANGED vars

Next ==
    \/ shell_main
    \/ \E l \in Lines : get_line(l)
    \/ split_line
    \/ command_echo
    \/ command_test
    \/ command_shutdown
    \/ \E id \in Reads : command_read(id) \/ pow_overruns(id) \/ read_access(id)
    \/ \E id \in Writes : command_write(id) \/ pow_overruns(id) \/ write_access(id)
    \/ fs_open
    \/ fs_open_next
    \/ exec
    \/ stopped

Spec == Init /\ [][Next]_vars

----------------------------------------------------------------------------
\* The number a word stands for, however many digits it has.
IsHex(w) == w # <<>> /\ \A j \in DOMAIN w : w[j] \in (Zero .. Zero + 9) \cup (LowerA .. LowerA + 5)
Value(w, base) ==
    LET v[i \in 0 .. Len(w)] == IF i = 0 THEN 0 ELSE v[i - 1] * base + HexDigit(w[i])
    IN  v[Len(w)]

(***************************************************************************)
(* shell_main(), get_command_id(), fs_open(): a line that overruns nothing *)
(* and touches no forbidden address is answered by the one command or file *)
(* whose name is its first word, or by "Command not found."; echo shows    *)
(* exactly the characters after the first blank.  The line ends at its     *)
(* first NUL, which get_line() stores for a key without a character: what  *)
(* is typed after it has no effect.                                        *)
(***************************************************************************)
Answers(l) == {c \in Commands : CommandNames[c] = WordOf(l)}
                \cup {f \in ToSet(Files) : FileNames[f] = WordOf(l)}

LineIsAnswered ==
    pc = "loop" /\ typed # <<>> =>
        /\ did \in (IF Answers(said) = {} THEN {"unknown"} ELSE Answers(said))
        /\ did = "ECHO" => shown = RestOf(said)

(***************************************************************************)
(* str_get_first_entry(): the arrays hold the words of the line although   *)
(* they are never cleared: no character of an earlier line, of the stack   *)
(* or behind a NUL is taken for one of this line.                          *)
(***************************************************************************)
WordsExact ==
    /\ pc \in {"dispatch", "read", "write", "open", "exec"} =>
           StringOf(command) = WordOf(said) /\ StringOf(args) = RestOf(said)
    /\ pc \in {"read", "write"} => StringOf(first) = WordOf(RestOf(said))
    /\ pc = "write" => StringOf(second) = WordOf(RestOf(RestOf(said)))

\* The words of a line that names the command id.
Said(id) == WordOf(said) = CommandNames[id]
FirstWord == WordOf(RestOf(said))
SecondWord == WordOf(RestOf(RestOf(said)))

(***************************************************************************)
(* str_get_first_entry() copies without a bound, pow() recurses without    *)
(* one, and a write command may store anywhere in its two pages.  Still    *)
(* the shell is harmed only by a line of 128 characters or more (ReadSize, *)
(* OtherSize); by a first word of 16 or a second of 32 after the command   *)
(* (DataSize, AddrSize); by a number with more digits than the stack has   *)
(* room for calls of pow; or by a write to its own code or stacks.         *)
(***************************************************************************)
ShortLinesFit ==
    pc = "overrun" =>
        \/ Len(said) >= ReadSize \/ Len(said) >= OtherSize
        \/ Len(FirstWord) >= DataSize \/ Len(SecondWord) >= AddrSize
        \/ \E id \in Reads \cup Writes : Said(id) /\ Len(FirstWord) > Frames[id]
        \/ \E id \in Writes : Said(id) /\ Len(SecondWord) > Frames[id]
        \/ \E id \in Writes \ Ports :
              Said(id) /\ Bytes(Value(SecondWord, 16) % IntMod, Width[id]) \cap Own # {}

\* A step of the write command id, given two hexadecimal words.
WriteLands(id) ==
    pc = "write" /\ Said(id) /\ IsHex(FirstWord) /\ IsHex(SecondWord) /\ pc' # "overrun" =>
        IF \E i \in 0 .. Width[id] - 1 : (Value(SecondWord, 16) + i) % IntMod \notin Mapped
        THEN pc' = "halt" /\ mem' = mem
        ELSE \A a \in Free :
                LET i == a - (Value(SecondWord, 16) % IntMod)
                IN  mem'[a] = IF i \in 0 .. Width[id] - 1
                              THEN (Value(FirstWord, 16) \div ByteWeight(i)) % ByteMod
                              ELSE mem[a]

(***************************************************************************)
(* writeb, writew, writel: the bytes from the address on become the low    *)
(* bytes of the number and no other byte changes, also when the numbers    *)
(* have more digits than an int: the powers of 16 wrap to 0.  (Of the      *)
(* shell's own bytes nothing is said.)                                     *)
(***************************************************************************)
WritesLand == [][\A id \in Writes \ Ports : WriteLands(id)]_vars

\* A word as dump_hex prints it: n digits, padded with 0, in capitals.
Printed(w, n) ==
    [j \in 1 .. n |-> LET k == Len(w) - n + j
                      IN  IF k < 1 THEN Zero
                          ELSE IF w[k] >= LowerA THEN w[k] - LowerA + UpperA ELSE w[k]]

\* A step that ends the read command id, given the address of the last write.
ReadShows(id) ==
    pc = "read" /\ pc' = "loop" /\ did' = id /\ IsHex(FirstWord) /\ IsHex(written.word)
    /\ Value(FirstWord, 16) % IntMod = written.addr /\ Width[id] = written.width =>
        shown' = Printed(written.word, Width[id] * HexPerByte)

(***************************************************************************)
(* A read with the width and address of the last write shows the last      *)
(* digits of the word that was typed then, when the write was to bytes     *)
(* that are not the shell's own: what str_conv_ahex_int, the store, the    *)
(* load and dump_hex do to a number is undone digit by digit.  (It is      *)
(* shown in capitals, which str_conv_ahex_int does not read back.)         *)
(***************************************************************************)
ReadShowsWritten == [][\A id \in Reads \ Ports : ReadShows(id)]_vars

Start(w, k) == IF Len(w) <= k THEN w ELSE SubSeq(w, 1, k)
Sign(n) == IF n < 0 THEN -1 ELSE IF n > 0 THEN 1 ELSE 0
Signed(n) == IF n < IntMod \div 2 THEN n ELSE n - IntMod

\* What itoa puts into its array is the number n.
ItoaPrints(n) ==
    LET dec == itoa(n, IntMod)
    IN  n = IF dec[1] = Minus THEN -Value(Tail(dec), 10) ELSE Value(dec, 10)

(***************************************************************************)
(* string.c and stdlib.c agree with the shell's own functions: strcpy      *)
(* copies the word, strcmp and strncmp order strings as str_compare does,  *)
(* itox prints the number the typed word stands for, and itoa its signed   *)
(* value, but for the smallest one, which has no positive counterpart: its *)
(* first digit is a negative remainder, and it prints as "-(".  What       *)
(* strlen and strcpy return is the matter of LibraryAsDocumented.          *)
(***************************************************************************)
LibraryAgrees ==
    /\ pc = "dispatch" => StringOf(strcpy(Uninit(ArgSize), command).array) = WordOf(said)
    /\ pc = "dispatch" => \A n \in Range(CommandNames) \cup Range(FileNames) :
         /\ Sign(strcmp(command, CString(n))) = Sign(str_compare(command, CString(n)))
         /\ \A k \in 0 .. Len(n) + 1 :
               (strncmp(command, CString(n), k) = 0)
                  <=> Start(WordOf(said), k) = Start(n, k)
    /\ pc = "write" /\ IsHex(StringOf(first)) =>
         LET v == Value(StringOf(first), 16) % IntMod
         IN  /\ Value(itox(v), 16) = v
             /\ Len(itox(v)) > 1 => itox(v)[1] # Zero
             /\ Signed(v) > -(IntMod \div 2) => ItoaPrints(Signed(v))

(***************************************************************************)
(* string.c:64 says that strlen works as strlen(3), which does not count   *)
(* the NUL, and string.c:77 that strcpy works as strcpy(3), which returns  *)
(* its first argument.  The code counts the NUL, and returns the place     *)
(* behind it.                                                              *)
(***************************************************************************)
LibraryAsDocumented ==
    pc = "dispatch" => /\ strlen(command) = Len(WordOf(said))
                       /\ strcpy(Uninit(ArgSize), command).result = 0
=============================================================================
