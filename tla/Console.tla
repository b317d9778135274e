------------------------------ MODULE Console ------------------------------
(***************************************************************************)
(* The text console of kernel/console_io.c and its users: the kernel task, *)
(* which prints boot messages and may be preempted anywhere inside         *)
(* put_char; the shell, which echoes the line being typed; and the program *)
(* it may start from the disk: uptime, which redraws a clock in the top    *)
(* row of the screen, or the shell again, a second reader of the keyboard. *)
(* One program is all there is room for: the third user task's TSS takes   *)
(* the place of the user code segment (Boot).                              *)
(*                                                                         *)
(* System calls run with IF = 0: each is one step, except get_line, which  *)
(* blocks before every key.  The kernel task runs until the first timer    *)
(* interrupt, and then only while no user task is in the run queue.        *)
(*                                                                         *)
(* Init is the state at sti: kern_init has moved the cursor to row 2, and  *)
(* mem_init has cleared the video memory (its last loop runs far past the  *)
(* page table).                                                            *)
(***************************************************************************)
EXTENDS Integers, Sequences, SequencesExt

CONSTANTS COLUMNS, ROWS,
          Cells,          \* character cells in the mapped video memory
          UChar, UInt,    \* number of values of unsigned char, unsigned int
          LabelLen,       \* length of "uptime:"
          Digits,         \* digits of the uptime
          HexSizes,       \* digits printed by readb, readw, readl
          PromptLen,      \* length of "OS5> "
          MAX_LINE_SIZE,
          Chars,          \* characters that are typed, a key's NUL included
          Files,          \* of "uptime" and "shell", those on the disk
          KMax            \* bound on the characters the kernel task prints

\* A line never reaches from the row uptime writes to the row of the cursor
\* (80 - 1 + 511 < 24 * 80).  The rows an unsigned char can name do not fit
\* into the video memory, by more than a few rows (16384 cells, 249 * 80).
ASSUME ConsoleAssumption ==
    /\ {COLUMNS, ROWS, Cells, UChar, UInt} \subseteq Nat \ {0}
    /\ {LabelLen, Digits, PromptLen} \subseteq Nat \ {0}
    /\ MAX_LINE_SIZE \in Nat /\ MAX_LINE_SIZE > 1
    /\ KMax \in Nat
    /\ LabelLen + Digits <= COLUMNS
    /\ COLUMNS < UChar /\ UChar > 9 /\ UChar * COLUMNS + UChar < UInt
    /\ HexSizes \subseteq 1 .. UChar
    /\ Chars \cap {"CR", "LF", "BS", "other"} = {}
    /\ (COLUMNS - 1) + (MAX_LINE_SIZE - 1) < (ROWS - 1) * COLUMNS
    /\ ROWS < UChar
    /\ Cells <= (UChar - 7) * COLUMNS

VARIABLES
    con,        \* cursor_pos, video memory and CRT controller: see Consoles
    shell,      \* where shell_main of each shell is
    line,       \* buf[0 .. i - 1] of its get_line
    uptime,     \* where uptime_start is
    uy,         \* its cursor_pos_y
    kpc,        \* where the kernel task is inside put_char
    kreg,       \* x, y: the value it has loaded, a number or the cell to write;
                \* nl: what it prints, or printed last, is a line end
    kleft,      \* characters it has still to print
    whole,      \* history: the shell whose line nothing has disturbed, or 0
    lineAt      \* history: the cell of that line's first character

vars == <<con, shell, line, uptime, uy, kpc, kreg, kleft, whole, lineAt>>

\* The shell that main starts and the one it may start itself.
Shells == {1, 2}

\* Every character that was not typed into the line: the properties do not tell
\* them apart.
Other == "other"

Consoles == [x     : 0 .. UInt - 1,
             y     : 0 .. UInt - 1,
             vram  : [0 .. Cells - 1 -> Chars \cup {Other}],
             cur   : 0 .. UInt - 1,     \* the cursor and
             start : 0 .. UInt - 1,     \* start address registers
             fault : BOOLEAN]           \* the processor is in do_page_fault

TypeOK ==
    /\ con \in Consoles
    /\ shell \in [Shells -> {"off", "new", "prompt", "line", "run", "crlf"}]
    /\ line \in [Shells -> Seq(Chars)]
    /\ \A p \in Shells : Len(line[p]) <= MAX_LINE_SIZE - 1
    /\ uptime \in {"off", "read", "label", "digits", "asleep"}
    /\ uy \in 0 .. UInt - 1
    /\ kpc \in {"idle", "cell", "cmp", "loadx", "storex", "clearx",
                "loady", "storey", "addr", "cur", "start", "setstart"}
    /\ kreg \in [x : 0 .. UInt - 1, y : 0 .. UInt - 1, nl : BOOLEAN]
    /\ kleft \in 0 .. KMax
    /\ whole \in Shells \cup {0} /\ lineAt \in Nat

----------------------------------------------------------------------------
(***************************************************************************)
(* The console functions, on the record con.                               *)
(***************************************************************************)
\* Mutant: the column is not cut to an unsigned char.
PutCharWideColumn(s, ch, x, y) ==
    LET pos == (y % UChar) * COLUMNS + x
    IN  IF pos < Cells THEN [s EXCEPT !.vram[pos] = ch] ELSE [s EXCEPT !.fault = TRUE]

\* An access above the video memory hits a page that is not present.
put_char_pos(s, ch, x, y) ==
    LET pos == (y % UChar) * COLUMNS + (x % UChar)
    IN  IF pos < Cells THEN [s EXCEPT !.vram[pos] = ch] ELSE [s EXCEPT !.fault = TRUE]

CursorAddress(s) == (s.y * COLUMNS + s.x) % UInt

\* Mutant: the screen is scrolled one row late.
StartAddressLate(s) ==
    IF s.y > ROWS THEN ((s.y - ROWS + 1) * COLUMNS) % UInt ELSE s.start

StartAddress(s) ==
    IF s.y >= ROWS THEN ((s.y - ROWS + 1) * COLUMNS) % UInt ELSE s.start

update_cursor(s) == [s EXCEPT !.cur = CursorAddress(s), !.start = StartAddress(s)]

Step(s) == IF s.x < COLUMNS - 1 THEN [s EXCEPT !.x = @ + 1]
                                ELSE [s EXCEPT !.x = 0, !.y = (@ + 1) % UInt]

\* do_page_fault never returns: after a fault nothing more is done.
Unless(s, t) == IF s.fault THEN s ELSE t

put_char(s, ch) ==
    Unless(s, CASE ch = "CR" -> update_cursor([s EXCEPT !.x = 0])
                [] ch = "LF" -> update_cursor([s EXCEPT !.x = 0, !.y = (@ + 1) % UInt])
                [] OTHER     -> LET w == put_char_pos(s, ch, s.x, s.y)
                                IN  Unless(w, update_cursor(Step(w))))

\* put_str: n printable characters.
put_str(s, ch, n) ==
    LET put[i \in 0 .. n] == IF i = 0 THEN s ELSE put_char(put[i - 1], ch)
    IN  put[n]

put_crlf(s) == put_char(put_char(s, "CR"), "LF")

\* put_str_pos: the string in consecutive cells (the strings that are used have no
\* line ends and stay inside the row).  What was written before a fault is not
\* looked at.
put_str_pos(s, ch, n, x, y) ==
    LET at == {(y % UChar) * COLUMNS + ((x + j) % UChar) : j \in 0 .. n - 1}
    IN  IF \A pos \in at : pos < Cells
        THEN [s EXCEPT !.vram = [pos \in 0 .. Cells - 1 |-> IF pos \in at THEN ch ELSE @[pos]]]
        ELSE [s EXCEPT !.fault = TRUE]

dump_hex_pos(s, n, x, y) == put_str_pos(s, Other, n, x, y)

dump_hex(s, n) ==
    LET w == dump_hex_pos(s, n, s.x, s.y)
    IN  Unless(w, update_cursor([w EXCEPT !.x = (@ + n) % UInt]))

----------------------------------------------------------------------------
(***************************************************************************)
(* The shells: p is the one that runs.                                     *)
(***************************************************************************)
Running == ~con.fault

To(p, where) == shell' = [shell EXCEPT ![p] = where]

\* p prints something that is not the rest of its own line.
Spoil == whole' = 0 /\ lineAt' = 0

\* The first timer interrupt: shell_main starts.
shell_start ==
    /\ Running /\ shell[1] = "new" /\ To(1, "prompt")
    /\ UNCHANGED <<con, line, uptime, uy, kpc, kreg, kleft, whole, lineAt>>

shell_prompt(p) ==
    /\ Running /\ shell[p] = "prompt"
    /\ con' = put_str(con, Other, PromptLen)
    /\ To(p, "line") /\ line' = [line EXCEPT ![p] = <<>>]
    /\ whole' = p /\ lineAt' = con'.y * COLUMNS + con'.x
    /\ UNCHANGED <<uptime, uy, kpc, kreg, kleft>>

\* Mutant: no room is kept for the terminating zero.
LineFullLate(l) == Len(l) = MAX_LINE_SIZE

LineFull(l) == Len(l) = MAX_LINE_SIZE - 1

\* get_line, between two keys: the key, its echo, and the end of the call.  The
\* echo of one shell disturbs the line of the other.
get_line(p, c) ==
    /\ Running /\ shell[p] = "line"
    /\ \/ /\ c = "BS" /\ line[p] # <<>>
          /\ LET back == update_cursor([con EXCEPT !.x = (@ - 1) % UInt])
             IN  con' = put_char_pos(back, Other, back.x, back.y)
          /\ line' = [line EXCEPT ![p] = Front(@)]
          /\ IF whole = p /\ con.x # 0 THEN UNCHANGED <<whole, lineAt>> ELSE Spoil
          /\ UNCHANGED shell
       \/ /\ c = "LF"
          /\ con' = put_char(put_char(con, "LF"), "CR")
          /\ To(p, IF line[p] = <<>> THEN "prompt" ELSE "run")
          /\ Spoil /\ UNCHANGED line
       \/ /\ c \in Chars
          /\ con' = put_char(con, c)
          /\ line' = [line EXCEPT ![p] = Append(@, c)]
          /\ To(p, IF LineFull(line'[p]) THEN "run" ELSE "line")
          /\ IF whole = p THEN UNCHANGED <<whole, lineAt>> ELSE Spoil
    /\ UNCHANGED <<uptime, uy, kpc, kreg, kleft>>

\* The first system call of each group of commands.
command_echo(p) ==
    /\ \E n \in 0 .. Len(line[p]) : con' = put_str(con, Other, n)
    /\ To(p, "crlf") /\ Spoil /\ UNCHANGED uptime

command_read(p) ==     \* readb, readw, readl, ioreadb
    /\ \E n \in HexSizes : con' = dump_hex(con, n)
    /\ To(p, "crlf") /\ Spoil /\ UNCHANGED uptime

command_write(p) ==    \* writeb, writew, writel, iowriteb, shutdown: no output
    To(p, "prompt") /\ UNCHANGED <<con, uptime, whole, lineAt>>

command_test(p) ==     \* test, command not found: less than a row
    /\ \E n \in 1 .. COLUMNS : con' = put_crlf(put_str(con, Other, n))
    /\ To(p, "prompt") /\ Spoil /\ UNCHANGED uptime

\* The file uptime or the file shell is opened and started.
command_exec(p) ==
    /\ uptime = "off"
    /\ \E q \in Shells :
         /\ shell[q] = "off"
         /\ \/ "uptime" \in Files /\ To(p, "prompt") /\ uptime' = "read"
            \/ /\ "shell" \in Files /\ UNCHANGED uptime
               /\ shell' = [shell EXCEPT ![p] = "prompt", ![q] = "prompt"]
    /\ UNCHANGED <<con, whole, lineAt>>

shell_command(p) ==
    /\ Running /\ shell[p] = "run"
    /\ \/ command_echo(p) \/ command_read(p) \/ command_write(p)
       \/ command_test(p) \/ command_exec(p)
    /\ line' = [line EXCEPT ![p] = <<>>]
    /\ UNCHANGED <<uy, kpc, kreg, kleft>>

shell_crlf(p) ==
    /\ Running /\ shell[p] = "crlf"
    /\ con' = put_crlf(con)
    /\ To(p, "prompt") /\ Spoil
    /\ UNCHANGED <<line, uptime, uy, kpc, kreg, kleft>>

----------------------------------------------------------------------------
(***************************************************************************)
(* uptime: the cursor's row is read by one system call and used by two     *)
(* later ones.                                                             *)
(***************************************************************************)
\* Mutant: the row of the clock is taken from the bottom of the screen.
TopRowLow(y) == IF y < ROWS THEN 0 ELSE y

TopRow(y) == IF y < ROWS THEN 0 ELSE y - ROWS + 1

uptime_read ==
    /\ Running /\ uptime = "read"
    /\ uy' = con.y /\ uptime' = "label"
    /\ UNCHANGED <<con, shell, line, kpc, kreg, kleft, whole, lineAt>>

uptime_label ==
    /\ Running /\ uptime = "label"
    /\ con' = put_str_pos(con, Other, LabelLen, COLUMNS - (LabelLen + Digits), TopRow(uy))
    /\ uptime' = "digits"
    /\ UNCHANGED <<shell, line, uy, kpc, kreg, kleft, whole, lineAt>>

uptime_digits ==
    /\ Running /\ uptime = "digits"
    /\ con' = dump_hex_pos(con, Digits, COLUMNS - Digits, TopRow(uy))
    /\ uptime' = "asleep" /\ uy' = 0
    /\ UNCHANGED <<shell, line, kpc, kreg, kleft, whole, lineAt>>

uptime_wakeup ==
    /\ Running /\ uptime = "asleep"
    /\ uptime' = "read"
    /\ UNCHANGED <<con, shell, line, uy, kpc, kreg, kleft, whole, lineAt>>

----------------------------------------------------------------------------
(***************************************************************************)
(* printk in the kernel task: put_char, in steps of a load or a store of   *)
(* cursor_pos or of the video memory (the kernel is compiled without       *)
(* optimisation); the row and the column of the cell to write are loaded   *)
(* in one step.  update_cursor locks each register pair, not the values    *)
(* it computed before.  No message has an empty line: a line end follows   *)
(* other characters (buf1, printed last, holds one of the two strings of   *)
(* kern_init; what a disk holds after a failed write is left out).         *)
(***************************************************************************)
Clear(reg) == [reg EXCEPT !.x = 0, !.y = 0]

KernelRuns ==
    /\ Running
    /\ \A p \in Shells : shell[p] \in {"off", "new", "line"}
    /\ uptime \in {"off", "asleep"}

Goto(from, to) == KernelRuns /\ kpc = from /\ kpc' = to

printk ==
    /\ kleft > 0 /\ kleft' = kleft - 1
    /\ \/ Goto("idle", "cell") /\ kreg' = [x |-> con.x, y |-> con.y, nl |-> FALSE]
       \/ Goto("idle", "loady") /\ ~kreg.nl /\ kreg' = [kreg EXCEPT !.nl = TRUE]
    /\ UNCHANGED <<con, shell, line, uptime, uy, whole, lineAt>>

\* Stores to the screen or to cursor_pos.
kernel_store ==
    /\ \/ Goto("cell", "cmp") /\ con' = put_char_pos(con, Other, kreg.x, kreg.y)
       \/ Goto("storex", "addr") /\ con' = [con EXCEPT !.x = kreg.x]
       \/ Goto("clearx", IF kreg.nl THEN "addr" ELSE "loady") /\ con' = [con EXCEPT !.x = 0]
       \/ Goto("storey", IF kreg.nl THEN "clearx" ELSE "addr") /\ con' = [con EXCEPT !.y = kreg.y]
    /\ Spoil
    /\ kreg' = Clear(kreg)
    /\ UNCHANGED <<shell, line, uptime, uy, kleft>>

\* Loads and comparisons.
kernel_load ==
    /\ \/ Goto("cmp", IF con.x < COLUMNS - 1 THEN "loadx" ELSE "clearx") /\ UNCHANGED kreg
       \/ Goto("loadx", "storex") /\ kreg' = [kreg EXCEPT !.x = (con.x + 1) % UInt]
       \/ Goto("loady", "storey") /\ kreg' = [kreg EXCEPT !.y = (con.y + 1) % UInt]
       \/ Goto("addr", "cur") /\ kreg' = [kreg EXCEPT !.x = CursorAddress(con)]
       \/ Goto("start", "setstart") /\ con.y >= ROWS
            /\ kreg' = [kreg EXCEPT !.x = StartAddress(con)]
       \/ Goto("start", "idle") /\ con.y < ROWS /\ kreg' = Clear(kreg)
    /\ UNCHANGED <<con, shell, line, uptime, uy, kleft, whole, lineAt>>

\* The locked writes of update_cursor to the CRT controller.
kernel_crtc ==
    /\ \/ Goto("cur", "start") /\ con' = [con EXCEPT !.cur = kreg.x]
       \/ Goto("setstart", "idle") /\ con' = [con EXCEPT !.start = kreg.x]
    /\ kreg' = Clear(kreg)
    /\ UNCHANGED <<shell, line, uptime, uy, kleft, whole, lineAt>>

Init ==
    /\ con = [x |-> 0, y |-> 2, vram |-> [n \in 0 .. Cells - 1 |-> Other],
              cur |-> 2 * COLUMNS, start |-> 0, fault |-> FALSE]
    /\ shell = [p \in Shells |-> IF p = 1 THEN "new" ELSE "off"]
    /\ line = [p \in Shells |-> <<>>]
    /\ uptime = "off" /\ uy = 0
    /\ kpc = "idle" /\ kleft = KMax
    /\ kreg = [x |-> 0, y |-> 0, nl |-> TRUE]
    /\ whole = 0 /\ lineAt = 0

Next ==
    \/ shell_start
    \/ \E p \in Shells :
         \/ shell_prompt(p)
         \/ \E c \in Chars \cup {"BS", "LF"} : get_line(p, c)
         \/ shell_command(p)
         \/ shell_crlf(p)
    \/ uptime_read
    \/ uptime_label
    \/ uptime_digits
    \/ uptime_wakeup
    \/ printk
    \/ kernel_store
    \/ kernel_load
    \/ kernel_crtc

Spec == Init /\ [][Next]_vars

----------------------------------------------------------------------------
(***************************************************************************)
(* What has been typed is what is seen: the characters in get_line's       *)
(* buffer stand in consecutive cells from where the prompt ended to the    *)
(* cursor, through any number of wraps.  The clock never lands on them,    *)
(* though uptime draws it at a row it may have computed several lines ago. *)
(* Three things disturb a line, and whole records them: the kernel task    *)
(* storing to the screen or the cursor, a backspace in column 0, and       *)
(* whatever the other shell prints, be it a prompt, an echo or an answer.  *)
(***************************************************************************)
LineOnScreen ==
    \A p \in Shells : shell[p] = "line" /\ whole = p /\ ~con.fault =>
        /\ con.y * COLUMNS + con.x = lineAt + Len(line[p])
        /\ \A j \in DOMAIN line[p] : con.vram[lineAt + j - 1] = line[p][j]

(***************************************************************************)
(* Every character that is echoed leaves the hardware cursor at cursor_pos *)
(* and inside the ROWS rows on the screen, whatever stale values a         *)
(* preempted printk wrote to the registers before.  One case is left out:  *)
(* printk's late store of cursor_pos.y can take the cursor back into the   *)
(* first ROWS rows after the screen has scrolled, and update_cursor never  *)
(* sets the start address back to 0.                                       *)
(***************************************************************************)
CursorSeen(s) ==
    /\ s.cur = (s.y * COLUMNS + s.x) % UInt
    /\ s.y >= ROWS \/ s.start = 0 => s.cur \in s.start .. s.start + ROWS * COLUMNS - 1

EchoShowsCursor ==
    [][\A p \in Shells : shell[p] = "line" /\ Len(line'[p]) > Len(line[p]) /\ ~con'.fault =>
           CursorSeen(con')]_vars

(***************************************************************************)
(* put_char_pos(): the screen moves down in the video memory with every    *)
(* line and never returns to the top, so some line faults in the end.  It  *)
(* is not one of the first rows: a fault needs a cursor whose row, with a  *)
(* column of at most UChar - 1, is at the end of the memory (from row 202  *)
(* on), although a backspace in column 0 makes the column 2^32 - 1 and     *)
(* uptime and a preempted printk write at rows they read earlier.          *)
(***************************************************************************)
FaultsOnlyAtTheEnd == con.fault => con.y * COLUMNS + UChar - 1 >= Cells
=============================================================================
