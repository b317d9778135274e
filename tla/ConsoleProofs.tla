---------------------------- MODULE ConsoleProofs ----------------------------
(***************************************************************************)
(* What is typed is what is seen, and where the console faults: for every  *)
(* size of screen, video memory, prompt and line.                          *)
(***************************************************************************)
EXTENDS Console, WellFoundedInduction, TLAPS

Row(y) == y * COLUMNS

\* No store succeeds from this row on.
Top == UChar - 7

----------------------------------------------------------------------------
(***************************************************************************)
(* Arithmetic of rows and of the cuts to unsigned char and unsigned int.   *)
(***************************************************************************)
\* The sizes are numbers.
LEMMA Sizes ==
    /\ COLUMNS \in Nat /\ COLUMNS > 0 /\ ROWS \in Nat /\ ROWS > 0
    /\ Cells \in Nat /\ Cells > 0 /\ UChar \in Nat /\ UChar > 9
    /\ UInt \in Nat /\ UInt > UChar /\ COLUMNS < UChar /\ ROWS < UChar
    /\ MAX_LINE_SIZE \in Nat /\ MAX_LINE_SIZE > 1 /\ KMax \in Nat
    /\ LabelLen \in Nat /\ Digits \in Nat /\ LabelLen > 0 /\ Digits > 0
    /\ LabelLen + Digits <= COLUMNS /\ PromptLen \in Nat /\ PromptLen > 0
<1>1. /\ {COLUMNS, ROWS, Cells, UChar, UInt} \subseteq Nat \ {0}
      /\ {LabelLen, Digits, PromptLen} \subseteq Nat \ {0}
      /\ COLUMNS < UChar /\ UChar > 9 /\ UChar * COLUMNS + UChar < UInt
  BY ConsoleAssumption
<1>2. /\ COLUMNS \in Nat \ {0} /\ ROWS \in Nat \ {0} /\ Cells \in Nat \ {0}
      /\ UChar \in Nat \ {0} /\ UInt \in Nat \ {0} /\ LabelLen \in Nat \ {0}
      /\ Digits \in Nat \ {0} /\ PromptLen \in Nat \ {0}
  BY <1>1
<1>3. UChar * COLUMNS \in Nat
  BY <1>2
<1>4. UInt > UChar
  BY <1>1, <1>2, <1>3
<1> QED BY <1>1, <1>2, <1>4, ConsoleAssumption

\* Rows follow each other.
LEMMA Rows ==
    ASSUME NEW a \in Nat, NEW b \in Nat
    PROVE  /\ Row(a) \in Nat /\ Row(a + 1) = Row(a) + COLUMNS
           /\ a <= b => Row(a) <= Row(b)
           /\ a < b => Row(a) + COLUMNS <= Row(b)
<1>0. COLUMNS \in Nat
  BY Sizes
<1>1. /\ a * COLUMNS \in Nat /\ b * COLUMNS \in Nat
      /\ (a + 1) * COLUMNS = a * COLUMNS + COLUMNS
  BY <1>0
<1>2. ASSUME a <= b PROVE a * COLUMNS <= b * COLUMNS
  <2>1. PICK k \in Nat : b = a + k
    <3>1. b - a \in Nat /\ b = a + (b - a)
      BY <1>2
    <3> QED BY <3>1
  <2>2. (a + k) * COLUMNS = a * COLUMNS + k * COLUMNS /\ k * COLUMNS \in Nat
    BY <1>0
  <2> QED BY <2>1, <2>2, <1>1
<1>3. ASSUME a < b PROVE a * COLUMNS + COLUMNS <= b * COLUMNS
  <2>1. PICK k \in Nat : b = (a + 1) + k
    <3>1. b - (a + 1) \in Nat /\ b = (a + 1) + (b - (a + 1))
      BY <1>3
    <3> QED BY <3>1
  <2>2. ((a + 1) + k) * COLUMNS = (a + 1) * COLUMNS + k * COLUMNS /\ k * COLUMNS \in Nat
    BY <1>0
  <2> QED BY <2>1, <2>2, <1>1, <1>0
<1> QED BY <1>1, <1>2, <1>3 DEF Row

\* A cut to n values.
LEMMA Cut ==
    ASSUME NEW n \in Nat, n > 0, NEW a \in Nat
    PROVE  a % n \in 0 .. n - 1 /\ a % n <= a /\ (a < n => a % n = a)
  OBVIOUS

\* Addresses of rows an unsigned char can name fit into an unsigned int, and
\* only rows above Top are in the video memory.
LEMMA RowFits ==
    ASSUME NEW y \in Nat
    PROVE  /\ y <= UChar => Row(y) + UChar < UInt
           /\ Row(y) < Cells => y < Top
           /\ Top \in Nat /\ 2 <= Top /\ Top + 6 < UChar
<1>0. Top \in Nat /\ 2 <= Top /\ Top + 6 < UChar
  BY Sizes DEF Top
<1>1. Row(UChar) + UChar < UInt /\ Cells <= Row(Top)
  BY ConsoleAssumption DEF Row, Top
<1>2. /\ Row(y) \in Nat /\ Row(UChar) \in Nat /\ Row(Top) \in Nat
      /\ y <= UChar => Row(y) <= Row(UChar)
      /\ Top <= y => Row(Top) <= Row(y)
  BY <1>0, Sizes, Rows
<1>3. y <= UChar => Row(y) + UChar < UInt
  BY <1>1, <1>2, Sizes
<1>4. Row(y) < Cells => y < Top
  BY <1>0, <1>1, <1>2, Sizes
<1> QED BY <1>0, <1>3, <1>4

----------------------------------------------------------------------------
(***************************************************************************)
(* The console functions.  Full(y): the row of a store that faulted.       *)
(***************************************************************************)
Full(y) == Row(y) + UChar - 1 >= Cells
Glyphs == Chars \cup {Other}
Words == 0 .. UInt - 1

\* A console is a record of these fields.
LEMMA Fields ==
    ASSUME NEW s \in Consoles
    PROVE  /\ s.x \in Nat /\ s.y \in Nat /\ s.x < UInt /\ s.y < UInt
           /\ s.x \in Words /\ s.y \in Words /\ s.cur \in Words /\ s.start \in Words
           /\ s.vram \in [0 .. Cells - 1 -> Glyphs] /\ s.fault \in BOOLEAN
<1>1. /\ s.x \in Words /\ s.y \in Words /\ s.cur \in Words /\ s.start \in Words
      /\ s.vram \in [0 .. Cells - 1 -> Glyphs] /\ s.fault \in BOOLEAN
  BY DEF Consoles, Words, Glyphs
<1>2. s.x \in Nat /\ s.y \in Nat /\ s.x < UInt /\ s.y < UInt
  BY <1>1, Sizes DEF Words
<1> QED BY <1>1, <1>2

\* put_char_pos stores in the cell its cut arguments name, or faults.
LEMMA CharPos ==
    ASSUME NEW s \in Consoles, NEW ch \in Glyphs, NEW x \in Nat, NEW y \in Nat
    PROVE  LET w == put_char_pos(s, ch, x, y)
           IN  /\ w \in Consoles
               /\ w.x = s.x /\ w.y = s.y /\ w.cur = s.cur /\ w.start = s.start
               /\ s.fault => w.fault
               /\ w.fault /\ ~s.fault => Full(y)
               /\ ~w.fault /\ y < UChar => y < Top
               /\ ~w.fault /\ y < UChar /\ x < UChar =>
                    /\ Row(y) + x \in 0 .. Cells - 1
                    /\ w.vram = [s.vram EXCEPT ![Row(y) + x] = ch]
<1> DEFINE pos == Row(y % UChar) + (x % UChar)
           w == put_char_pos(s, ch, x, y)
<1>1. w = IF pos < Cells THEN [s EXCEPT !.vram[pos] = ch] ELSE [s EXCEPT !.fault = TRUE]
  BY DEF put_char_pos, Row
<1>2. /\ y % UChar \in Nat /\ y % UChar <= y /\ (y < UChar => y % UChar = y)
      /\ x % UChar \in Nat /\ x % UChar <= UChar - 1 /\ (x < UChar => x % UChar = x)
  BY Sizes, Cut
<1>3. Row(y % UChar) \in Nat /\ Row(y % UChar) <= Row(y) /\ Row(y) \in Nat
  BY <1>2, Rows
<1>4. pos \in Nat /\ pos <= Row(y) + UChar - 1
  BY <1>2, <1>3, Sizes
<1>5. y < UChar /\ pos < Cells => y < Top
  <2> SUFFICES ASSUME y < UChar, pos < Cells PROVE y < Top
    OBVIOUS
  <2>1. y % UChar = y
    BY <1>2
  <2>2. Row(y) < Cells
    BY <2>1, <1>2, <1>3, Sizes
  <2> QED BY <2>2, RowFits
<1>6. y < UChar /\ x < UChar => pos = Row(y) + x
  BY <1>2
<1>f. s.vram \in [0 .. Cells - 1 -> Glyphs]
  BY Fields
<1> HIDE DEF pos, w
<1>7. CASE pos < Cells
  <2>1. w = [s EXCEPT !.vram[pos] = ch]
    BY <1>1, <1>7
  <2>2. pos \in 0 .. Cells - 1
    BY <1>4, <1>7, Sizes
  <2>3. /\ w.x = s.x /\ w.y = s.y /\ w.cur = s.cur /\ w.start = s.start
        /\ w.fault = s.fault /\ w.vram = [s.vram EXCEPT ![pos] = ch]
        /\ w \in Consoles
    BY <2>1, <2>2, <1>f DEF Consoles, Glyphs
  <2> QED BY <2>2, <2>3, <1>5, <1>6, <1>7 DEF w
<1>8. CASE ~(pos < Cells)
  <2>1. w = [s EXCEPT !.fault = TRUE]
    BY <1>1, <1>8
  <2>2. /\ w.x = s.x /\ w.y = s.y /\ w.cur = s.cur /\ w.start = s.start
        /\ w.fault = TRUE /\ w \in Consoles
    BY <2>1 DEF Consoles
  <2>3. Full(y)
    BY <1>4, <1>8, <1>3, Sizes DEF Full
  <2> QED BY <2>2, <2>3 DEF w
<1> QED BY <1>7, <1>8

\* update_cursor writes the registers and nothing else.
LEMMA Cursor ==
    ASSUME NEW s \in Consoles
    PROVE  LET w == update_cursor(s)
           IN  /\ w \in Consoles /\ w.x = s.x /\ w.y = s.y
               /\ w.vram = s.vram /\ w.fault = s.fault
               /\ s.y <= UChar /\ s.x < COLUMNS =>
                    /\ w.cur = Row(s.y) + s.x
                    /\ w.start = IF s.y >= ROWS THEN Row(s.y - ROWS + 1) ELSE s.start
<1> DEFINE w == update_cursor(s)
<1>0. s.x \in Nat /\ s.y \in Nat /\ s.start \in Words /\ Row(s.y) \in Nat
  BY Fields, Rows
<1>1. CursorAddress(s) \in Words /\ (Row(s.y) + s.x < UInt => CursorAddress(s) = Row(s.y) + s.x)
  <2>1. Row(s.y) + s.x \in Nat
    BY <1>0
  <2> QED BY <2>1, Sizes, Cut DEF CursorAddress, Row, Words
<1>2. /\ StartAddress(s) \in Words
      /\ s.y < ROWS => StartAddress(s) = s.start
      /\ s.y >= ROWS /\ s.y <= UChar => StartAddress(s) = Row(s.y - ROWS + 1)
  <2>1. CASE s.y < ROWS
    BY <2>1, <1>0, Sizes DEF StartAddress
  <2>2. CASE s.y >= ROWS
    <3>1. s.y - ROWS + 1 \in Nat /\ s.y - ROWS + 1 <= s.y
      BY <2>2, <1>0, Sizes
    <3>2. /\ Row(s.y - ROWS + 1) \in Nat
          /\ s.y - ROWS + 1 <= UChar => Row(s.y - ROWS + 1) < UInt
      BY <3>1, Rows, RowFits, Sizes, SMTT(30)
    <3>3. StartAddress(s) = Row(s.y - ROWS + 1) % UInt
      BY <2>2 DEF StartAddress, Row
    <3>4. s.y <= UChar => s.y - ROWS + 1 <= UChar
      BY <3>1, <1>0, Sizes
    <3>5. Row(s.y - ROWS + 1) % UInt \in Words
      BY <3>2, Sizes, Cut DEF Words
    <3>6. s.y <= UChar => Row(s.y - ROWS + 1) % UInt = Row(s.y - ROWS + 1)
      BY <3>2, <3>4, Sizes, Cut
    <3> QED BY <3>3, <3>5, <3>6, <2>2, <1>0, Sizes
  <2> QED BY <2>1, <2>2, <1>0, Sizes
<1>3. /\ w \in Consoles /\ w.x = s.x /\ w.y = s.y
      /\ w.vram = s.vram /\ w.fault = s.fault
      /\ w.cur = CursorAddress(s) /\ w.start = StartAddress(s)
  BY <1>1, <1>2 DEF update_cursor, Consoles, Words
<1>4. s.y <= UChar /\ s.x < COLUMNS => Row(s.y) + s.x < UInt
  BY <1>0, RowFits, Sizes
<1> HIDE DEF w
<1>5. s.y <= UChar /\ s.x < COLUMNS =>
        /\ w.cur = Row(s.y) + s.x
        /\ w.start = IF s.y >= ROWS THEN Row(s.y - ROWS + 1) ELSE s.start
  BY <1>0, <1>1, <1>2, <1>3, <1>4, Sizes
<1> QED BY <1>3, <1>5 DEF w

\* The characters that are typed or printed are no line ends.
LEMMA Printable == \A ch \in Glyphs : ch # "CR" /\ ch # "LF"
  BY ConsoleAssumption DEF Glyphs, Other

\* cursor_pos.y++.
LEMMA NextRow ==
    ASSUME NEW s \in Consoles
    PROVE  (s.y + 1) % UInt \in Words /\ (s.y < UChar => (s.y + 1) % UInt = s.y + 1)
<1>1. s.y \in Nat /\ s.y + 1 \in Nat
  BY Fields
<1>2. /\ (s.y + 1) % UInt \in 0 .. UInt - 1
      /\ s.y + 1 < UInt => (s.y + 1) % UInt = s.y + 1
  BY <1>1, Sizes, Cut
<1>3. s.y < UChar => s.y + 1 < UInt
  BY <1>1, Sizes
<1> QED BY <1>2, <1>3 DEF Words

\* A line end or carriage return moves the cursor and stores nothing.
LEMMA PutControl ==
    ASSUME NEW s \in Consoles
    PROVE  /\ put_char(s, "CR") \in Consoles /\ put_char(s, "LF") \in Consoles
           /\ s.fault => put_char(s, "CR") = s /\ put_char(s, "LF") = s
           /\ ~s.fault => /\ put_char(s, "CR").x = 0 /\ put_char(s, "CR").y = s.y
                          /\ put_char(s, "LF").x = 0
                          /\ s.y < UChar => put_char(s, "LF").y = s.y + 1
                          /\ ~put_char(s, "CR").fault /\ ~put_char(s, "LF").fault
<1>0. s.x \in Nat /\ s.y \in Nat
  BY Fields
<1>1. CASE s.fault
  BY <1>1 DEF put_char, Unless
<1>2. CASE ~s.fault
  <2> DEFINE c == [s EXCEPT !.x = 0]
             l == [s EXCEPT !.x = 0, !.y = (@ + 1) % UInt]
  <2>1. put_char(s, "CR") = update_cursor(c) /\ put_char(s, "LF") = update_cursor(l)
    BY <1>2 DEF put_char, Unless
  <2>2. 0 \in Words /\ (s.y + 1) % UInt \in Words /\ (s.y < UChar => (s.y + 1) % UInt = s.y + 1)
    BY NextRow, Sizes DEF Words
  <2>3. c \in Consoles /\ c.x = 0 /\ c.y = s.y /\ ~c.fault
    BY <1>2, <2>2 DEF Consoles, Words
  <2>4. l \in Consoles /\ l.x = 0 /\ l.y = (s.y + 1) % UInt /\ ~l.fault
    BY <1>2, <2>2 DEF Consoles, Words
  <2> HIDE DEF c, l
  <2> QED BY <2>1, <2>2, <2>3, <2>4, <1>2, Cursor
<1> QED BY <1>1, <1>2

\* put_char of a printable character: it faults where it stands, or it has
\* stored in a row of the video memory and the cursor is in the next cell.
LEMMA PutChar ==
    ASSUME NEW s \in Consoles, NEW ch \in Glyphs
    PROVE  LET w == put_char(s, ch)
           IN  /\ w \in Consoles
               /\ s.fault => w = s
               /\ w.fault /\ ~s.fault => w.y = s.y /\ Full(w.y)
               /\ ~w.fault /\ s.y < UChar =>
                    /\ s.y < Top /\ s.y <= w.y /\ w.y <= Top
                    /\ w.x < COLUMNS
                    /\ w.cur = Row(w.y) + w.x
                    /\ w.start = IF w.y >= ROWS THEN Row(w.y - ROWS + 1) ELSE s.start
                    /\ s.x < COLUMNS =>
                         /\ Row(w.y) + w.x = Row(s.y) + s.x + 1
                         /\ Row(s.y) + s.x \in 0 .. Cells - 1
                         /\ w.vram = [s.vram EXCEPT ![Row(s.y) + s.x] = ch]
<1> DEFINE p == put_char_pos(s, ch, s.x, s.y)
           t == Step(p)
           w == put_char(s, ch)
<1>0. s.x \in Nat /\ s.y \in Nat /\ s.x < UInt /\ s.y < UInt
  BY Fields
<1>1. CASE s.fault
  <2>1. w = s
    BY <1>1 DEF put_char, Unless
  <2> QED BY <2>1, <1>1
<1>2. CASE ~s.fault
  <2>1. w = IF p.fault THEN p ELSE update_cursor(t)
    <3>1. ch # "CR" /\ ch # "LF"
      BY Printable
    <3> QED BY <3>1, <1>2 DEF put_char, Unless
  <2>2. /\ p \in Consoles
        /\ p.x = s.x /\ p.y = s.y /\ p.start = s.start
        /\ p.fault => Full(s.y)
        /\ ~p.fault /\ s.y < UChar => s.y < Top
        /\ ~p.fault /\ s.y < UChar /\ s.x < UChar =>
                    /\ Row(s.y) + s.x \in 0 .. Cells - 1
                    /\ p.vram = [s.vram EXCEPT ![Row(s.y) + s.x] = ch]
    <3>1. /\ p \in Consoles
          /\ p.x = s.x /\ p.y = s.y /\ p.cur = s.cur /\ p.start = s.start
          /\ s.fault => p.fault
          /\ p.fault /\ ~s.fault => Full(s.y)
          /\ ~p.fault /\ s.y < UChar => s.y < Top
          /\ ~p.fault /\ s.y < UChar /\ s.x < UChar =>
                    /\ Row(s.y) + s.x \in 0 .. Cells - 1
                    /\ p.vram = [s.vram EXCEPT ![Row(s.y) + s.x] = ch]
      BY <1>0, CharPos
    <3> HIDE DEF p
    <3> QED BY <3>1, <1>2
  <2> HIDE DEF p
  <2>3. CASE p.fault
    BY <2>1, <2>2, <2>3, <1>2
  <2>4. CASE ~p.fault
    <3>1. w = update_cursor(t)
      BY <2>1, <2>4
    <3>2. (s.y + 1) % UInt \in Words /\ (s.y < UChar => (s.y + 1) % UInt = s.y + 1)
      BY NextRow
    <3>3. /\ t \in Consoles /\ t.vram = p.vram /\ ~t.fault /\ t.start = s.start
          /\ s.x < COLUMNS - 1 => t.x = s.x + 1 /\ t.y = s.y
          /\ ~(s.x < COLUMNS - 1) => t.x = 0 /\ t.y = (s.y + 1) % UInt
      <4>1. CASE s.x < COLUMNS - 1
        <5>1. t = [p EXCEPT !.x = s.x + 1]
          BY <4>1, <2>2 DEF Step
        <5>2. s.x + 1 \in Words
          BY <4>1, <1>0, Sizes DEF Words
        <5> HIDE DEF t
        <5> QED BY <5>1, <5>2, <4>1, <2>2, <2>4 DEF Consoles, Words
      <4>2. CASE ~(s.x < COLUMNS - 1)
        <5>1. t = [p EXCEPT !.x = 0, !.y = (s.y + 1) % UInt]
          BY <4>2, <2>2 DEF Step
        <5>2. 0 \in Words
          BY Sizes DEF Words
        <5> HIDE DEF t
        <5> QED BY <5>1, <5>2, <3>2, <4>2, <2>2, <2>4 DEF Consoles, Words
      <4> QED BY <4>1, <4>2
    <3> HIDE DEF t
    <3>4. /\ w \in Consoles /\ w.x = t.x /\ w.y = t.y /\ w.vram = t.vram /\ ~w.fault
          /\ t.y <= UChar /\ t.x < COLUMNS =>
               /\ w.cur = Row(t.y) + t.x
               /\ w.start = IF t.y >= ROWS THEN Row(t.y - ROWS + 1) ELSE t.start
      BY <3>1, <3>3, Cursor
    <3> HIDE DEF w
    <3>5. ASSUME s.y < UChar
          PROVE  /\ s.y < Top /\ s.y <= w.y /\ w.y <= Top
                 /\ w.x < COLUMNS
                 /\ w.cur = Row(w.y) + w.x
                 /\ w.start = IF w.y >= ROWS THEN Row(w.y - ROWS + 1) ELSE s.start
                 /\ s.x < COLUMNS =>
                      /\ Row(w.y) + w.x = Row(s.y) + s.x + 1
                      /\ Row(s.y) + s.x \in 0 .. Cells - 1
                      /\ w.vram = [s.vram EXCEPT ![Row(s.y) + s.x] = ch]
      <4>1. /\ s.y < Top /\ Top \in Nat /\ Top + 6 < UChar
        BY <2>2, <2>4, <3>5, <1>0, RowFits
      <4>2. /\ t.y \in Nat /\ s.y <= t.y /\ t.y <= Top /\ t.x < COLUMNS /\ t.x \in Nat
        BY <3>2, <3>3, <3>5, <4>1, <1>0, Sizes
      <4>3. t.y <= UChar
        BY <4>1, <4>2, Sizes
      <4>4. s.x < COLUMNS => Row(t.y) + t.x = Row(s.y) + s.x + 1
        <5>1. Row(s.y) \in Nat /\ Row(s.y + 1) = Row(s.y) + COLUMNS
          BY <1>0, Rows
        <5> QED BY <5>1, <3>2, <3>3, <3>5, <1>0, Sizes
      <4>5. s.x < COLUMNS => s.x < UChar
        BY <1>0, Sizes
      <4>6. s.x < COLUMNS =>
                 /\ Row(s.y) + s.x \in 0 .. Cells - 1
                 /\ w.vram = [s.vram EXCEPT ![Row(s.y) + s.x] = ch]
        BY <4>5, <2>2, <2>4, <3>3, <3>4, <3>5
      <4>7. /\ s.y < Top /\ s.y <= w.y /\ w.y <= Top /\ w.x < COLUMNS
        BY <4>1, <4>2, <3>4
      <4>8. /\ w.cur = Row(w.y) + w.x
            /\ w.start = IF w.y >= ROWS THEN Row(w.y - ROWS + 1) ELSE s.start
        BY <4>2, <4>3, <3>3, <3>4
      <4>9. s.x < COLUMNS => Row(w.y) + w.x = Row(s.y) + s.x + 1
        BY <4>4, <3>4
      <4> QED BY <4>6, <4>7, <4>8, <4>9
    <3> QED BY <3>4, <3>5, <1>2 DEF w
  <2> QED BY <2>3, <2>4
<1> QED BY <1>1, <1>2

\* Induction: a set of numbers with 0 and, with each number, the next one.
LEMMA AllNat ==
    ASSUME NEW S, 0 \in S, \A i \in Nat : i \in S => i + 1 \in S
    PROVE  \A i \in Nat : i \in S
<1> SUFFICES ASSUME {i \in Nat : i \notin S} # {} PROVE FALSE
  OBVIOUS
<1> DEFINE Bad == {i \in Nat : i \notin S}
<1>1. PICK m \in Bad : \A i \in Bad : <<i, m>> \notin OpToRel(<, Nat)
  BY NatLessThanWellFounded, WFMin, Zenon
<1>2. m \in Nat /\ m \notin S /\ m # 0
  BY <1>1
<1>3. m - 1 \in Nat /\ m - 1 < m /\ m = (m - 1) + 1
  BY <1>2
<1>4. m - 1 \notin Bad
  BY <1>1, <1>2, <1>3 DEF OpToRel
<1> QED BY <1>2, <1>3, <1>4

\* put_str(s, ch, n) is the last of n + 1 consoles, each put_char of the one
\* before.
LEMMA PutStrSteps ==
    ASSUME NEW s, NEW ch, NEW n \in Nat
    PROVE  \E put : /\ put_str(s, ch, n) = put[n] /\ put[0] = s
                    /\ \A i \in Nat : i < n => put[i + 1] = put_char(put[i], ch)
<1> DEFINE Rec(g, m) == g = [i \in 0 .. m |-> IF i = 0 THEN s ELSE put_char(g[i - 1], ch)]
           Good == {m \in Nat : \E g : Rec(g, m)}
<1>1. 0 \in Good
  <2> DEFINE g == [i \in 0 .. 0 |-> s]
  <2>1. Rec(g, 0)
    OBVIOUS
  <2> QED BY <2>1
<1>2. ASSUME NEW m \in Nat, m \in Good PROVE m + 1 \in Good
  <2>1. PICK g : Rec(g, m)
    BY <1>2
  <2> DEFINE h == [i \in 0 .. m + 1 |-> IF i = m + 1 THEN put_char(g[m], ch) ELSE g[i]]
  <2>2. \A i \in 0 .. m : h[i] = g[i]
    OBVIOUS
  <2>3. \A i \in 0 .. m + 1 : h[i] = IF i = 0 THEN s ELSE put_char(h[i - 1], ch)
    <3> SUFFICES ASSUME NEW i \in 0 .. m + 1
                 PROVE  h[i] = IF i = 0 THEN s ELSE put_char(h[i - 1], ch)
      OBVIOUS
    <3>1. CASE i = m + 1
      <4>1. h[i] = put_char(g[m], ch) /\ i - 1 = m /\ i # 0 /\ m \in 0 .. m
        BY <3>1
      <4>2. h[m] = g[m]
        BY <4>1, <2>2
      <4> HIDE DEF h
      <4> QED BY <4>1, <4>2
    <3>2. CASE i # m + 1 /\ i = 0
      <4>1. h[i] = g[0] /\ 0 \in 0 .. m
        BY <3>2
      <4>2. g[0] = s
        BY <2>1, <4>1
      <4> HIDE DEF h
      <4> QED BY <4>1, <4>2, <3>2
    <3>3. CASE i # m + 1 /\ i # 0
      <4>1. i \in 0 .. m /\ i - 1 \in 0 .. m
        BY <3>3
      <4>2. h[i] = g[i] /\ h[i - 1] = g[i - 1]
        BY <4>1, <2>2
      <4>3. g[i] = put_char(g[i - 1], ch)
        BY <2>1, <4>1, <3>3
      <4> HIDE DEF h
      <4> QED BY <4>2, <4>3, <3>3
    <3> QED BY <3>1, <3>2, <3>3
  <2>4. h = [i \in 0 .. m + 1 |-> h[i]]
    OBVIOUS
  <2> HIDE DEF h
  <2>5. Rec(h, m + 1)
    BY <2>3, <2>4
  <2> QED BY <2>5
<1>3. n \in Good
  <2> HIDE DEF Good
  <2> QED BY <1>1, <1>2, AllNat
<1> DEFINE f == CHOOSE g : Rec(g, n)
<1>4. Rec(f, n)
  BY <1>3
<1>5. put_str(s, ch, n) = f[n]
  BY DEF put_str
<1> HIDE DEF f
<1>6. f[0] = s
  BY <1>4
<1>7. ASSUME NEW i \in Nat, i < n PROVE f[i + 1] = put_char(f[i], ch)
  <2>1. i + 1 \in 0 .. n /\ i + 1 # 0 /\ (i + 1) - 1 = i
    BY <1>7
  <2>2. f[i + 1] = put_char(f[(i + 1) - 1], ch)
    BY <1>4, <2>1
  <2> QED BY <2>1, <2>2
<1> HIDE DEF Rec
<1> QED BY <1>5, <1>6, <1>7

\* put_str of printable characters: it faults where it stands, or its last
\* store was in the video memory and the cursor is in the cell after it.
LEMMA PutStr ==
    ASSUME NEW s \in Consoles, ~s.fault, s.y < UChar, NEW ch \in Glyphs, NEW n \in Nat
    PROVE  LET w == put_str(s, ch, n)
           IN  /\ w \in Consoles /\ s.y <= w.y /\ w.y < UChar
               /\ w.fault => Full(w.y)
               /\ n = 0 => w = s
               /\ ~w.fault /\ n > 0 => w.y <= Top /\ w.x < COLUMNS
<1>1. PICK put : /\ put_str(s, ch, n) = put[n] /\ put[0] = s
                 /\ \A i \in Nat : i < n => put[i + 1] = put_char(put[i], ch)
  BY PutStrSteps
<1> DEFINE Fine(i, w) == /\ w \in Consoles /\ s.y <= w.y /\ w.y < UChar
                         /\ w.fault => Full(w.y)
                         /\ ~w.fault /\ i > 0 => w.y <= Top /\ w.x < COLUMNS
           S == {i \in Nat : i <= n => Fine(i, put[i])}
<1>0. s.y \in Nat /\ Top \in Nat /\ Top + 6 < UChar
  BY Fields, RowFits
<1>2. 0 \in S
  <2>1. Fine(0, s)
    BY <1>0
  <2> QED BY <2>1, <1>1
<1>3. ASSUME NEW i \in Nat, i \in S PROVE i + 1 \in S
  <2> SUFFICES ASSUME i + 1 <= n PROVE Fine(i + 1, put[i + 1])
    OBVIOUS
  <2> DEFINE v == put[i]
             w == put[i + 1]
  <2>1. Fine(i, v) /\ w = put_char(v, ch)
    BY <1>1, <1>3
  <2> HIDE DEF v, w
  <2>2. /\ w \in Consoles
        /\ v.fault => w = v
        /\ w.fault /\ ~v.fault => w.y = v.y /\ Full(w.y)
        /\ ~w.fault /\ v.y < UChar => v.y <= w.y /\ w.y <= Top /\ w.x < COLUMNS
    BY <2>1, PutChar
  <2>3. v.y \in Nat /\ w.y \in Nat /\ v.y < UChar
    BY <2>1, <2>2, Fields
  <2>4. CASE v.fault
    <3>1. w = v /\ w.fault
      BY <2>2, <2>4
    <3>2. Fine(i + 1, v)
      BY <2>1, <2>4
    <3> HIDE DEF Fine
    <3> QED BY <3>1, <3>2 DEF w
  <2>5. CASE ~v.fault /\ w.fault
    <3>1. w.y = v.y /\ Full(w.y)
      BY <2>2, <2>5
    <3>2. s.y <= w.y /\ w.y < UChar
      BY <3>1, <2>1
    <3>3. Fine(i + 1, w)
      BY <3>1, <3>2, <2>2, <2>5
    <3> HIDE DEF Fine
    <3> QED BY <3>3 DEF w
  <2>6. CASE ~v.fault /\ ~w.fault
    <3>1. v.y <= w.y /\ w.y <= Top /\ w.x < COLUMNS
      BY <2>2, <2>3, <2>6
    <3>2. s.y <= w.y /\ w.y < UChar
      BY <3>1, <2>1, <2>3, <1>0, Sizes
    <3>3. Fine(i + 1, w)
      BY <3>1, <3>2, <2>2, <2>6
    <3> HIDE DEF Fine
    <3> QED BY <3>3 DEF w
  <2> QED BY <2>4, <2>5, <2>6
<1>4. n \in S
  <2> HIDE DEF S
  <2> QED BY <1>2, <1>3, AllNat
<1>5. Fine(n, put[n])
  BY <1>4
<1>6. n = 0 => put[n] = s
  BY <1>1
<1> QED BY <1>1, <1>5, <1>6

\* put_str_pos and dump_hex_pos store inside one row, or fault in it.
LEMMA StrPos ==
    ASSUME NEW s \in Consoles, ~s.fault, NEW ch \in Glyphs, NEW n \in Nat,
           NEW x \in Nat, NEW y \in Nat
    PROVE  LET w == put_str_pos(s, ch, n, x, y)
           IN  /\ w \in Consoles
               /\ w.x = s.x /\ w.y = s.y /\ w.cur = s.cur /\ w.start = s.start
               /\ w.fault => Full(y)
               /\ ~w.fault /\ y < UChar /\ x + n <= COLUMNS =>
                    \A p \in 0 .. Cells - 1 : p >= Row(y + 1) => w.vram[p] = s.vram[p]
<1> DEFINE at == {Row(y % UChar) + ((x + j) % UChar) : j \in 0 .. n - 1}
           w == put_str_pos(s, ch, n, x, y)
           v == [pos \in 0 .. Cells - 1 |-> IF pos \in at THEN ch ELSE s.vram[pos]]
<1>1. w = IF \A pos \in at : pos < Cells THEN [s EXCEPT !.vram = v]
                                        ELSE [s EXCEPT !.fault = TRUE]
  BY DEF put_str_pos, Row
<1>2. y % UChar \in Nat /\ y % UChar <= y /\ (y < UChar => y % UChar = y)
  BY Sizes, Cut
<1>3. /\ Row(y % UChar) \in Nat /\ Row(y % UChar) <= Row(y) /\ Row(y) \in Nat
      /\ Row(y + 1) = Row(y) + COLUMNS
  BY <1>2, Rows
<1>4. ASSUME NEW j \in 0 .. n - 1
      PROVE  /\ (x + j) % UChar \in Nat /\ (x + j) % UChar <= UChar - 1
             /\ x + n <= COLUMNS => (x + j) % UChar <= COLUMNS - 1
  <2>1. x + j \in Nat
    OBVIOUS
  <2>2. /\ (x + j) % UChar \in Nat /\ (x + j) % UChar <= UChar - 1
        /\ (x + j) % UChar <= x + j
    BY <2>1, Sizes, Cut
  <2>3. x + n <= COLUMNS => x + j <= COLUMNS - 1
    BY Sizes
  <2> QED BY <2>1, <2>2, <2>3, Sizes
<1>5. CASE \A pos \in at : pos < Cells
  <2>1. w = [s EXCEPT !.vram = v]
    BY <1>1, <1>5
  <2>2. v \in [0 .. Cells - 1 -> Glyphs]
    BY Fields
  <2>3. ASSUME y < UChar, x + n <= COLUMNS, NEW p \in 0 .. Cells - 1, p >= Row(y + 1)
        PROVE  v[p] = s.vram[p]
    <3>1. p \notin at
      <4> SUFFICES ASSUME NEW j \in 0 .. n - 1, p = Row(y % UChar) + ((x + j) % UChar)
                   PROVE  FALSE
        OBVIOUS
      <4>1. y % UChar = y
        BY <1>2, <2>3
      <4>2. (x + j) % UChar \in Nat /\ (x + j) % UChar <= COLUMNS - 1
        BY <1>4, <2>3
      <4>3. p = Row(y) + ((x + j) % UChar)
        BY <4>1
      <4> QED BY <4>2, <4>3, <2>3, <1>3, Sizes
    <3> QED BY <3>1
  <2> HIDE DEF w, v
  <2>4. /\ w.x = s.x /\ w.y = s.y /\ w.cur = s.cur /\ w.start = s.start
        /\ w.fault = s.fault /\ w.vram = v /\ w \in Consoles
    BY <2>1, <2>2 DEF Consoles, Glyphs
  <2> QED BY <2>3, <2>4 DEF w
<1>6. CASE ~(\A pos \in at : pos < Cells)
  <2>1. w = [s EXCEPT !.fault = TRUE]
    BY <1>1, <1>6
  <2>2. PICK j \in 0 .. n - 1 : ~(Row(y % UChar) + ((x + j) % UChar) < Cells)
    BY <1>6
  <2>3. (x + j) % UChar \in Nat /\ (x + j) % UChar <= UChar - 1
    BY <1>4
  <2>4. Full(y)
    BY <2>2, <2>3, <1>3, Sizes DEF Full
  <2> HIDE DEF w
  <2>5. /\ w.x = s.x /\ w.y = s.y /\ w.cur = s.cur /\ w.start = s.start
        /\ w.fault = TRUE /\ w \in Consoles
    BY <2>1 DEF Consoles
  <2> QED BY <2>4, <2>5 DEF w
<1> QED BY <1>5, <1>6

\* dump_hex leaves the row alone.
LEMMA DumpHex ==
    ASSUME NEW s \in Consoles, ~s.fault, NEW n \in Nat
    PROVE  LET w == dump_hex(s, n)
           IN  w \in Consoles /\ w.y = s.y /\ (w.fault => Full(w.y))
<1> DEFINE p == put_str_pos(s, Other, n, s.x, s.y)
           t == [p EXCEPT !.x = (@ + n) % UInt]
           w == dump_hex(s, n)
<1>1. w = IF p.fault THEN p ELSE update_cursor(t)
  BY DEF dump_hex, dump_hex_pos, Unless
<1>2. s.x \in Nat /\ s.y \in Nat /\ Other \in Glyphs
  BY Fields DEF Glyphs
<1>3. p \in Consoles /\ p.y = s.y /\ (p.fault => Full(s.y))
  BY <1>2, StrPos
<1> HIDE DEF p
<1>4. p.x + n \in Nat
  BY <1>3, Fields
<1>5. (p.x + n) % UInt \in Words
  BY <1>4, Sizes, Cut DEF Words
<1>6. t \in Consoles /\ t.y = s.y /\ t.fault = p.fault
  BY <1>3, <1>5 DEF Consoles, Words
<1> HIDE DEF t, w
<1>7. ~p.fault => w \in Consoles /\ w.y = s.y /\ ~w.fault
  BY <1>1, <1>6, Cursor
<1> QED BY <1>1, <1>3, <1>7 DEF w

----------------------------------------------------------------------------
(***************************************************************************)
(* The inductive invariant.                                                *)
(***************************************************************************)
Places == {"off", "new", "prompt", "line", "run", "crlf"}

\* Every shell is in get_line, or not there yet.
Waiting == \A p \in Shells : shell[p] \in {"off", "new", "line"}

\* How far below the last row of the video memory the kernel task may have
\* moved the cursor since its last store to the screen.
KernelSlack ==
    IF kpc = "cell" THEN 2
    ELSE IF kreg.nl THEN (IF kpc \in {"loady", "storey"} THEN 1 ELSE 2)
    ELSE (IF kpc \in {"idle", "addr", "cur", "start", "setstart"} THEN 1 ELSE 0)

\* The same for a shell that is at w.
Slack(w) == IF w = "prompt" THEN 2 ELSE IF w \in {"run", "crlf"} THEN 1 ELSE 0

ShellSlack == Slack(shell[1]) + Slack(shell[2])

\* The cursor is never many rows below the video memory, for nobody moves it
\* by more than a few rows without storing to the screen.
ReachOK == ~con.fault => con.y <= Top + KernelSlack + ShellSlack

\* The row a preempted put_char is going to use.
KernelOK ==
    /\ kpc \in {"cell", "cmp", "loadx", "storex"} => ~kreg.nl
    /\ kpc = "cell" =>
         /\ kreg.y <= Top + 2
         /\ ~con.fault => kreg.y <= con.y
         /\ ~con.fault /\ Waiting => con.y = kreg.y \/ con.y <= Top
    /\ kpc = "storey" => /\ kreg.y >= 2
                         /\ kreg.y <= Top + (IF kreg.nl THEN 2 ELSE 1)

\* The first shell is there before what it starts.
StartOK ==
    /\ shell[1] # "off" /\ shell[2] # "new"
    /\ shell[1] = "new" => shell[2] = "off" /\ uptime = "off"

\* The row uptime is going to use.
UptimeOK == ~con.fault /\ uptime \in {"label", "digits"} => uy <= con.y

\* The line that is being typed is below the first two rows.
LineOK ==
    \A p \in Shells :
      /\ shell[p] = "line" => Len(line[p]) < MAX_LINE_SIZE - 1
      /\ shell[p] = "line" /\ whole = p /\ ~con.fault =>
           /\ con.x < COLUMNS /\ lineAt >= COLUMNS
           /\ Len(line[p]) > 0 => lineAt + Len(line[p]) <= Cells

ConsoleInv ==
    /\ TypeOK /\ ReachOK /\ KernelOK /\ StartOK /\ UptimeOK /\ LineOK
    /\ con.y >= 2 /\ LineOnScreen /\ FaultsOnlyAtTheEnd

\* What the shells' moves can add up to.
LEMMA Slacks ==
    /\ \A w : Slack(w) \in 0 .. 2
    /\ Slack("line") = 0 /\ Slack("prompt") = 2 /\ Slack("run") = 1 /\ Slack("crlf") = 1
    /\ Slack("new") = 0 /\ Slack("off") = 0
    /\ ShellSlack \in 0 .. 4
    /\ Waiting => ShellSlack = 0
<1>1. /\ \A w : Slack(w) \in 0 .. 2
      /\ Slack("line") = 0 /\ Slack("prompt") = 2 /\ Slack("run") = 1 /\ Slack("crlf") = 1
      /\ Slack("new") = 0 /\ Slack("off") = 0
  BY DEF Slack
<1>2. Slack(shell[1]) \in 0 .. 2 /\ Slack(shell[2]) \in 0 .. 2
  BY <1>1
<1>3. ASSUME Waiting PROVE Slack(shell[1]) = 0 /\ Slack(shell[2]) = 0
  <2>1. 1 \in Shells /\ 2 \in Shells
    BY DEF Shells
  <2>2. shell[1] \in {"off", "new", "line"} /\ shell[2] \in {"off", "new", "line"}
    BY <1>3, <2>1 DEF Waiting
  <2> QED BY <2>2, <1>1
<1> QED BY <1>1, <1>2, <1>3 DEF ShellSlack

\* The invariant's facts that most steps need.
LEMMA Bounds ==
    ASSUME ConsoleInv, ~con.fault
    PROVE  /\ con \in Consoles /\ con.x \in Nat /\ con.y \in Nat /\ con.y >= 2
           /\ con.y <= Top + 6 /\ con.y < UChar
           /\ Top \in Nat /\ Top >= 2 /\ Top + 6 < UChar /\ UChar \in Nat
           /\ KernelSlack \in 0 .. 2 /\ ShellSlack \in 0 .. 4
           /\ con.y <= Top + KernelSlack + ShellSlack
           /\ Waiting => con.y <= Top + KernelSlack
           /\ kreg.x \in Words /\ kreg.y \in Words /\ kreg.y \in Nat
           /\ kreg.nl \in BOOLEAN
<1>1. con \in Consoles /\ con.y >= 2
  BY DEF ConsoleInv, TypeOK
<1>2. /\ con.x \in Nat /\ con.y \in Nat
      /\ Top \in Nat /\ Top >= 2 /\ Top + 6 < UChar /\ UChar \in Nat
  BY <1>1, Fields, RowFits, Sizes
<1>3. KernelSlack \in 0 .. 2
  BY DEF KernelSlack
<1>4. con.y <= Top + KernelSlack + ShellSlack
  BY DEF ConsoleInv, ReachOK
<1>5. ShellSlack \in 0 .. 4 /\ (Waiting => ShellSlack = 0)
  BY Slacks
<1>6. con.y <= Top + 6 /\ (Waiting => con.y <= Top + KernelSlack)
  BY <1>2, <1>3, <1>4, <1>5
<1>7. kreg.x \in Words /\ kreg.y \in Words /\ kreg.nl \in BOOLEAN
  BY DEF ConsoleInv, TypeOK, Words
<1>8. kreg.y \in Nat
  BY <1>7, Sizes DEF Words
<1> QED BY <1>1, <1>2, <1>3, <1>4, <1>5, <1>6, <1>7, <1>8

(***************************************************************************)
(* A step of a user task moves the cursor down or not at all, and has      *)
(* stored to the screen when all shells wait for a key again.              *)
(***************************************************************************)
LEMMA UserStep ==
    ASSUME ConsoleInv, ~con.fault, con' \in Consoles, con.y <= con'.y,
           con'.fault => Full(con'.y), UNCHANGED <<kpc, kreg>>,
           ~con'.fault => \/ con'.y <= Top + ShellSlack'
                          \/ con'.y + ShellSlack <= con.y + ShellSlack',
           ShellSlack' \in Nat,
           ~con'.fault /\ Waiting' => con'.y <= Top \/ (Waiting /\ con'.y = con.y)
    PROVE  ReachOK' /\ KernelOK' /\ con'.y >= 2 /\ FaultsOnlyAtTheEnd'
<1>0. /\ con.y \in Nat /\ con.y >= 2 /\ con'.y \in Nat
      /\ Top \in Nat /\ kreg.y \in Nat /\ KernelSlack \in 0 .. 2 /\ ShellSlack \in 0 .. 4
      /\ con.y <= Top + KernelSlack + ShellSlack
  BY Bounds, Fields
<1>1. con'.y >= 2
  BY <1>0
<1>2. FaultsOnlyAtTheEnd'
  BY DEF FaultsOnlyAtTheEnd, Full, Row
<1>3. KernelSlack' = KernelSlack
  BY DEF KernelSlack
<1>4. ReachOK'
  <2> SUFFICES ASSUME ~con'.fault
               PROVE  con'.y <= Top + KernelSlack + ShellSlack'
    BY <1>3 DEF ReachOK, Top
  <2> QED BY <1>0
<1>5. KernelOK'
  <2>1. KernelOK /\ kpc' = kpc /\ kreg' = kreg
    BY DEF ConsoleInv
  <2>2. ASSUME kpc = "cell", ~con'.fault PROVE kreg.y <= con'.y
    BY <2>1, <2>2, <1>0 DEF KernelOK
  <2>3. ASSUME kpc = "cell", ~con'.fault, Waiting'
        PROVE  con'.y = kreg.y \/ con'.y <= Top
    BY <2>1, <2>3 DEF KernelOK
  <2> QED BY <2>1, <2>2, <2>3 DEF KernelOK, Top
<1> QED BY <1>1, <1>2, <1>4, <1>5

\* A step of a user task that is not a shell: the cursor stays.
LEMMA StillStep ==
    ASSUME ConsoleInv, ~con.fault, con' \in Consoles, con'.y = con.y,
           con'.fault => Full(con'.y), UNCHANGED <<kpc, kreg, shell>>
    PROVE  ReachOK' /\ KernelOK' /\ con'.y >= 2 /\ FaultsOnlyAtTheEnd'
<1>1. con.y \in Nat /\ ShellSlack \in 0 .. 4
  BY Bounds
<1>2. ShellSlack' = ShellSlack /\ (Waiting' <=> Waiting)
  BY DEF ShellSlack, Waiting
<1> QED BY <1>1, <1>2, UserStep

\* A step of shell p.
LEMMA ShellStep ==
    ASSUME ConsoleInv, ~con.fault, NEW p \in Shells, shell[p] # "off",
           NEW w \in {"prompt", "line", "run", "crlf"}, To(p, w),
           con' \in Consoles, con.y <= con'.y,
           con'.fault => Full(con'.y), UNCHANGED <<kpc, kreg>>,
           ~con'.fault => \/ con'.y <= Top + Slack(w)
                          \/ con'.y + Slack(shell[p]) <= con.y + Slack(w),
           ~con'.fault /\ w = "line" => con'.y <= Top \/ (shell[p] = "line" /\ con'.y = con.y)
    PROVE  /\ ReachOK' /\ KernelOK' /\ con'.y >= 2 /\ FaultsOnlyAtTheEnd'
           /\ shell' \in [Shells -> Places] /\ shell'[p] = w
           /\ \A q \in Shells \ {p} : shell'[q] = shell[q]
           /\ shell'[1] # "off" /\ shell'[2] # "new" /\ shell'[1] # "new"
<1>1. /\ shell \in [Shells -> Places] /\ StartOK
  BY DEF ConsoleInv, TypeOK, Places
<1>2. /\ shell' = [shell EXCEPT ![p] = w] /\ w \in Places
  BY DEF To, Places
<1>3. /\ shell' \in [Shells -> Places] /\ shell'[p] = w
      /\ \A q \in Shells \ {p} : shell'[q] = shell[q]
  BY <1>1, <1>2
<1>4. p = 1 \/ p = 2
  BY DEF Shells
<1>5. /\ ShellSlack = Slack(shell[p]) + Slack(shell[3 - p])
      /\ ShellSlack' = Slack(w) + Slack(shell[3 - p])
  <2>1. CASE p = 1
    <3>1. shell'[1] = w /\ shell'[2] = shell[2] /\ 3 - p = 2
      BY <2>1, <1>3 DEF Shells
    <3> QED BY <2>1, <3>1 DEF ShellSlack
  <2>2. CASE p = 2
    <3>1. shell'[2] = w /\ shell'[1] = shell[1] /\ 3 - p = 1
      BY <2>2, <1>3 DEF Shells
    <3>2. Slack(w) \in Nat /\ Slack(shell[1]) \in Nat /\ Slack(shell[2]) \in Nat
      BY Slacks
    <3> QED BY <2>2, <3>1, <3>2 DEF ShellSlack
  <2> QED BY <2>1, <2>2, <1>4
<1>6. Slack(w) \in 0 .. 2 /\ Slack(shell[p]) \in 0 .. 2 /\ Slack(shell[3 - p]) \in 0 .. 2
  BY Slacks
<1>7. /\ con.y \in Nat /\ con'.y \in Nat /\ Top \in Nat
  BY Bounds, Fields
<1>8. ShellSlack' \in Nat
  BY <1>5, <1>6
<1>9. ~con'.fault => \/ con'.y <= Top + ShellSlack'
                     \/ con'.y + ShellSlack <= con.y + ShellSlack'
  BY <1>5, <1>6, <1>7
<1>10. ~con'.fault /\ Waiting' => con'.y <= Top \/ (Waiting /\ con'.y = con.y)
  <2> SUFFICES ASSUME ~con'.fault, Waiting', ~(con'.y <= Top)
               PROVE  Waiting /\ con'.y = con.y
    OBVIOUS
  <2>1. w = "line"
    BY <1>3 DEF Waiting
  <2>2. shell[p] = "line" /\ con'.y = con.y
    BY <2>1
  <2>3. shell' = shell
    BY <2>1, <2>2, <1>1, <1>2
  <2> QED BY <2>2, <2>3 DEF Waiting
<1>11. ReachOK' /\ KernelOK' /\ con'.y >= 2 /\ FaultsOnlyAtTheEnd'
  BY <1>8, <1>9, <1>10, UserStep
<1>12. shell'[1] # "off" /\ shell'[2] # "new" /\ shell'[1] # "new"
  <2>1. CASE p = 1
    <3>1. shell'[1] = w /\ shell'[2] = shell[2]
      BY <2>1, <1>3 DEF Shells
    <3> QED BY <3>1, <1>1 DEF StartOK
  <2>2. CASE p = 2
    <3>1. shell'[2] = w /\ shell'[1] = shell[1]
      BY <2>2, <1>3 DEF Shells
    <3> QED BY <3>1, <2>2, <1>1 DEF StartOK
  <2> QED BY <2>1, <2>2, <1>4
<1> QED BY <1>3, <1>11, <1>12

\* The first timer interrupt.
LEMMA StartStep == ASSUME ConsoleInv, shell_start PROVE ConsoleInv'
<1>0. ~con.fault /\ shell[1] = "new" /\ To(1, "prompt")
      /\ UNCHANGED <<con, line, uptime, uy, kpc, kreg, kleft, whole, lineAt>>
  BY DEF shell_start, Running
<1>1. con \in Consoles /\ con.y \in Nat /\ 1 \in Shells
  BY <1>0, Bounds DEF Shells
<1>2. con.y + Slack(shell[1]) <= con.y + Slack("prompt")
  BY <1>0, <1>1, Slacks
<1>3. /\ ReachOK' /\ KernelOK' /\ con'.y >= 2 /\ FaultsOnlyAtTheEnd'
      /\ shell' \in [Shells -> Places] /\ shell'[1] = "prompt"
      /\ \A q \in Shells \ {1} : shell'[q] = shell[q]
      /\ shell'[1] # "off" /\ shell'[2] # "new" /\ shell'[1] # "new"
  BY <1>0, <1>1, <1>2, ShellStep
<1>4. TypeOK'
  BY <1>0, <1>3 DEF ConsoleInv, TypeOK, Places
<1>5. StartOK' /\ UptimeOK'
  BY <1>0, <1>3 DEF ConsoleInv, StartOK, UptimeOK
<1>6. shell[2] = "off" /\ shell'[2] = "off"
  BY <1>0, <1>3 DEF ConsoleInv, StartOK, Shells
<1>7. \A p \in Shells : shell'[p] # "line"
  BY <1>3, <1>6 DEF Shells
<1>8. LineOK' /\ LineOnScreen'
  BY <1>7 DEF LineOK, LineOnScreen
<1> QED BY <1>3, <1>4, <1>5, <1>8 DEF ConsoleInv

(***************************************************************************)
(* The lines.                                                              *)
(***************************************************************************)
\* The line of shell p is in order: it is on the screen, below the first row.
LineGood(p) ==
    /\ con.x < COLUMNS /\ lineAt >= COLUMNS
    /\ Len(line[p]) > 0 => lineAt + Len(line[p]) <= Cells
    /\ Row(con.y) + con.x = lineAt + Len(line[p])
    /\ \A j \in DOMAIN line[p] : con.vram[lineAt + j - 1] = line[p][j]

\* What the invariant says of a line.
LEMMA LineFacts ==
    ASSUME ConsoleInv, NEW p \in Shells
    PROVE  /\ line[p] \in Seq(Chars) /\ lineAt \in Nat /\ Len(line[p]) \in Nat
           /\ Len(line[p]) <= MAX_LINE_SIZE - 1 /\ DOMAIN line[p] = 1 .. Len(line[p])
           /\ shell[p] = "line" => Len(line[p]) < MAX_LINE_SIZE - 1
           /\ shell[p] = "line" /\ whole = p /\ ~con.fault => LineGood(p)
<1>1. /\ line[p] \in Seq(Chars) /\ lineAt \in Nat /\ Len(line[p]) <= MAX_LINE_SIZE - 1
  BY DEF ConsoleInv, TypeOK
<1>2. Len(line[p]) \in Nat /\ DOMAIN line[p] = 1 .. Len(line[p])
  BY <1>1
<1> QED BY <1>1, <1>2 DEF ConsoleInv, LineOK, LineOnScreen, LineGood, Row

\* A step that changes no other shell's line.
LEMMA LinesKept ==
    ASSUME ConsoleInv, NEW p \in Shells,
           \A q \in Shells \ {p} : shell'[q] = shell[q] /\ line'[q] = line[q],
           whole' \in {0, p} \/ UNCHANGED <<con, whole, lineAt>>,
           shell'[p] = "line" => Len(line'[p]) < MAX_LINE_SIZE - 1,
           shell'[p] = "line" /\ whole' = p /\ ~con'.fault => LineGood(p)'
    PROVE  LineOK' /\ LineOnScreen'
<1>1. ASSUME NEW q \in Shells, q # p
      PROVE  /\ shell'[q] = "line" => Len(line'[q]) < MAX_LINE_SIZE - 1
             /\ shell'[q] = "line" /\ whole' = q /\ ~con'.fault => LineGood(q)'
  <2>1. /\ shell[q] = "line" => Len(line[q]) < MAX_LINE_SIZE - 1
        /\ shell[q] = "line" /\ whole = q /\ ~con.fault => LineGood(q)
    BY LineFacts
  <2>2. shell'[q] = shell[q] /\ line'[q] = line[q]
    BY <1>1
  <2>3. ASSUME whole' = q PROVE UNCHANGED <<con, whole, lineAt>>
    BY <2>3, <1>1 DEF Shells
  <2>4. ASSUME shell'[q] = "line", whole' = q, ~con'.fault PROVE LineGood(q)'
    <3>1. LineGood(q) /\ UNCHANGED <<con, lineAt>>
      BY <2>1, <2>2, <2>3, <2>4
    <3> QED BY <3>1, <2>2 DEF LineGood, Row
  <2> QED BY <2>1, <2>2, <2>4
<1>2. ASSUME NEW q \in Shells
      PROVE  /\ shell'[q] = "line" => Len(line'[q]) < MAX_LINE_SIZE - 1
             /\ shell'[q] = "line" /\ whole' = q /\ ~con'.fault => LineGood(q)'
  BY <1>1
<1> QED BY <1>2 DEF LineOK, LineOnScreen, LineGood, Row

\* A step of shell p that gives it the line l.
LEMMA NewLine ==
    ASSUME ConsoleInv, NEW p \in Shells, NEW l \in Seq(Chars), Len(l) <= MAX_LINE_SIZE - 1,
           line' = [line EXCEPT ![p] = l]
    PROVE  /\ line' \in [Shells -> Seq(Chars)] /\ line'[p] = l
           /\ \A q \in Shells : Len(line'[q]) <= MAX_LINE_SIZE - 1
           /\ \A q \in Shells \ {p} : line'[q] = line[q]
<1>1. /\ line \in [Shells -> Seq(Chars)]
      /\ \A q \in Shells : Len(line[q]) <= MAX_LINE_SIZE - 1
  BY DEF ConsoleInv, TypeOK
<1>2. /\ line' \in [Shells -> Seq(Chars)] /\ line'[p] = l
      /\ \A q \in Shells \ {p} : line'[q] = line[q]
  BY <1>1
<1>3. ASSUME NEW q \in Shells PROVE Len(line'[q]) <= MAX_LINE_SIZE - 1
  <2>1. CASE q = p
    BY <2>1, <1>2
  <2>2. CASE q # p
    BY <2>2, <1>1, <1>2
  <2> QED BY <2>1, <2>2
<1> QED BY <1>2, <1>3

\* uptime's row stays at or above the cursor when the cursor moves down.
LEMMA UptimeBelow ==
    ASSUME ConsoleInv, ~con.fault, con' \in Consoles, con.y <= con'.y, uy' = uy,
           uptime' = uptime \/ uptime' = "read"
    PROVE  UptimeOK'
<1>1. uptime \in {"label", "digits"} => uy <= con.y
  BY DEF ConsoleInv, UptimeOK
<1>2. uy \in Nat /\ con.y \in Nat /\ con'.y \in Nat
  BY Sizes, Bounds, Fields DEF ConsoleInv, TypeOK
<1> QED BY <1>1, <1>2 DEF UptimeOK

\* What a step of shell p has to show.
LEMMA ShellLineStep ==
    ASSUME ConsoleInv, ~con.fault, NEW p \in Shells, shell[p] \notin {"off", "new"},
           NEW w \in {"prompt", "line", "run", "crlf"}, To(p, w),
           con' \in Consoles, con.y <= con'.y,
           con'.fault => Full(con'.y), UNCHANGED <<uy, kpc, kreg, kleft>>,
           ~con'.fault => \/ con'.y <= Top + Slack(w)
                          \/ con'.y + Slack(shell[p]) <= con.y + Slack(w),
           ~con'.fault /\ w = "line" => con'.y <= Top \/ (shell[p] = "line" /\ con'.y = con.y),
           NEW l \in Seq(Chars), Len(l) <= MAX_LINE_SIZE - 1,
           line' = [line EXCEPT ![p] = l],
           uptime' = uptime \/ uptime' = "read",
           whole' \in {0, p} \/ UNCHANGED <<con, whole, lineAt>>,
           lineAt' \in Nat,
           w = "line" => Len(l) < MAX_LINE_SIZE - 1,
           w = "line" /\ whole' = p /\ ~con'.fault => LineGood(p)'
    PROVE  ConsoleInv'
<1>1. /\ ReachOK' /\ KernelOK' /\ con'.y >= 2 /\ FaultsOnlyAtTheEnd'
      /\ shell' \in [Shells -> Places] /\ shell'[p] = w
      /\ \A q \in Shells \ {p} : shell'[q] = shell[q]
      /\ shell'[1] # "off" /\ shell'[2] # "new" /\ shell'[1] # "new"
  BY ShellStep
<1>2. UptimeOK'
  BY UptimeBelow
<1>3. StartOK'
  BY <1>1 DEF StartOK
<1>4. /\ line' \in [Shells -> Seq(Chars)] /\ line'[p] = l
      /\ \A q \in Shells : Len(line'[q]) <= MAX_LINE_SIZE - 1
      /\ \A q \in Shells \ {p} : line'[q] = line[q]
  BY NewLine
<1>5. TypeOK'
  <2>1. whole' \in Shells \cup {0}
    BY DEF ConsoleInv, TypeOK
  <2>2. uptime' \in {"off", "read", "label", "digits", "asleep"}
    BY DEF ConsoleInv, TypeOK
  <2> QED BY <1>1, <1>4, <2>1, <2>2 DEF ConsoleInv, TypeOK, Places
<1>6. LineOK' /\ LineOnScreen'
  BY <1>1, <1>4, LinesKept
<1> QED BY <1>1, <1>2, <1>3, <1>5, <1>6 DEF ConsoleInv

\* The prompt: its first store tells that the cursor is in the video memory,
\* and the line starts where it ends.
LEMMA PromptStep ==
    ASSUME ConsoleInv, NEW p \in Shells, shell_prompt(p)
    PROVE  ConsoleInv'
<1>0. /\ ~con.fault /\ shell[p] = "prompt" /\ To(p, "line")
      /\ line' = [line EXCEPT ![p] = <<>>]
      /\ con' = put_str(con, Other, PromptLen)
      /\ lineAt' = Row(con'.y) + con'.x /\ whole' = p
      /\ UNCHANGED <<uptime, uy, kpc, kreg, kleft>>
  BY DEF shell_prompt, Running, Row
<1>1. /\ con \in Consoles /\ con.y \in Nat /\ con.y >= 2 /\ con.y < UChar /\ Top \in Nat
  BY <1>0, Bounds
<1>2. /\ con' \in Consoles /\ con.y <= con'.y
      /\ con'.fault => Full(con'.y)
      /\ ~con'.fault => con'.y <= Top /\ con'.x < COLUMNS
  BY <1>0, <1>1, PutStr, Sizes DEF Glyphs
<1>3. /\ con'.x \in Nat /\ con'.y \in Nat
  BY <1>2, Fields
<1>6. Row(con'.y) \in Nat /\ Row(con'.y) >= COLUMNS
  <2>1. con'.y >= 1
    BY <1>1, <1>2, <1>3
  <2>2. Row(1) <= Row(con'.y) /\ Row(con'.y) \in Nat
    BY <2>1, <1>3, Rows
  <2>3. Row(1) = COLUMNS
    BY Sizes DEF Row
  <2> QED BY <2>2, <2>3
<1>7. lineAt' \in Nat /\ lineAt' >= COLUMNS
  BY <1>0, <1>3, <1>6, Sizes
<1> DEFINE l == <<>>
<1>8. l \in Seq(Chars) /\ Len(l) = 0 /\ DOMAIN l = {} /\ 0 < MAX_LINE_SIZE - 1
  BY Sizes
<1>9. line'[p] = <<>>
  BY <1>0 DEF ConsoleInv, TypeOK
<1>10. ~con'.fault => LineGood(p)'
  <2> SUFFICES ASSUME ~con'.fault PROVE LineGood(p)'
    OBVIOUS
  <2>1. Row(con'.y) + con'.x = lineAt' + 0
    BY <1>0, <1>3, <1>6
  <2>2. con'.y * COLUMNS + con'.x = lineAt' + 0
    BY <2>1 DEF Row
  <2> QED BY <2>2, <1>2, <1>7, <1>8, <1>9 DEF LineGood, Row
<1>11. ~con'.fault => con'.y <= Top + Slack("line")
  BY <1>1, <1>2, Slacks
<1> HIDE DEF l
<1>12. line' = [line EXCEPT ![p] = l] /\ Len(l) <= MAX_LINE_SIZE - 1
  <2>1. Len(l) <= MAX_LINE_SIZE - 1
    BY <1>8, Sizes
  <2> QED BY <2>1, <1>0 DEF l
<1> QED BY <1>0, <1>2, <1>7, <1>8, <1>10, <1>11, <1>12, ShellLineStep

\* The end of a command: "\r\n".
LEMMA CrlfOK ==
    ASSUME NEW s \in Consoles, s.y < UChar, s.fault => Full(s.y)
    PROVE  LET w == put_crlf(s)
           IN  /\ w \in Consoles /\ s.y <= w.y /\ (w.fault => Full(w.y))
               /\ w.y <= s.y + 1 /\ (w.fault <=> s.fault)
<1> DEFINE c == put_char(s, "CR")
           w == put_crlf(s)
<1>0. s.y \in Nat
  BY Fields
<1>1. /\ c \in Consoles /\ (s.fault => c = s) /\ (~s.fault => c.y = s.y /\ ~c.fault)
  BY PutControl
<1>2. w = put_char(c, "LF")
  BY DEF put_crlf
<1> HIDE DEF c, w
<1>3. /\ w \in Consoles /\ (c.fault => w = c)
      /\ ~c.fault => ~w.fault /\ (c.y < UChar => w.y = c.y + 1)
  BY <1>1, <1>2, PutControl
<1>4. CASE s.fault
  <2>1. w = s
    BY <1>1, <1>3, <1>4
  <2> QED BY <2>1, <1>0, <1>4 DEF w
<1>5. CASE ~s.fault
  <2>1. c.y = s.y /\ ~c.fault
    BY <1>1, <1>5
  <2>2. w.y = s.y + 1 /\ ~w.fault
    BY <2>1, <1>3
  <2> QED BY <2>2, <1>0, <1>3, <1>5 DEF w
<1> QED BY <1>4, <1>5

\* Steps that take shell p out of get_line.
LEMMA LeaveLine ==
    ASSUME ConsoleInv, ~con.fault, NEW p \in Shells, shell[p] \notin {"off", "new"},
           NEW w \in {"prompt", "run", "crlf"}, To(p, w),
           con' \in Consoles, con.y <= con'.y,
           con'.fault => Full(con'.y), UNCHANGED <<uy, kpc, kreg, kleft>>,
           ~con'.fault => \/ con'.y <= Top + Slack(w)
                          \/ con'.y + Slack(shell[p]) <= con.y + Slack(w),
           line' = line \/ line' = [line EXCEPT ![p] = <<>>],
           uptime' = uptime \/ uptime' = "read",
           Spoil \/ UNCHANGED <<con, whole, lineAt>>
    PROVE  ConsoleInv'
<1> DEFINE l == IF line' = line THEN line[p] ELSE <<>>
<1>1. l \in Seq(Chars) /\ Len(l) <= MAX_LINE_SIZE - 1 /\ line' = [line EXCEPT ![p] = l]
  <2>1. /\ line[p] \in Seq(Chars) /\ Len(line[p]) <= MAX_LINE_SIZE - 1
        /\ line \in [Shells -> Seq(Chars)]
    BY DEF ConsoleInv, TypeOK
  <2>2. <<>> \in Seq(Chars) /\ Len(<<>>) <= MAX_LINE_SIZE - 1
    BY Sizes
  <2>3. CASE line' = line
    BY <2>1, <2>3
  <2>4. CASE line' # line
    BY <2>2, <2>4
  <2> QED BY <2>3, <2>4
<1> HIDE DEF l
<1>2. lineAt' \in Nat /\ (whole' \in {0, p} \/ UNCHANGED <<con, whole, lineAt>>)
  BY DEF Spoil, ConsoleInv, TypeOK
<1>3. w # "line" /\ w \in {"prompt", "line", "run", "crlf"}
  OBVIOUS
<1> QED BY <1>1, <1>2, <1>3, ShellLineStep

\* Starting the second shell.
LEMMA SecondStep ==
    ASSUME ConsoleInv, ~con.fault, NEW p \in Shells, NEW q \in Shells,
           shell[p] = "run", shell[q] = "off",
           shell' = [shell EXCEPT ![p] = "prompt", ![q] = "prompt"],
           line' = [line EXCEPT ![p] = <<>>],
           UNCHANGED <<con, uptime, uy, kpc, kreg, kleft, whole, lineAt>>
    PROVE  ConsoleInv'
<1>1. p = 1 /\ q = 2
  BY DEF ConsoleInv, StartOK, Shells
<1>2. shell' \in [Shells -> Places] /\ shell'[1] = "prompt" /\ shell'[2] = "prompt"
  BY <1>1 DEF ConsoleInv, TypeOK, Places, Shells
<1>3. /\ con \in Consoles /\ con.y \in Nat /\ ShellSlack \in 0 .. 4
  BY Bounds
<1>4. ShellSlack' = 4
  <2>1. Slack("prompt") = 2
    BY Slacks
  <2>2. ShellSlack' = Slack("prompt") + Slack("prompt")
    BY <1>2 DEF ShellSlack
  <2> QED BY <2>1, <2>2
<1>5. ~Waiting'
  BY <1>2 DEF Waiting, Shells
<1>6. ReachOK' /\ KernelOK' /\ con'.y >= 2 /\ FaultsOnlyAtTheEnd'
  BY <1>3, <1>4, <1>5, UserStep
<1> DEFINE l == <<>>
<1>7. l \in Seq(Chars) /\ Len(l) <= MAX_LINE_SIZE - 1 /\ line' = [line EXCEPT ![p] = l]
  BY Sizes
<1> HIDE DEF l
<1>8. /\ line' \in [Shells -> Seq(Chars)]
      /\ \A r \in Shells : Len(line'[r]) <= MAX_LINE_SIZE - 1
  BY <1>7, NewLine
<1>9. TypeOK'
  BY <1>2, <1>8 DEF ConsoleInv, TypeOK, Places
<1>10. StartOK' /\ UptimeOK'
  BY <1>2 DEF ConsoleInv, StartOK, UptimeOK
<1>11. LineOK' /\ LineOnScreen'
  BY <1>2 DEF LineOK, LineOnScreen, Shells
<1> QED BY <1>6, <1>9, <1>10, <1>11 DEF ConsoleInv

\* shell_main's dispatch and the first system call of the command.
LEMMA CommandStep ==
    ASSUME ConsoleInv, NEW p \in Shells, shell_command(p)
    PROVE  ConsoleInv'
<1>0. /\ ~con.fault /\ shell[p] = "run" /\ line' = [line EXCEPT ![p] = <<>>]
      /\ UNCHANGED <<uy, kpc, kreg, kleft>>
  BY DEF shell_command, Running
<1>1. /\ con \in Consoles /\ con.y \in Nat /\ con.y < UChar /\ Top \in Nat
      /\ Len(line[p]) \in Nat
  BY <1>0, Bounds, LineFacts
<1>2. Slack("prompt") = 2 /\ Slack("crlf") = 1 /\ Slack("run") = 1
  BY Slacks
<1>3. Other \in Glyphs
  BY DEF Glyphs
\* It is enough to know where the cursor is afterwards.
<1>g. ASSUME con' \in Consoles, con.y <= con'.y, con'.fault => Full(con'.y),
             NEW w \in {"crlf", "prompt"}, To(p, w),
             ~con'.fault => con'.y <= Top + Slack(w) \/ con'.y = con.y,
             uptime' = uptime \/ uptime' = "read",
             Spoil \/ UNCHANGED <<con, whole, lineAt>>
      PROVE  ConsoleInv'
  <2>1. con'.y \in Nat
    BY <1>g, Fields
  <2>2. ~con'.fault => \/ con'.y <= Top + Slack(w)
                       \/ con'.y + Slack(shell[p]) <= con.y + Slack(w)
    BY <1>g, <2>1, <1>0, <1>1, <1>2
  <2>3. w \in {"prompt", "run", "crlf"} /\ shell[p] \notin {"off", "new"}
    BY <1>g, <1>0
  <2> QED BY <1>g, <1>0, <2>2, <2>3, LeaveLine
<1>4. CASE command_echo(p)
  <2>1. PICK n \in 0 .. Len(line[p]) : con' = put_str(con, Other, n)
    BY <1>4 DEF command_echo
  <2>2. n \in Nat /\ To(p, "crlf") /\ Spoil /\ uptime' = uptime
    BY <1>1, <1>4 DEF command_echo
  <2>3. /\ con' \in Consoles /\ con.y <= con'.y
        /\ con'.fault => Full(con'.y)
        /\ n = 0 => con' = con
        /\ ~con'.fault /\ n > 0 => con'.y <= Top
    BY <2>1, <2>2, <1>0, <1>1, <1>3, PutStr
  <2>4. ~con'.fault => con'.y <= Top + Slack("crlf") \/ con'.y = con.y
    <3>1. con'.y \in Nat
      BY <2>3, Fields
    <3>2. CASE n = 0
      BY <3>2, <2>3, <1>1
    <3>3. CASE n > 0
      BY <3>1, <3>3, <2>3, <1>1, <1>2
    <3> QED BY <3>2, <3>3, <2>2
  <2> QED BY <2>2, <2>3, <2>4, <1>g
<1>5. CASE command_read(p)
  <2>1. PICK n \in HexSizes : con' = dump_hex(con, n)
    BY <1>5 DEF command_read
  <2>2. n \in Nat /\ To(p, "crlf") /\ Spoil /\ uptime' = uptime
    <3>1. n \in 1 .. UChar
      BY ConsoleAssumption
    <3> QED BY <3>1, <1>5, Sizes DEF command_read
  <2>3. con' \in Consoles /\ con'.y = con.y /\ (con'.fault => Full(con'.y))
    BY <2>1, <2>2, <1>0, <1>1, DumpHex
  <2>4. con.y <= con'.y
    BY <2>3, <1>1
  <2> QED BY <2>2, <2>3, <2>4, <1>g
<1>6. CASE command_write(p)
  <2>1. To(p, "prompt") /\ UNCHANGED <<con, uptime, whole, lineAt>>
    BY <1>6 DEF command_write
  <2>2. con' \in Consoles /\ con.y <= con'.y /\ ~con'.fault /\ con'.y = con.y
    BY <2>1, <1>0, <1>1
  <2> QED BY <2>1, <2>2, <1>g
<1>7. CASE command_test(p)
  <2>0. PICK n \in 1 .. COLUMNS : con' = put_crlf(put_str(con, Other, n))
    BY <1>7 DEF command_test
  <2> DEFINE v == put_str(con, Other, n)
  <2>1. /\ con' = put_crlf(v) /\ n \in Nat /\ n > 0
        /\ To(p, "prompt") /\ Spoil /\ uptime' = uptime
    BY <2>0, <1>7, Sizes DEF command_test
  <2>2. /\ v \in Consoles /\ con.y <= v.y /\ v.y < UChar
        /\ v.fault => Full(v.y)
        /\ ~v.fault => v.y <= Top
    BY <2>1, <1>0, <1>1, <1>3, PutStr
  <2> HIDE DEF v
  <2>3. v.y \in Nat
    BY <2>2, Fields
  <2>4. /\ con' \in Consoles /\ v.y <= con'.y /\ (con'.fault => Full(con'.y))
        /\ con'.y <= v.y + 1 /\ (con'.fault <=> v.fault)
    BY <2>1, <2>2, <2>3, CrlfOK
  <2>5. con'.y \in Nat
    BY <2>4, Fields
  <2>6. con.y <= con'.y /\ (~con'.fault => con'.y <= Top + Slack("prompt"))
    BY <2>2, <2>3, <2>4, <2>5, <1>1, <1>2
  <2> QED BY <2>1, <2>4, <2>6, <1>g
<1>8. CASE command_exec(p)
  <2>1. PICK q \in Shells :
          /\ shell[q] = "off"
          /\ \/ To(p, "prompt") /\ uptime' = "read"
             \/ /\ UNCHANGED uptime
                /\ shell' = [shell EXCEPT ![p] = "prompt", ![q] = "prompt"]
    BY <1>8 DEF command_exec
  <2>2. UNCHANGED <<con, whole, lineAt>>
    BY <1>8 DEF command_exec
  <2>3. con' \in Consoles /\ con.y <= con'.y /\ ~con'.fault /\ con'.y = con.y
    BY <2>2, <1>0, <1>1
  <2>4. CASE To(p, "prompt") /\ uptime' = "read"
    BY <2>2, <2>3, <2>4, <1>g
  <2>5. CASE UNCHANGED uptime /\ shell' = [shell EXCEPT ![p] = "prompt", ![q] = "prompt"]
    BY <2>1, <2>2, <2>5, <1>0, SecondStep
  <2> QED BY <2>1, <2>4, <2>5
<1> QED BY <1>4, <1>5, <1>6, <1>7, <1>8 DEF shell_command

\* The line end after a command's output.
LEMMA CrlfStep ==
    ASSUME ConsoleInv, NEW p \in Shells, shell_crlf(p)
    PROVE  ConsoleInv'
<1>0. /\ ~con.fault /\ shell[p] = "crlf" /\ To(p, "prompt") /\ con' = put_crlf(con) /\ Spoil
      /\ UNCHANGED <<line, uptime, uy, kpc, kreg, kleft>>
  BY DEF shell_crlf, Running
<1>1. /\ con \in Consoles /\ con.y \in Nat /\ con.y < UChar /\ Top \in Nat
  BY <1>0, Bounds
<1>2. /\ con' \in Consoles /\ con.y <= con'.y /\ (con'.fault => Full(con'.y))
      /\ con'.y <= con.y + 1
  BY <1>0, <1>1, CrlfOK
<1>3. con'.y + Slack(shell[p]) <= con.y + Slack("prompt")
  <2>1. Slack("crlf") = 1 /\ Slack("prompt") = 2 /\ con'.y \in Nat
    BY <1>2, Fields, Slacks
  <2> QED BY <2>1, <1>0, <1>1, <1>2
<1> QED BY <1>0, <1>2, <1>3, LeaveLine

(***************************************************************************)
(* get_line between two keys.                                              *)
(***************************************************************************)
\* A typed character.
LEMMA CharStep ==
    ASSUME ConsoleInv, NEW p \in Shells, NEW c \in Chars, Running, shell[p] = "line",
           con' = put_char(con, c), line' = [line EXCEPT ![p] = Append(@, c)],
           To(p, IF LineFull(line'[p]) THEN "run" ELSE "line"),
           IF whole = p THEN UNCHANGED <<whole, lineAt>> ELSE Spoil,
           UNCHANGED <<uptime, uy, kpc, kreg, kleft>>
    PROVE  /\ ConsoleInv'
           /\ ~con'.fault =>
                /\ con'.y <= Top /\ con'.x < COLUMNS /\ con'.cur = Row(con'.y) + con'.x
                /\ con'.start = IF con'.y >= ROWS THEN Row(con'.y - ROWS + 1) ELSE con.start
<1>0. /\ ~con.fault /\ con \in Consoles /\ con.y \in Nat /\ con.x \in Nat /\ con.y < UChar
      /\ Top \in Nat /\ c \in Glyphs
  BY Bounds DEF Running, Glyphs
<1>1. /\ con' \in Consoles
      /\ con'.fault => con'.y = con.y /\ Full(con'.y)
      /\ ~con'.fault =>
           /\ con.y <= con'.y /\ con'.y <= Top /\ con'.x < COLUMNS
           /\ con'.cur = Row(con'.y) + con'.x
           /\ con'.start = IF con'.y >= ROWS THEN Row(con'.y - ROWS + 1) ELSE con.start
           /\ con.x < COLUMNS =>
                /\ Row(con'.y) + con'.x = Row(con.y) + con.x + 1
                /\ Row(con.y) + con.x \in 0 .. Cells - 1
                /\ con'.vram = [con.vram EXCEPT ![Row(con.y) + con.x] = c]
  BY <1>0, PutChar
<1>2. con.y <= con'.y /\ con'.y \in Nat /\ con'.x \in Nat
  BY <1>0, <1>1, Fields
<1> DEFINE l == Append(line[p], c)
           w == IF LineFull(l) THEN "run" ELSE "line"
<1>l. /\ line[p] \in Seq(Chars) /\ lineAt \in Nat /\ Len(line[p]) \in Nat
      /\ Len(line[p]) < MAX_LINE_SIZE - 1 /\ DOMAIN line[p] = 1 .. Len(line[p])
      /\ whole = p => LineGood(p)
  BY <1>0, LineFacts
<1>a. /\ l \in Seq(Chars) /\ Len(l) = Len(line[p]) + 1
      /\ l[Len(line[p]) + 1] = c /\ DOMAIN l = 1 .. Len(line[p]) + 1
      /\ \A j \in 1 .. Len(line[p]) : l[j] = line[p][j]
  BY <1>l
<1>b. line' = [line EXCEPT ![p] = l] /\ line'[p] = l /\ To(p, w)
  <2>1. line \in [Shells -> Seq(Chars)]
    BY DEF ConsoleInv, TypeOK
  <2> QED BY <2>1
<1> HIDE DEF l
<1>3. w \in {"prompt", "line", "run", "crlf"} /\ (w = "line" => ~LineFull(l))
  OBVIOUS
<1> HIDE DEF w
<1>4. ~con'.fault => con'.y <= Top + Slack(w)
  <2>1. Slack(w) \in 0 .. 2
    BY Slacks
  <2> QED BY <2>1, <1>0, <1>1, <1>2
<1>6. Len(l) <= MAX_LINE_SIZE - 1 /\ (w = "line" => Len(l) < MAX_LINE_SIZE - 1)
  BY <1>3, <1>a, <1>l, Sizes DEF LineFull
<1>7. lineAt' \in Nat /\ whole' \in {0, p} /\ (whole' = p => whole = p /\ lineAt' = lineAt)
  <2>1. p # 0
    BY DEF Shells
  <2> QED BY <2>1, <1>l DEF Spoil
<1>9. ASSUME whole' = p, ~con'.fault PROVE LineGood(p)'
  <2>1. /\ Row(con.y) + con.x = lineAt + Len(line[p])
        /\ \A j \in DOMAIN line[p] : con.vram[lineAt + j - 1] = line[p][j]
        /\ con.x < COLUMNS /\ lineAt >= COLUMNS /\ lineAt' = lineAt
    BY <1>l, <1>7, <1>9 DEF LineGood
  <2>2. /\ Row(con'.y) + con'.x = lineAt + Len(line[p]) + 1 /\ con'.x < COLUMNS
        /\ lineAt + Len(line[p]) \in 0 .. Cells - 1
        /\ con'.vram = [con.vram EXCEPT ![lineAt + Len(line[p])] = c]
    BY <1>1, <1>9, <2>1
  <2>3. con.vram \in [0 .. Cells - 1 -> Glyphs]
    BY <1>0, Fields
  <2>4. /\ con'.y * COLUMNS + con'.x = lineAt + Len(l)
        /\ lineAt + Len(l) <= Cells
    BY <2>2, <1>a, <1>l, Sizes DEF Row
  <2>5. ASSUME NEW j \in DOMAIN l PROVE con'.vram[lineAt + j - 1] = l[j]
    <3>1. CASE j = Len(line[p]) + 1
      <4>1. lineAt + j - 1 = lineAt + Len(line[p])
        BY <3>1, <1>l
      <4>2. con'.vram[lineAt + Len(line[p])] = c
        BY <2>2, <2>3
      <4> QED BY <4>1, <4>2, <3>1, <1>a
    <3>2. CASE j # Len(line[p]) + 1
      <4>1. j \in 1 .. Len(line[p])
        BY <3>2, <1>a, <1>l
      <4>2. lineAt + j - 1 \in 0 .. Cells - 1 /\ lineAt + j - 1 # lineAt + Len(line[p])
        BY <4>1, <2>2, <1>l, Sizes, SMTT(30)
      <4>3. con'.vram[lineAt + j - 1] = con.vram[lineAt + j - 1]
        BY <4>2, <2>2, <2>3
      <4>4. con.vram[lineAt + j - 1] = line[p][j] /\ l[j] = line[p][j]
        BY <4>1, <2>1, <1>a, <1>l
      <4> QED BY <4>3, <4>4
    <3> QED BY <3>1, <3>2
  <2> QED BY <2>1, <2>2, <2>4, <2>5, <1>b DEF LineGood, Row
<1>10. ConsoleInv'
  <2>1. /\ ~con'.fault /\ w = "line" => con'.y <= Top
        /\ UNCHANGED <<uy, kpc, kreg, kleft>> /\ uptime' = uptime
        /\ l \in Seq(Chars)
    BY <1>1, <1>a
  <2>2. shell[p] \notin {"off", "new"} /\ ~con.fault
    BY <1>0
  <2>3. con'.fault => Full(con'.y)
    BY <1>1
  <2>4. con' \in Consoles /\ con.y <= con'.y
    BY <1>1, <1>2
  <2>5. /\ ~con'.fault => \/ con'.y <= Top + Slack(w)
                          \/ con'.y + Slack(shell[p]) <= con.y + Slack(w)
        /\ ~con'.fault /\ w = "line" => con'.y <= Top \/ (shell[p] = "line" /\ con'.y = con.y)
    BY <1>4, <2>1
  <2>6. /\ uptime' = uptime \/ uptime' = "read"
        /\ whole' \in {0, p} \/ UNCHANGED <<con, whole, lineAt>>
        /\ w = "line" /\ whole' = p /\ ~con'.fault => LineGood(p)'
        /\ lineAt' \in Nat
    BY <1>7, <1>9, <2>1
  <2> QED BY <1>3, <1>6, <1>b, <2>1, <2>2, <2>3, <2>4, <2>5, <2>6, ShellLineStep, ZenonT(60)
<1> QED BY <1>1, <1>10

\* The column before x, as an unsigned int.
LEMMA Before ==
    ASSUME NEW x \in Words
    PROVE  (x - 1) % UInt \in Words /\ (x # 0 => (x - 1) % UInt = x - 1)
<1>1. UInt \in Nat /\ UInt > 0 /\ x \in Nat /\ x < UInt
  BY Sizes DEF Words
<1>2. CASE x = 0
  <2>1. (0 - 1) % UInt \in 0 .. UInt - 1
    BY <1>1
  <2> QED BY <2>1, <1>2 DEF Words
<1>3. CASE x # 0
  <2>1. x - 1 \in Nat /\ x - 1 < UInt
    BY <1>1, <1>3
  <2>2. (x - 1) % UInt = x - 1
    BY <1>1, <2>1, Cut
  <2> QED BY <1>1, <2>1, <2>2 DEF Words
<1> QED BY <1>2, <1>3

\* The console a backspace writes to: the cursor is one column back.
LEMMA Back ==
    ASSUME NEW s \in Consoles
    PROVE  LET k == update_cursor([s EXCEPT !.x = (@ - 1) % UInt])
           IN  /\ k \in Consoles /\ k.y = s.y /\ k.vram = s.vram /\ k.fault = s.fault
               /\ s.x # 0 => k.x = s.x - 1
<1> DEFINE n == (s.x - 1) % UInt
           b == [s EXCEPT !.x = n]
<1>1. n \in Words /\ (s.x # 0 => n = s.x - 1)
  BY Fields, Before
<1> HIDE DEF n
<1>2. b \in Consoles /\ b.x = n /\ b.y = s.y /\ b.vram = s.vram /\ b.fault = s.fault
  BY <1>1 DEF Consoles, Words
<1> HIDE DEF b
<1>3. /\ update_cursor(b) \in Consoles /\ update_cursor(b).x = n
      /\ update_cursor(b).y = s.y /\ update_cursor(b).vram = s.vram
      /\ update_cursor(b).fault = s.fault
  BY <1>2, Cursor
<1> QED BY <1>1, <1>3 DEF b, n

\* What get_line has read without its last character.
LEMMA Shorter ==
    ASSUME NEW l \in Seq(Chars), l # <<>>
    PROVE  /\ Front(l) \in Seq(Chars) /\ Len(Front(l)) = Len(l) - 1
           /\ DOMAIN Front(l) = 1 .. Len(l) - 1
           /\ \A j \in 1 .. Len(l) - 1 : Front(l)[j] = l[j]
<1>1. Len(l) \in Nat /\ Len(l) > 0
  OBVIOUS
<1>2. Front(l) = SubSeq(l, 1, Len(l) - 1)
  BY DEF Front
<1>3. Front(l) = [i \in 1 .. Len(l) - 1 |-> l[i]]
  <2>1. SubSeq(l, 1, Len(l) - 1) = [i \in 1 .. (1 + (Len(l) - 1) - 1) |-> l[i + 1 - 1]]
    BY <1>1
  <2>2. 1 + (Len(l) - 1) - 1 = Len(l) - 1
    BY <1>1
  <2>3. \A i \in 1 .. Len(l) - 1 : i + 1 - 1 = i
    OBVIOUS
  <2> QED BY <1>2, <2>1, <2>2, <2>3
<1>4. Len(l) - 1 \in Nat /\ \A i \in 1 .. Len(l) - 1 : l[i] \in Chars
  BY <1>1
<1> QED BY <1>3, <1>4

\* It overwrites the cell under the cursor.
LEMMA Erase ==
    ASSUME NEW k \in Consoles, NEW w, w = put_char_pos(k, Other, k.x, k.y)
    PROVE  /\ w \in Consoles /\ w.x = k.x /\ w.y = k.y
           /\ w.fault /\ ~k.fault => Full(k.y)
           /\ ~w.fault /\ k.y < UChar /\ k.x < UChar =>
                /\ Row(k.y) + k.x \in 0 .. Cells - 1
                /\ w.vram = [k.vram EXCEPT ![Row(k.y) + k.x] = Other]
<1>1. k.x \in Nat /\ k.y \in Nat /\ Other \in Glyphs
  BY Fields DEF Glyphs
<1> DEFINE x == k.x
           y == k.y
           v == put_char_pos(k, Other, x, y)
<1>2. x \in Nat /\ y \in Nat /\ w = v
  BY <1>1
<1> HIDE DEF x, y
<1>3. /\ v \in Consoles
      /\ v.x = k.x /\ v.y = k.y /\ v.cur = k.cur /\ v.start = k.start
      /\ k.fault => v.fault
      /\ v.fault /\ ~k.fault => Full(y)
      /\ ~v.fault /\ y < UChar => y < Top
      /\ ~v.fault /\ y < UChar /\ x < UChar =>
           /\ Row(y) + x \in 0 .. Cells - 1
           /\ v.vram = [k.vram EXCEPT ![Row(y) + x] = Other]
  BY <1>1, <1>2, CharPos
<1> HIDE DEF v
<1> QED BY <1>2, <1>3 DEF x, y

\* The cell before the end of the line.
LEMMA CellBefore ==
    ASSUME NEW p \in Shells, Row(con.y) \in Nat, con.x \in Nat, lineAt \in Nat, Len(line[p]) \in Nat,
           Row(con.y) + con.x = lineAt + Len(line[p]), NEW x, x = con.x - 1
    PROVE  Row(con.y) + x = lineAt + (Len(line[p]) - 1)
  OBVIOUS

\* A backspace: k is the console with the cursor moved back, l the line.
LEMMA BackStep ==
    ASSUME ConsoleInv, Running, NEW p \in Shells, shell[p] = "line",
           NEW k \in Consoles, k.y = con.y, k.vram = con.vram, k.fault = con.fault,
           con.x # 0 => k.x = con.x - 1,
           con' = put_char_pos(k, Other, k.x, k.y),
           Len(line[p]) > 0,
           NEW l \in Seq(Chars), Len(l) = Len(line[p]) - 1,
           DOMAIN l = 1 .. Len(line[p]) - 1,
           \A j \in 1 .. Len(line[p]) - 1 : l[j] = line[p][j],
           line' = [line EXCEPT ![p] = l],
           IF whole = p /\ con.x # 0 THEN UNCHANGED <<whole, lineAt>> ELSE Spoil,
           UNCHANGED <<shell, uptime, uy, kpc, kreg, kleft>>
    PROVE  ConsoleInv'
<1>0. /\ ~con.fault /\ con \in Consoles /\ con.y \in Nat /\ con.x \in Nat /\ con.y < UChar
      /\ con.x < UInt /\ Top \in Nat /\ Other \in Glyphs
  BY Bounds, Fields DEF Running, Glyphs
<1>5. k.x \in Nat
  BY Fields
<1>6. /\ con' \in Consoles /\ con'.x = k.x /\ con'.y = con.y
      /\ con'.fault => Full(con'.y)
      /\ ~con'.fault /\ k.x < UChar =>
           /\ Row(con.y) + k.x \in 0 .. Cells - 1
           /\ con'.vram = [con.vram EXCEPT ![Row(con.y) + k.x] = Other]
  <2>1. /\ con' \in Consoles /\ con'.x = k.x /\ con'.y = k.y
        /\ con'.fault /\ ~k.fault => Full(k.y)
        /\ ~con'.fault /\ k.y < UChar /\ k.x < UChar =>
             /\ Row(k.y) + k.x \in 0 .. Cells - 1
             /\ con'.vram = [k.vram EXCEPT ![Row(k.y) + k.x] = Other]
    BY Erase
  <2> QED BY <2>1, <1>0
<1>l. /\ line[p] \in Seq(Chars) /\ lineAt \in Nat /\ Len(line[p]) \in Nat
      /\ Len(line[p]) < MAX_LINE_SIZE - 1 /\ DOMAIN line[p] = 1 .. Len(line[p])
      /\ whole = p => LineGood(p)
  BY <1>0, LineFacts
<1>a. /\ line'[p] = l /\ Len(l) < MAX_LINE_SIZE - 1 /\ Len(l) <= MAX_LINE_SIZE - 1
      /\ \A j \in 1 .. Len(line[p]) - 1 : l[j] = line[p][j]
  <2>1. line \in [Shells -> Seq(Chars)]
    BY DEF ConsoleInv, TypeOK
  <2> QED BY <2>1, <1>l, Sizes
<1>b. To(p, "line")
  <2>1. shell \in [Shells -> Places]
    BY DEF ConsoleInv, TypeOK, Places
  <2> QED BY <2>1 DEF To
<1>7. /\ lineAt' \in Nat /\ whole' \in {0, p}
      /\ whole' = p => whole = p /\ lineAt' = lineAt /\ con.x # 0
  <2>1. p # 0
    BY DEF Shells
  <2> QED BY <2>1, <1>l DEF Spoil
<1>10. whole' = p => /\ LineGood(p) /\ k.x = con.x - 1 /\ con.x # 0 /\ con.x < COLUMNS
                     /\ k.x < COLUMNS /\ k.x < UChar
  <2> SUFFICES ASSUME whole' = p
               PROVE  /\ LineGood(p) /\ k.x = con.x - 1 /\ con.x # 0 /\ con.x < COLUMNS
                      /\ k.x < COLUMNS /\ k.x < UChar
    OBVIOUS
  <2>1. LineGood(p) /\ con.x # 0 /\ k.x = con.x - 1
    BY <1>7, <1>l
  <2>2. con.x < COLUMNS
    BY <2>1 DEF LineGood
  <2> QED BY <2>1, <2>2, <1>0, Sizes
<1>12. ASSUME whole' = p, ~con'.fault PROVE LineGood(p)'
  <2>1. /\ Row(con.y) + con.x = lineAt + Len(line[p])
        /\ \A j \in DOMAIN line[p] : con.vram[lineAt + j - 1] = line[p][j]
        /\ lineAt >= COLUMNS /\ lineAt + Len(line[p]) <= Cells /\ lineAt' = lineAt
    BY <1>7, <1>10, <1>12 DEF LineGood
  <2>2. Row(con.y) \in Nat
    BY <1>0, Rows
  <2>3. /\ Row(con.y) + k.x = lineAt + (Len(line[p]) - 1)
        /\ con'.x = k.x /\ con'.y = con.y
    <3>1. k.x = con.x - 1 /\ con.x # 0
      BY <1>10, <1>12
    <3>2. lineAt \in Nat /\ Len(line[p]) \in Nat
      BY <1>l
    <3>3. Row(con.y) + con.x = lineAt + Len(line[p]) /\ con.x \in Nat
      BY <2>1, <1>0
    <3>4. Row(con.y) + k.x = lineAt + (Len(line[p]) - 1)
      BY <3>1, <3>2, <3>3, <2>2, CellBefore
    <3> QED BY <3>4, <1>6
  <2>4. /\ lineAt + (Len(line[p]) - 1) \in 0 .. Cells - 1
        /\ con'.vram = [con.vram EXCEPT ![lineAt + (Len(line[p]) - 1)] = Other]
        /\ con'.x < COLUMNS
    BY <1>6, <1>10, <1>12, <2>3
  <2>5. con.vram \in [0 .. Cells - 1 -> Glyphs]
    BY <1>0, Fields
  <2>6. /\ con'.y * COLUMNS + con'.x = lineAt + Len(l)
        /\ lineAt + Len(l) <= Cells
    BY <2>1, <2>3, <1>l, Sizes DEF Row
  <2>7. ASSUME NEW j \in DOMAIN l PROVE con'.vram[lineAt + j - 1] = l[j]
    <3>1. j \in 1 .. Len(line[p]) - 1 /\ j \in 1 .. Len(line[p])
      BY <1>l
    <3>2. lineAt + j - 1 \in 0 .. Cells - 1 /\ lineAt + j - 1 # lineAt + (Len(line[p]) - 1)
      BY <3>1, <2>4, <1>l, Sizes, SMTT(30)
    <3>3. con'.vram[lineAt + j - 1] = con.vram[lineAt + j - 1]
      BY <3>2, <2>4, <2>5
    <3>4. con.vram[lineAt + j - 1] = line[p][j] /\ l[j] = line[p][j]
      BY <3>1, <2>1, <1>a, <1>l
    <3> QED BY <3>3, <3>4
  <2> QED BY <2>1, <2>4, <2>6, <2>7, <1>a DEF LineGood, Row
<1>13. con.y <= con'.y /\ con'.y = con.y /\ con'.y + Slack(shell[p]) <= con.y + Slack("line")
  <2>1. Slack("line") = 0
    BY Slacks
  <2> QED BY <2>1, <1>0, <1>6
<1> DEFINE w == "line"
<1>14. w \in {"prompt", "line", "run", "crlf"} /\ w = "line"
  OBVIOUS
<1> HIDE DEF w
<1>15. /\ shell[p] \notin {"off", "new"} /\ ~con.fault /\ To(p, w)
       /\ con'.y + Slack(shell[p]) <= con.y + Slack(w)
  BY <1>0, <1>b, <1>13, <1>14
<1> QED BY <1>6, <1>7, <1>12, <1>13, <1>14, <1>15, <1>a, ShellLineStep

\* The end of the line.
LEMMA EndStep ==
    ASSUME ConsoleInv, Running, NEW p \in Shells, shell[p] = "line",
           con' = put_char(put_char(con, "LF"), "CR"),
           To(p, IF line[p] = <<>> THEN "prompt" ELSE "run"), Spoil,
           UNCHANGED <<line, uptime, uy, kpc, kreg, kleft>>
    PROVE  ConsoleInv'
<1> DEFINE l == put_char(con, "LF")
           w == IF line[p] = <<>> THEN "prompt" ELSE "run"
<1>0. /\ ~con.fault /\ con \in Consoles /\ con.y \in Nat /\ con.y < UChar
  BY Bounds DEF Running
<1>1. l \in Consoles /\ l.y = con.y + 1 /\ ~l.fault
  BY <1>0, PutControl
<1>w. w \in {"prompt", "run", "crlf"} /\ w \in {"prompt", "run"} /\ To(p, w)
  OBVIOUS
<1> HIDE DEF l, w
<1>2. con' = put_char(l, "CR")
  BY DEF l
<1>3. con' \in Consoles /\ con'.y = con.y + 1 /\ ~con'.fault
  BY <1>1, <1>2, PutControl
<1>4. con.y <= con'.y /\ con'.y + Slack(shell[p]) <= con.y + Slack(w)
  <2>1. Slack("line") = 0 /\ Slack(w) \in {1, 2}
    BY <1>w, Slacks
  <2> QED BY <2>1, <1>0, <1>3
<1>5. shell[p] \notin {"off", "new"}
  OBVIOUS
<1> QED BY <1>0, <1>3, <1>4, <1>5, <1>w, LeaveLine

\* get_line as a whole.
LEMMA GetLineStep ==
    ASSUME ConsoleInv, NEW p \in Shells, NEW c \in Chars \cup {"BS", "LF"}, get_line(p, c)
    PROVE  ConsoleInv'
<1>0. Running /\ shell[p] = "line" /\ UNCHANGED <<uptime, uy, kpc, kreg, kleft>>
  BY DEF get_line
<1>1. CASE /\ c = "BS" /\ line[p] # <<>>
           /\ con' = LET back == update_cursor([con EXCEPT !.x = (@ - 1) % UInt])
                     IN  put_char_pos(back, Other, back.x, back.y)
           /\ line' = [line EXCEPT ![p] = Front(@)]
           /\ IF whole = p /\ con.x # 0 THEN UNCHANGED <<whole, lineAt>> ELSE Spoil
           /\ UNCHANGED shell
  <2> DEFINE k == update_cursor([con EXCEPT !.x = (@ - 1) % UInt])
  <2>1. line \in [Shells -> Seq(Chars)] /\ line[p] \in Seq(Chars) /\ con \in Consoles
    BY DEF ConsoleInv, TypeOK
  <2>2. /\ k \in Consoles /\ k.y = con.y /\ k.vram = con.vram /\ k.fault = con.fault
        /\ con.x # 0 => k.x = con.x - 1
    BY <2>1, Back
  <2>3. con' = put_char_pos(k, Other, k.x, k.y)
    BY <1>1
  <2> HIDE DEF k
  <2> DEFINE l == Front(line[p])
  <2>4. /\ l \in Seq(Chars) /\ Len(l) = Len(line[p]) - 1
        /\ DOMAIN l = 1 .. Len(line[p]) - 1
        /\ \A j \in 1 .. Len(line[p]) - 1 : l[j] = line[p][j]
    BY <1>1, <2>1, Shorter
  <2>5. Len(line[p]) > 0 /\ line' = [line EXCEPT ![p] = l]
    BY <1>1, <2>1
  <2> HIDE DEF l
  <2>6. IF whole = p /\ con.x # 0 THEN UNCHANGED <<whole, lineAt>> ELSE Spoil
    BY <1>1
  <2>7. UNCHANGED <<shell, uptime, uy, kpc, kreg, kleft>>
    BY <1>0, <1>1
  <2> QED BY <1>0, <2>2, <2>3, <2>4, <2>5, <2>6, <2>7, BackStep
<1>2. CASE /\ c = "LF" /\ con' = put_char(put_char(con, "LF"), "CR")
           /\ To(p, IF line[p] = <<>> THEN "prompt" ELSE "run")
           /\ Spoil /\ UNCHANGED line
  BY <1>0, <1>2, EndStep
<1>3. CASE /\ c \in Chars /\ con' = put_char(con, c)
           /\ line' = [line EXCEPT ![p] = Append(@, c)]
           /\ To(p, IF LineFull(line'[p]) THEN "run" ELSE "line")
           /\ IF whole = p THEN UNCHANGED <<whole, lineAt>> ELSE Spoil
  BY <1>0, <1>3, CharStep
<1> QED BY <1>1, <1>2, <1>3 DEF get_line

----------------------------------------------------------------------------
(***************************************************************************)
(* uptime.                                                                 *)
(***************************************************************************)
\* The row of the clock is not below the cursor.
LEMMA ClockRow ==
    ASSUME NEW y \in Nat, uy \in Nat, uy <= y, y < UChar
    PROVE  /\ TopRow(uy) \in Nat /\ TopRow(uy) < UChar
           /\ Full(TopRow(uy)) => Full(y)
<1>1. TopRow(uy) \in Nat /\ TopRow(uy) <= y /\ TopRow(uy) < UChar
  BY Sizes DEF TopRow
<1>2. Row(TopRow(uy)) <= Row(y) /\ Row(TopRow(uy)) \in Nat /\ Row(y) \in Nat
  BY <1>1, Rows
<1> QED BY <1>1, <1>2, Sizes DEF Full

\* The line is below the row of the clock.
LEMMA ClockAbove ==
    ASSUME ConsoleInv, ~con.fault, NEW p \in Shells, shell[p] = "line", whole = p,
           uptime \in {"label", "digits"}
    PROVE  Row(TopRow(uy) + 1) <= lineAt
<1>1. /\ lineAt \in Nat /\ Len(line[p]) \in Nat /\ Len(line[p]) < MAX_LINE_SIZE - 1
      /\ Row(con.y) + con.x = lineAt + Len(line[p]) /\ lineAt >= COLUMNS
  BY LineFacts DEF LineGood
<1>2. uy \in Nat /\ uy <= con.y /\ con.y \in Nat /\ con.x \in Nat
  BY Bounds, Sizes DEF ConsoleInv, TypeOK, UptimeOK
<1>3. Row(uy) <= Row(con.y) /\ Row(uy) \in Nat /\ Row(con.y) \in Nat
  BY <1>2, Rows
<1>4. CASE uy < ROWS
  <2>1. TopRow(uy) + 1 = 1
    BY <1>4 DEF TopRow
  <2>2. Row(1) = COLUMNS
    BY Sizes DEF Row
  <2> QED BY <2>1, <2>2, <1>1
<1>5. CASE ~(uy < ROWS)
  <2> DEFINE a == uy - ROWS + 1
             b == ROWS - 1
  <2>1. a \in Nat /\ b \in Nat /\ a + b = uy /\ TopRow(uy) + 1 = a + 1
    BY <1>2, <1>5, Sizes DEF TopRow
  <2>2. Row(b) > (COLUMNS - 1) + (MAX_LINE_SIZE - 1)
    BY ConsoleAssumption DEF Row
  <2> HIDE DEF a, b
  <2>3. Row(a + b) = Row(a) + Row(b)
    BY <2>1, Sizes DEF Row
  <2>4. Row(a + 1) = Row(a) + COLUMNS /\ Row(a) \in Nat /\ Row(b) \in Nat
    BY <2>1, Rows
  <2>5. Row(uy) = Row(a) + Row(b)
    BY <2>1, <2>3
  <2>6. Row(a) + COLUMNS <= lineAt
    BY <1>1, <1>2, <1>3, <2>2, <2>4, <2>5, Sizes, SMTT(30)
  <2> QED BY <2>1, <2>4, <2>6
<1> QED BY <1>4, <1>5

\* A step of uptime: the cursor stays, and so do the cells of the line.
LEMMA UptimeStep ==
    ASSUME ConsoleInv, ~con.fault, uptime # "off", con' \in Consoles,
           con'.x = con.x, con'.y = con.y, con'.fault => Full(con.y),
           \A p \in Shells : shell[p] = "line" /\ whole = p /\ ~con'.fault =>
               \A j \in DOMAIN line[p] :
                   con'.vram[lineAt + j - 1] = con.vram[lineAt + j - 1],
           uptime' \in {"read", "label", "digits", "asleep"},
           uy' \in 0 .. UInt - 1, ~con'.fault /\ uptime' \in {"label", "digits"} => uy' <= con.y,
           UNCHANGED <<shell, line, kpc, kreg, kleft, whole, lineAt>>
    PROVE  ConsoleInv'
<1>3. ReachOK' /\ KernelOK' /\ con'.y >= 2 /\ FaultsOnlyAtTheEnd'
  BY StillStep
<1>4. TypeOK'
  BY DEF ConsoleInv, TypeOK
<1>5. StartOK' /\ UptimeOK'
  BY DEF ConsoleInv, StartOK, UptimeOK
<1>6. ASSUME NEW p \in Shells
      PROVE  /\ shell'[p] = "line" => Len(line'[p]) < MAX_LINE_SIZE - 1
             /\ shell'[p] = "line" /\ whole' = p /\ ~con'.fault => LineGood(p)'
  <2>1. shell[p] = "line" => Len(line[p]) < MAX_LINE_SIZE - 1
    BY LineFacts
  <2>2. ASSUME shell[p] = "line", whole = p, ~con'.fault PROVE LineGood(p)'
    <3>1. LineGood(p)
      BY <2>2, LineFacts
    <3>2. \A j \in DOMAIN line[p] : con'.vram[lineAt + j - 1] = con.vram[lineAt + j - 1]
      BY <2>2
    <3> QED BY <3>1, <3>2 DEF LineGood, Row
  <2> QED BY <2>1, <2>2
<1>7. LineOK' /\ LineOnScreen'
  BY <1>6 DEF LineOK, LineOnScreen, LineGood, Row
<1> QED BY <1>3, <1>4, <1>5, <1>7 DEF ConsoleInv

\* Reading the cursor, and waking up.
LEMMA ReadStep == ASSUME ConsoleInv, uptime_read \/ uptime_wakeup PROVE ConsoleInv'
<1>1. con \in Consoles /\ con.y \in Words /\ uy \in Words /\ con.y \in Nat
  BY Fields DEF ConsoleInv, TypeOK, Words
<1>2. CASE uptime_read
  <2>1. /\ ~con.fault /\ uptime = "read" /\ uy' = con.y /\ uptime' = "label"
        /\ UNCHANGED <<con, shell, line, kpc, kreg, kleft, whole, lineAt>>
    BY <1>2 DEF uptime_read, Running
  <2>2. uy' \in 0 .. UInt - 1 /\ uy' <= con.y
    BY <2>1, <1>1 DEF Words
  <2> QED BY <2>1, <2>2, <1>1, UptimeStep
<1>3. CASE uptime_wakeup
  BY <1>1, <1>3, UptimeStep DEF uptime_wakeup, Running, Words
<1> QED BY <1>2, <1>3

\* A string inside a row leaves the rows below it alone.
LEMMA DrawPos ==
    ASSUME NEW s \in Consoles, ~s.fault, NEW n \in Nat, NEW x \in Nat, NEW y \in Nat,
           y < UChar, x + n <= COLUMNS, NEW w, w = put_str_pos(s, Other, n, x, y)
    PROVE  /\ w \in Consoles /\ w.x = s.x /\ w.y = s.y /\ (w.fault => Full(y))
           /\ ~w.fault => \A p \in 0 .. Cells - 1 : p >= Row(y + 1) => w.vram[p] = s.vram[p]
<1>1. Other \in Glyphs
  BY DEF Glyphs
<1> DEFINE v == put_str_pos(s, Other, n, x, y)
<1>2. /\ v \in Consoles
      /\ v.x = s.x /\ v.y = s.y /\ v.cur = s.cur /\ v.start = s.start
      /\ v.fault => Full(y)
      /\ ~v.fault /\ y < UChar /\ x + n <= COLUMNS =>
           \A p \in 0 .. Cells - 1 : p >= Row(y + 1) => v.vram[p] = s.vram[p]
  BY <1>1, StrPos, Z3
<1>3. w = v
  OBVIOUS
<1> HIDE DEF v
<1> QED BY <1>2, <1>3

\* Drawing the label or the digits of the clock.
LEMMA DrawStep ==
    ASSUME ConsoleInv, ~con.fault, uptime \in {"label", "digits"},
           NEW n \in Nat, NEW x \in Nat, x + n <= COLUMNS,
           con' = put_str_pos(con, Other, n, x, TopRow(uy)),
           uptime' \in {"digits", "asleep"}, uy' \in {0, uy},
           UNCHANGED <<shell, line, kpc, kreg, kleft, whole, lineAt>>
    PROVE  ConsoleInv'
<1>1. /\ con \in Consoles /\ con.y \in Nat /\ con.y < UChar
  BY Bounds
<1>2. uy \in Nat /\ uy \in Words /\ uy <= con.y
  BY Sizes DEF ConsoleInv, TypeOK, UptimeOK, Words
<1>3. /\ TopRow(uy) \in Nat /\ TopRow(uy) < UChar
      /\ Full(TopRow(uy)) => Full(con.y)
  BY <1>1, <1>2, ClockRow
<1>4. /\ con' \in Consoles /\ con'.x = con.x /\ con'.y = con.y
      /\ con'.fault => Full(TopRow(uy))
      /\ ~con'.fault => \A p \in 0 .. Cells - 1 :
                           p >= Row(TopRow(uy) + 1) => con'.vram[p] = con.vram[p]
  BY <1>1, <1>3, DrawPos
<1>5. ASSUME NEW p \in Shells, shell[p] = "line", whole = p, ~con'.fault,
             NEW j \in DOMAIN line[p]
      PROVE  con'.vram[lineAt + j - 1] = con.vram[lineAt + j - 1]
  <2>1. /\ lineAt \in Nat /\ Len(line[p]) \in Nat /\ j \in 1 .. Len(line[p])
        /\ Len(line[p]) > 0 => lineAt + Len(line[p]) <= Cells
    BY <1>5, LineFacts DEF LineGood
  <2>2. Row(TopRow(uy) + 1) <= lineAt
    BY <1>5, ClockAbove
  <2>3. Row(TopRow(uy) + 1) \in Nat
    BY <1>3, Rows
  <2>4. lineAt + j - 1 \in 0 .. Cells - 1 /\ lineAt + j - 1 >= Row(TopRow(uy) + 1)
    BY <2>1, <2>2, <2>3, Sizes, SMTT(30)
  <2> QED BY <2>4, <1>4, <1>5
<1>6. uy' \in 0 .. UInt - 1 /\ uy' <= con.y
  BY <1>1, <1>2, Sizes DEF Words
<1> QED BY <1>3, <1>4, <1>5, <1>6, UptimeStep

\* The two system calls that draw the clock.
LEMMA ClockStep == ASSUME ConsoleInv, uptime_label \/ uptime_digits PROVE ConsoleInv'
<1>1. /\ LabelLen \in Nat /\ Digits \in Nat /\ COLUMNS - Digits \in Nat
      /\ COLUMNS - (LabelLen + Digits) \in Nat
      /\ (COLUMNS - Digits) + Digits <= COLUMNS
      /\ (COLUMNS - (LabelLen + Digits)) + LabelLen <= COLUMNS
  BY Sizes
<1>2. CASE uptime_label
  <2>1. /\ ~con.fault /\ uptime = "label" /\ uptime' = "digits" /\ uy' = uy
        /\ con' = put_str_pos(con, Other, LabelLen, COLUMNS - (LabelLen + Digits), TopRow(uy))
        /\ UNCHANGED <<shell, line, kpc, kreg, kleft, whole, lineAt>>
    BY <1>2 DEF uptime_label, Running
  <2> QED BY <2>1, <1>1, DrawStep
<1>3. CASE uptime_digits
  <2>1. /\ ~con.fault /\ uptime = "digits" /\ uptime' = "asleep" /\ uy' = 0
        /\ con' = put_str_pos(con, Other, Digits, COLUMNS - Digits, TopRow(uy))
        /\ UNCHANGED <<shell, line, kpc, kreg, kleft, whole, lineAt>>
    BY <1>3 DEF uptime_digits, dump_hex_pos, Running
  <2> QED BY <2>1, <1>1, DrawStep
<1> QED BY <1>2, <1>3

----------------------------------------------------------------------------
(***************************************************************************)
(* The kernel task.                                                        *)
(***************************************************************************)
\* What a step of put_char in the kernel task has to show: a store to the
\* screen or to cursor_pos marks the line, and nothing else changes them.
LEMMA KernelStep ==
    ASSUME ConsoleInv, KernelRuns, con' \in Consoles, con'.y >= 2,
           con'.fault => Full(con'.y), ~con'.fault => con'.y <= Top + KernelSlack',
           KernelOK', kreg' \in [x : Words, y : Words, nl : BOOLEAN],
           kpc' \in {"idle", "cell", "cmp", "loadx", "storex", "clearx",
                     "loady", "storey", "addr", "cur", "start", "setstart"},
           kleft' \in 0 .. KMax,
           \/ Spoil
           \/ /\ UNCHANGED <<whole, lineAt>> /\ con'.x = con.x /\ con'.y = con.y
              /\ con'.vram = con.vram /\ con'.fault = con.fault,
           UNCHANGED <<shell, line, uptime, uy>>
    PROVE  ConsoleInv'
<1>1. ~con.fault /\ uptime \notin {"label", "digits"}
  BY DEF KernelRuns, Running
<1>2. TypeOK'
  BY DEF ConsoleInv, TypeOK, Words, Spoil
<1>3. ReachOK'
  <2>1. ShellSlack' = ShellSlack /\ ShellSlack \in 0 .. 4 /\ Top \in Nat /\ con'.y \in Nat
    BY <1>1, Bounds, Fields DEF ShellSlack
  <2>2. KernelSlack' \in 0 .. 2
    BY DEF KernelSlack
  <2>3. ~con'.fault => con'.y <= Top + KernelSlack' + ShellSlack'
    BY <2>1, <2>2
  <2> QED BY <2>3 DEF ReachOK, Top
<1>4. StartOK' /\ UptimeOK'
  BY <1>1 DEF ConsoleInv, StartOK, UptimeOK
<1>5. FaultsOnlyAtTheEnd'
  BY DEF FaultsOnlyAtTheEnd, Full, Row
<1>6. ASSUME NEW p \in Shells
      PROVE  /\ shell'[p] = "line" => Len(line'[p]) < MAX_LINE_SIZE - 1
             /\ shell'[p] = "line" /\ whole' = p /\ ~con'.fault => LineGood(p)'
  <2>1. /\ shell[p] = "line" => Len(line[p]) < MAX_LINE_SIZE - 1
        /\ shell[p] = "line" /\ whole = p => LineGood(p)
    BY <1>1, LineFacts
  <2>2. ASSUME shell[p] = "line", whole' = p PROVE LineGood(p)'
    <3>1. ~Spoil
      BY <2>2 DEF Spoil, Shells
    <3>2. /\ UNCHANGED <<whole, lineAt>> /\ con'.x = con.x /\ con'.y = con.y
          /\ con'.vram = con.vram
      BY <3>1
    <3>3. LineGood(p)
      BY <2>1, <2>2, <3>2
    <3> QED BY <3>2, <3>3 DEF LineGood, Row
  <2> QED BY <2>1, <2>2
<1>7. LineOK' /\ LineOnScreen'
  BY <1>6 DEF LineOK, LineOnScreen, LineGood, Row
<1> QED BY <1>2, <1>3, <1>4, <1>5, <1>7 DEF ConsoleInv

\* The facts every step of the kernel task starts from.
LEMMA KernelFacts ==
    ASSUME ConsoleInv, KernelRuns
    PROVE  /\ con \in Consoles /\ ~con.fault /\ con.y \in Nat /\ con.y >= 2
           /\ con.x \in Nat /\ con.x \in Words /\ con.y \in Words
           /\ Top \in Nat /\ Top + 6 < UChar /\ UChar \in Nat /\ UChar < UInt /\ UInt \in Nat
           /\ Waiting /\ con.y <= Top + KernelSlack
           /\ kreg \in [x : Words, y : Words, nl : BOOLEAN]
           /\ kreg.y \in Nat /\ kreg.x \in Nat /\ kleft \in 0 .. KMax
           /\ 0 \in Words
<1>1. ~con.fault /\ Waiting
  BY DEF KernelRuns, Running, Waiting
<1>2. /\ kreg \in [x : Words, y : Words, nl : BOOLEAN] /\ kleft \in 0 .. KMax
  BY DEF ConsoleInv, TypeOK, Words
<1>3. kreg.x \in Words /\ kreg.y \in Words
  BY <1>2
<1>4. kreg.x \in Nat /\ kreg.y \in Nat /\ 0 \in Words
  BY <1>3, Sizes DEF Words
<1> QED BY <1>1, <1>2, <1>4, Bounds, Fields, Sizes

\* Steps that leave the console alone.
LEMMA QuietStep ==
    ASSUME ConsoleInv, KernelRuns,
           con.y <= Top + KernelSlack', KernelOK',
           kreg' \in [x : Words, y : Words, nl : BOOLEAN],
           kpc' \in {"idle", "cell", "cmp", "loadx", "storex", "clearx",
                     "loady", "storey", "addr", "cur", "start", "setstart"},
           kleft' \in 0 .. KMax,
           UNCHANGED <<con, shell, line, uptime, uy, whole, lineAt>>
    PROVE  ConsoleInv'
<1>1. con' \in Consoles /\ con'.y >= 2 /\ ~con'.fault
  BY KernelFacts
<1>2. con'.y <= Top + KernelSlack'
  OBVIOUS
<1>3. /\ UNCHANGED <<whole, lineAt>> /\ con'.x = con.x /\ con'.y = con.y
      /\ con'.vram = con.vram /\ con'.fault = con.fault
  OBVIOUS
<1> QED BY <1>1, <1>2, <1>3, KernelStep

\* The next character.
LEMMA PrintkStep == ASSUME ConsoleInv, printk PROVE ConsoleInv'
<1>0. /\ KernelRuns /\ kpc = "idle" /\ kleft > 0 /\ kleft' = kleft - 1
      /\ UNCHANGED <<con, shell, line, uptime, uy, whole, lineAt>>
  BY DEF printk, Goto
<1>1. /\ con.y \in Nat /\ con.x \in Words /\ con.y \in Words /\ Top \in Nat
      /\ kreg \in [x : Words, y : Words, nl : BOOLEAN]
      /\ kleft \in 0 .. KMax /\ con.y <= Top + KernelSlack /\ ~con.fault
  BY <1>0, KernelFacts
<1>2. kleft' \in 0 .. KMax
  BY <1>0, <1>1, Sizes
<1>3. CASE kpc' = "cell" /\ kreg' = [x |-> con.x, y |-> con.y, nl |-> FALSE]
  <2>1. /\ kreg' \in [x : Words, y : Words, nl : BOOLEAN]
        /\ kreg'.y = con.y /\ kreg'.nl = FALSE
    BY <1>1, <1>3
  <2>2. KernelSlack' = 2 /\ KernelSlack \in {1, 2}
    BY <1>0, <1>3 DEF KernelSlack
  <2>3. con.y <= Top + 2
    BY <1>1, <2>2
  <2>4. KernelOK'
    BY <1>0, <1>1, <1>3, <2>1, <2>3 DEF KernelOK, Top
  <2> QED BY <1>0, <1>2, <1>3, <2>1, <2>2, <2>3, <2>4, QuietStep
<1>4. CASE kpc' = "loady" /\ ~kreg.nl /\ kreg' = [kreg EXCEPT !.nl = TRUE]
  <2>1. kreg' \in [x : Words, y : Words, nl : BOOLEAN] /\ kreg'.nl = TRUE
    BY <1>1, <1>4
  <2>2. KernelSlack' = 1 /\ KernelSlack = 1
    BY <1>0, <1>4, <2>1 DEF KernelSlack
  <2>3. KernelOK'
    BY <1>4 DEF KernelOK
  <2> QED BY <1>0, <1>1, <1>2, <1>4, <2>1, <2>2, <2>3, QuietStep
<1> QED BY <1>3, <1>4 DEF printk, Goto

\* Addresses fit into the registers.
LEMMA Addresses ==
    ASSUME NEW s \in Consoles
    PROVE  CursorAddress(s) \in Words /\ StartAddress(s) \in Words
<1>1. update_cursor(s) \in Consoles
  BY Cursor
<1>2. update_cursor(s).cur = CursorAddress(s) /\ update_cursor(s).start = StartAddress(s)
  BY DEF update_cursor, Consoles
<1> QED BY <1>1, <1>2, Fields

\* Loads and comparisons.
LEMMA LoadStep == ASSUME ConsoleInv, kernel_load PROVE ConsoleInv'
<1> DEFINE Regs == [x : Words, y : Words, nl : BOOLEAN]
<1>0. /\ KernelRuns /\ UNCHANGED <<con, shell, line, uptime, uy, kleft, whole, lineAt>>
  BY DEF kernel_load, Goto
<1>1. /\ con \in Consoles /\ con.y \in Nat /\ con.x \in Nat /\ con.y >= 2 /\ Top \in Nat
      /\ Top + 6 < UChar /\ UChar \in Nat /\ UChar < UInt /\ UInt \in Nat
      /\ kreg \in Regs /\ kleft \in 0 .. KMax /\ con.y <= Top + KernelSlack
      /\ ~con.fault /\ 0 \in Words
  BY <1>0, KernelFacts
<1>2. kreg.nl \in BOOLEAN /\ KernelOK
  BY <1>1 DEF ConsoleInv
<1>3. CASE kpc = "cmp" /\ kpc' \in {"loadx", "clearx"} /\ kreg' = kreg
  <2>1. ~kreg.nl
    BY <1>2, <1>3 DEF KernelOK
  <2>2. KernelSlack' = KernelSlack
    BY <1>3, <2>1 DEF KernelSlack
  <2>3. KernelOK'
    BY <1>3, <2>1 DEF KernelOK
  <2> QED BY <1>0, <1>1, <1>3, <2>2, <2>3, QuietStep
<1>4. CASE kpc = "loadx" /\ kpc' = "storex" /\ kreg' = [kreg EXCEPT !.x = (con.x + 1) % UInt]
  <2>1. (con.x + 1) % UInt \in Words
    <3>1. con.x + 1 \in Nat
      BY <1>1
    <3> QED BY <3>1, Sizes, Cut DEF Words
  <2>2. kreg' \in Regs /\ kreg'.nl = kreg.nl
    BY <1>1, <1>4, <2>1
  <2>3. ~kreg.nl
    BY <1>2, <1>4 DEF KernelOK
  <2>4. KernelSlack' = KernelSlack
    BY <1>4, <2>2, <2>3 DEF KernelSlack
  <2>5. KernelOK'
    BY <1>4, <2>2, <2>3 DEF KernelOK
  <2> QED BY <1>0, <1>1, <1>4, <2>2, <2>4, <2>5, QuietStep
<1>5. CASE kpc = "loady" /\ kpc' = "storey" /\ kreg' = [kreg EXCEPT !.y = (con.y + 1) % UInt]
  <2>1. KernelSlack = IF kreg.nl THEN 1 ELSE 0
    BY <1>5 DEF KernelSlack
  <2>2. con.y + 1 \in Nat /\ con.y + 1 < UInt /\ con.y + 1 >= 2
    <3>1. con.y <= Top + 1
      BY <1>1, <2>1
    <3> QED BY <3>1, <1>1
  <2>3. (con.y + 1) % UInt = con.y + 1 /\ con.y + 1 \in Words
    BY <2>2, Sizes, Cut DEF Words
  <2>4. kreg' \in Regs /\ kreg'.nl = kreg.nl /\ kreg'.y = con.y + 1
    BY <1>1, <1>5, <2>3
  <2>5. KernelSlack' = KernelSlack
    BY <1>5, <2>4 DEF KernelSlack
  <2>6. con.y + 1 <= Top + (IF kreg.nl THEN 2 ELSE 1)
    BY <1>1, <1>2, <2>1
  <2>7. KernelOK'
    BY <1>5, <2>2, <2>4, <2>6 DEF KernelOK, Top
  <2> QED BY <1>0, <1>1, <1>5, <2>4, <2>5, <2>7, QuietStep
<1>6. CASE \/ kpc = "addr" /\ kpc' = "cur" /\ kreg' = [kreg EXCEPT !.x = CursorAddress(con)]
           \/ kpc = "start" /\ kpc' = "setstart" /\ kreg' = [kreg EXCEPT !.x = StartAddress(con)]
           \/ kpc = "start" /\ kpc' = "idle" /\ kreg' = Clear(kreg)
  <2>1. kreg' \in Regs /\ kreg'.nl = kreg.nl
    BY <1>1, <1>6, Addresses DEF Clear
  <2>2. KernelSlack' = KernelSlack
    BY <1>6, <2>1 DEF KernelSlack
  <2>3. KernelOK'
    BY <1>6 DEF KernelOK
  <2> QED BY <1>0, <1>1, <1>6, <2>1, <2>2, <2>3, QuietStep
<1> QED BY <1>3, <1>4, <1>5, <1>6 DEF kernel_load, Goto

\* The locked writes to the CRT controller.
LEMMA CrtcStep == ASSUME ConsoleInv, kernel_crtc PROVE ConsoleInv'
<1> DEFINE Regs == [x : Words, y : Words, nl : BOOLEAN]
<1>0. /\ KernelRuns /\ UNCHANGED <<shell, line, uptime, uy, kleft, whole, lineAt>>
      /\ kreg' = Clear(kreg)
  BY DEF kernel_crtc, Goto
<1>1. /\ con \in Consoles /\ con.y >= 2 /\ kreg \in Regs /\ kleft \in 0 .. KMax
      /\ con.y <= Top + KernelSlack /\ ~con.fault /\ 0 \in Words
  BY <1>0, KernelFacts
<1>2. kreg' \in Regs /\ kreg'.nl = kreg.nl
  BY <1>0, <1>1 DEF Clear
<1>3. /\ \/ kpc = "cur" /\ kpc' = "start"
         \/ kpc = "setstart" /\ kpc' = "idle"
      /\ con' = [con EXCEPT !.cur = kreg.x] \/ con' = [con EXCEPT !.start = kreg.x]
  BY DEF kernel_crtc, Goto
<1>4. /\ con' \in Consoles /\ con'.x = con.x /\ con'.y = con.y
      /\ con'.vram = con.vram /\ con'.fault = con.fault
  BY <1>1, <1>3 DEF Consoles, Words
<1>5. KernelSlack' = KernelSlack
  BY <1>2, <1>3 DEF KernelSlack
<1>6. KernelOK'
  BY <1>3 DEF KernelOK
<1> QED BY <1>0, <1>1, <1>2, <1>3, <1>4, <1>5, <1>6, KernelStep

\* A store to the screen.
LEMMA CellStore ==
    ASSUME NEW s \in Consoles, ~s.fault, NEW x \in Nat, NEW y \in Nat,
           NEW w, w = put_char_pos(s, Other, x, y)
    PROVE  /\ w \in Consoles /\ w.y = s.y /\ (w.fault => Full(y))
           /\ ~w.fault /\ y < UChar => y < Top
<1>1. Other \in Glyphs
  BY DEF Glyphs
<1> DEFINE v == put_char_pos(s, Other, x, y)
<1>2. /\ v \in Consoles
      /\ v.x = s.x /\ v.y = s.y /\ v.cur = s.cur /\ v.start = s.start
      /\ s.fault => v.fault
      /\ v.fault /\ ~s.fault => Full(y)
      /\ ~v.fault /\ y < UChar => y < Top
      /\ ~v.fault /\ y < UChar /\ x < UChar =>
           /\ Row(y) + x \in 0 .. Cells - 1
           /\ v.vram = [s.vram EXCEPT ![Row(y) + x] = Other]
  BY <1>1, CharPos
<1> HIDE DEF v
<1>3. w = v
  BY DEF v
<1> QED BY <1>2, <1>3

\* A store of cursor_pos.
LEMMA CursorStore ==
    ASSUME ConsoleInv, KernelRuns, con' \in Consoles, con'.y >= 2, ~con'.fault,
           con'.y <= Top + KernelSlack', kreg' = Clear(kreg),
           kpc' \in {"addr", "loady", "clearx"}, Spoil,
           UNCHANGED <<shell, line, uptime, uy, kleft>>
    PROVE  ConsoleInv'
<1>1. /\ kreg \in [x : Words, y : Words, nl : BOOLEAN] /\ kleft \in 0 .. KMax /\ 0 \in Words
  BY KernelFacts
<1>2. kreg' \in [x : Words, y : Words, nl : BOOLEAN]
  BY <1>1 DEF Clear
<1>3. KernelOK'
  BY DEF KernelOK
<1> QED BY <1>1, <1>2, <1>3, KernelStep

\* Stores to the screen and to cursor_pos.
LEMMA StoreStep == ASSUME ConsoleInv, kernel_store PROVE ConsoleInv'
<1> DEFINE Regs == [x : Words, y : Words, nl : BOOLEAN]
<1>0. /\ KernelRuns /\ UNCHANGED <<shell, line, uptime, uy, kleft>>
      /\ kreg' = Clear(kreg) /\ Spoil
  BY DEF kernel_store, Goto
<1>1. /\ con \in Consoles /\ con.y \in Nat /\ con.y >= 2 /\ Top \in Nat /\ Top + 6 < UChar
      /\ UChar \in Nat /\ kreg \in Regs /\ kreg.x \in Nat /\ kreg.y \in Nat
      /\ kleft \in 0 .. KMax /\ con.y <= Top + KernelSlack /\ ~con.fault /\ 0 \in Words
      /\ Waiting
  BY <1>0, KernelFacts
<1>2. kreg' \in Regs /\ kreg'.nl = kreg.nl /\ kreg.nl \in BOOLEAN
      /\ kreg.x \in Words /\ kreg.y \in Words
  BY <1>0, <1>1 DEF Clear
<1>3. KernelOK
  BY DEF ConsoleInv
<1>4. CASE kpc = "cell" /\ kpc' = "cmp" /\ con' = put_char_pos(con, Other, kreg.x, kreg.y)
  <2>1. /\ ~kreg.nl /\ kreg.y <= Top + 2 /\ kreg.y <= con.y
        /\ con.y = kreg.y \/ con.y <= Top
    BY <1>1, <1>3, <1>4 DEF KernelOK
  <2>2. /\ con' \in Consoles /\ con'.y = con.y
        /\ con'.fault => Full(kreg.y)
        /\ ~con'.fault /\ kreg.y < UChar => kreg.y < Top
    BY <1>1, <1>4, CellStore
  <2>3. con'.fault => Full(con'.y)
    <3>1. Row(kreg.y) <= Row(con.y) /\ Row(kreg.y) \in Nat /\ Row(con.y) \in Nat
      BY <1>1, <2>1, Rows
    <3>2. Full(kreg.y) => Full(con.y)
      BY <3>1, Sizes DEF Full
    <3> QED BY <2>2, <3>2
  <2>4. KernelSlack' = 0
    BY <1>2, <1>4, <2>1 DEF KernelSlack
  <2>5. kreg.y < UChar
    BY <1>1, <2>1
  <2>6. ~con'.fault => con'.y <= Top + KernelSlack'
    <3>1. kreg.y < Top => con.y <= Top + 0
      BY <1>1, <2>1
    <3> QED BY <3>1, <2>2, <2>4, <2>5
  <2>7. KernelOK'
    BY <1>2, <1>4, <2>1 DEF KernelOK
  <2> QED BY <1>0, <1>1, <1>2, <1>4, <2>2, <2>3, <2>6, <2>7, KernelStep
<1>5. CASE kpc = "storex" /\ kpc' = "addr" /\ con' = [con EXCEPT !.x = kreg.x]
  <2>1. con' \in Consoles /\ con'.y = con.y /\ ~con'.fault
    BY <1>1, <1>2, <1>5 DEF Consoles, Words
  <2>2. ~kreg.nl
    BY <1>3, <1>5 DEF KernelOK
  <2>3. KernelSlack' = 1 /\ KernelSlack = 0
    BY <1>2, <1>5, <2>2 DEF KernelSlack
  <2>4. con'.y <= Top + KernelSlack'
    BY <1>1, <2>1, <2>3
  <2> QED BY <1>0, <1>1, <1>5, <2>1, <2>4, CursorStore
<1>6. CASE /\ kpc = "clearx" /\ kpc' = IF kreg.nl THEN "addr" ELSE "loady"
           /\ con' = [con EXCEPT !.x = 0]
  <2>1. con' \in Consoles /\ con'.y = con.y /\ ~con'.fault
    BY <1>1, <1>6 DEF Consoles, Words
  <2>2. KernelSlack' = KernelSlack
    BY <1>2, <1>6 DEF KernelSlack
  <2>3. con'.y <= Top + KernelSlack'
    BY <1>1, <2>1, <2>2
  <2>4. kpc' \in {"addr", "loady", "clearx"}
    BY <1>6
  <2> QED BY <1>0, <1>1, <2>1, <2>3, <2>4, CursorStore
<1>7. CASE /\ kpc = "storey" /\ kpc' = IF kreg.nl THEN "clearx" ELSE "addr"
           /\ con' = [con EXCEPT !.y = kreg.y]
  <2>1. con' \in Consoles /\ con'.y = kreg.y /\ ~con'.fault
    BY <1>1, <1>2, <1>7 DEF Consoles, Words
  <2>2. kreg.y >= 2 /\ kreg.y <= Top + (IF kreg.nl THEN 2 ELSE 1)
    BY <1>3, <1>7 DEF KernelOK
  <2>3. KernelSlack' = IF kreg.nl THEN 2 ELSE 1
    BY <1>2, <1>7 DEF KernelSlack
  <2>4. con'.y <= Top + KernelSlack'
    BY <2>1, <2>2, <2>3
  <2>5. kpc' \in {"addr", "loady", "clearx"}
    BY <1>7
  <2> QED BY <1>0, <2>1, <2>2, <2>4, <2>5, CursorStore
<1> QED BY <1>4, <1>5, <1>6, <1>7 DEF kernel_store, Goto

----------------------------------------------------------------------------
(***************************************************************************)
(* The specification.                                                      *)
(***************************************************************************)
\* At sti.
LEMMA ConsoleInit == ASSUME Init PROVE ConsoleInv
<1>0. Top \in Nat /\ 2 <= Top
  BY RowFits
<1>1. /\ con.y = 2 /\ con.x = 0 /\ con.fault = FALSE /\ kpc = "idle"
      /\ shell[1] = "new" /\ shell[2] = "off" /\ shell \in [Shells -> Places]
      /\ uptime = "off" /\ whole = 0 /\ lineAt = 0 /\ kleft = KMax
  BY DEF Init, Shells, Places
<1>2. con \in Consoles
  <2>1. 0 \in Words /\ 2 \in Words
    BY Sizes DEF Words
  <2>2. 2 * COLUMNS \in Words
    <3>1. Row(2) \in Nat /\ Row(2) + UChar < UInt
      BY Sizes, Rows, RowFits
    <3> QED BY <3>1, Sizes DEF Row, Words
  <2>3. [n \in 0 .. Cells - 1 |-> Other] \in [0 .. Cells - 1 -> Glyphs]
    BY DEF Glyphs
  <2> QED BY <2>1, <2>2, <2>3 DEF Init, Consoles, Words, Glyphs
<1>3. TypeOK
  <2>1. 0 \in 0 .. UInt - 1 /\ KMax \in 0 .. KMax /\ MAX_LINE_SIZE - 1 >= 0
    BY Sizes
  <2>2. kreg \in [x : 0 .. UInt - 1, y : 0 .. UInt - 1, nl : BOOLEAN]
    BY <2>1 DEF Init
  <2>3. uy \in 0 .. UInt - 1
    BY <2>1 DEF Init
  <2>4. \A p \in Shells : line[p] = <<>> /\ line \in [Shells -> {<<>>}]
    BY DEF Init
  <2>5. line \in [Shells -> Seq(Chars)] /\ \A p \in Shells : Len(line[p]) <= MAX_LINE_SIZE - 1
    <3>1. <<>> \in Seq(Chars) /\ Len(<<>>) = 0 /\ 0 <= MAX_LINE_SIZE - 1
      BY <2>1
    <3>2. line \in [Shells -> Seq(Chars)]
      <4>1. line = [p \in Shells |-> <<>>]
        BY DEF Init
      <4> QED BY <4>1, <3>1
    <3>3. ASSUME NEW p \in Shells PROVE Len(line[p]) <= MAX_LINE_SIZE - 1
      <4>1. line[p] = <<>>
        BY <2>4
      <4> QED BY <4>1, <3>1
    <3> QED BY <3>2, <3>3
  <2> QED BY <1>1, <1>2, <2>1, <2>2, <2>3, <2>5 DEF TypeOK, Places
<1>4. ReachOK
  <2>1. KernelSlack \in 0 .. 2 /\ ShellSlack \in 0 .. 4
    BY Slacks DEF KernelSlack
  <2> QED BY <2>1, <1>0, <1>1 DEF ReachOK
<1>5. KernelOK /\ StartOK /\ UptimeOK /\ LineOK /\ LineOnScreen /\ FaultsOnlyAtTheEnd
  BY <1>1 DEF KernelOK, StartOK, UptimeOK, LineOK, LineOnScreen, FaultsOnlyAtTheEnd, Shells
<1> QED BY <1>1, <1>3, <1>4, <1>5 DEF ConsoleInv

\* Every step keeps the invariant.
LEMMA ConsoleNext == ASSUME ConsoleInv, [Next]_vars PROVE ConsoleInv'
<1>1. CASE UNCHANGED vars
  BY <1>1 DEF vars, ConsoleInv, TypeOK, ReachOK, KernelSlack, ShellSlack, KernelOK, StartOK,
              UptimeOK, LineOK, Waiting, LineOnScreen, FaultsOnlyAtTheEnd, Top
<1>2. CASE Next
  <2>1. CASE \E p \in Shells : \/ shell_prompt(p)
                               \/ \E c \in Chars \cup {"BS", "LF"} : get_line(p, c)
                               \/ shell_command(p)
                               \/ shell_crlf(p)
    BY <2>1, PromptStep, GetLineStep, CommandStep, CrlfStep
  <2>2. CASE \/ shell_start \/ uptime_read \/ uptime_label \/ uptime_digits
             \/ uptime_wakeup \/ printk \/ kernel_store \/ kernel_load \/ kernel_crtc
    BY <2>2, StartStep, ReadStep, ClockStep, PrintkStep, StoreStep, LoadStep, CrtcStep
  <2> QED BY <1>2, <2>1, <2>2 DEF Next
<1> QED BY <1>1, <1>2

\* The inductive invariant.
THEOREM ConsoleSafe == Spec => []ConsoleInv
  BY ConsoleInit, ConsoleNext, PTL DEF Spec

\* get_line, put_char_pos and the kernel task keep every variable in its type; in
\* particular a line never fills buf beyond its terminating zero.
THEOREM ConsoleTypes == Spec => []TypeOK
<1>1. ConsoleInv => TypeOK
  BY DEF ConsoleInv
<1> QED BY <1>1, ConsoleSafe, PTL

\* What has been typed into the shell whose line nothing has disturbed stands in
\* the video memory from the end of the prompt to the cursor, and uptime's clock
\* never lands on it.
THEOREM LineAlwaysOnScreen == Spec => []LineOnScreen
<1>1. ConsoleInv => LineOnScreen
  BY DEF ConsoleInv
<1> QED BY <1>1, ConsoleSafe, PTL

\* put_char_pos faults only with the cursor at the end of the video memory.
THEOREM FaultsAlwaysAtTheEnd == Spec => []FaultsOnlyAtTheEnd
<1>1. ConsoleInv => FaultsOnlyAtTheEnd
  BY DEF ConsoleInv
<1> QED BY <1>1, ConsoleSafe, PTL

\* A cursor in its row is on the screen that starts ROWS - 1 rows above.
LEMMA Seen ==
    ASSUME NEW s \in Consoles, s.y <= Top, s.x < COLUMNS, s.cur = Row(s.y) + s.x,
           s.y >= ROWS => s.start = Row(s.y - ROWS + 1)
    PROVE  CursorSeen(s)
<1>0. s.x \in Nat /\ s.y \in Nat /\ Top \in Nat /\ Top < UChar
  BY Fields, RowFits, Sizes
<1>1. Row(s.y) \in Nat /\ Row(s.y) + UChar < UInt
  <2>1. s.y <= UChar
    BY <1>0, Sizes
  <2> QED BY <1>0, <2>1, Rows, RowFits
<1>2. Row(s.y) + s.x \in Nat /\ Row(s.y) + s.x < UInt
  BY <1>0, <1>1, Sizes
<1>3. s.cur = (s.y * COLUMNS + s.x) % UInt
  <2>1. (Row(s.y) + s.x) % UInt = Row(s.y) + s.x
    BY <1>2, Sizes, Cut
  <2> QED BY <2>1 DEF Row
<1>4. ROWS * COLUMNS = Row(ROWS - 1) + COLUMNS /\ Row(ROWS - 1) \in Nat
  <2>1. ROWS - 1 \in Nat /\ (ROWS - 1) + 1 = ROWS
    BY Sizes
  <2>2. Row((ROWS - 1) + 1) = Row(ROWS - 1) + COLUMNS /\ Row(ROWS - 1) \in Nat
    BY <2>1, Rows
  <2> QED BY <2>1, <2>2 DEF Row
<1>5. CASE s.y >= ROWS
  <2> DEFINE a == s.y - ROWS + 1
             b == ROWS - 1
  <2>1. a \in Nat /\ b \in Nat /\ a + b = s.y /\ s.start = Row(a)
    BY <1>0, <1>5, Sizes
  <2>2. Row(b) \in Nat /\ ROWS * COLUMNS = Row(b) + COLUMNS
    BY <1>4
  <2> HIDE DEF a, b
  <2>3. Row(a + b) = Row(a) + Row(b)
    BY <2>1, Sizes DEF Row
  <2>4. Row(a) \in Nat /\ Row(s.y) = Row(a) + Row(b)
    BY <2>1, <2>3, Rows
  <2>5. s.cur \in s.start .. s.start + ROWS * COLUMNS - 1
    <3>1. s.cur = Row(a) + Row(b) + s.x /\ s.start = Row(a)
      BY <2>1, <2>4, <1>0, <1>1
    <3> HIDE DEF Row
    <3> QED BY <3>1, <2>2, <2>4, <1>0, Sizes
  <2> QED BY <2>5, <1>3 DEF CursorSeen
<1>6. CASE ~(s.y >= ROWS)
  <2>1. Row(s.y) <= Row(ROWS - 1)
    <3>1. s.y <= ROWS - 1 /\ ROWS - 1 \in Nat
      BY <1>0, <1>6, Sizes
    <3> QED BY <1>0, <3>1, Rows
  <2>2. s.start = 0 => s.cur \in s.start .. s.start + ROWS * COLUMNS - 1
    BY <2>1, <1>0, <1>1, <1>4, Sizes
  <2> QED BY <2>2, <1>3, <1>6 DEF CursorSeen
<1> QED BY <1>5, <1>6

\* Only a typed character makes a line longer.
LEMMA EchoStep ==
    ASSUME ConsoleInv, Next, NEW p \in Shells, shell[p] = "line",
           Len(line'[p]) > Len(line[p]), ~con'.fault
    PROVE  CursorSeen(con')
<1>0. line \in [Shells -> Seq(Chars)] /\ line[p] \in Seq(Chars) /\ Len(line[p]) \in Nat
  BY DEF ConsoleInv, TypeOK
<1>1. ~(line'[p] = line[p]) /\ ~(line'[p] = <<>>)
  BY <1>0
<1>2. ASSUME NEW q \in Shells, NEW l, line' = [line EXCEPT ![q] = l]
      PROVE  q = p /\ line'[p] = l
  BY <1>0, <1>1, <1>2
<1>3. PICK q \in Shells : \E d \in Chars \cup {"BS", "LF"} : get_line(q, d)
  <2>1. ~(line' = line)
    BY <1>1
  <2>2. ASSUME NEW q \in Shells, line' = [line EXCEPT ![q] = <<>>] PROVE FALSE
    BY <1>1, <1>2, <2>2
  <2> QED BY <2>1, <2>2 DEF Next, shell_start, shell_prompt, shell_command, shell_crlf,
        uptime_read, uptime_label, uptime_digits, uptime_wakeup, printk, kernel_store,
        kernel_load, kernel_crtc
<1>4. PICK c \in Chars \cup {"BS", "LF"} : get_line(q, c)
  BY <1>3
<1>5. ASSUME line[q] # <<>>, line' = [line EXCEPT ![q] = Front(@)] PROVE FALSE
  <2>1. line' = [line EXCEPT ![q] = Front(line[q])]
    BY <1>5
  <2>2. q = p /\ line'[p] = Front(line[q])
    BY <2>1, <1>2
  <2>3. line'[p] = Front(line[p]) /\ line[p] # <<>>
    BY <2>2, <1>5
  <2>4. Len(Front(line[p])) = Len(line[p]) - 1
    BY <1>0, <2>3, Shorter
  <2> QED BY <2>3, <2>4, <1>0
<1>6. /\ c \in Chars /\ Running /\ shell[q] = "line" /\ con' = put_char(con, c)
      /\ line' = [line EXCEPT ![q] = Append(@, c)]
      /\ To(q, IF LineFull(line'[q]) THEN "run" ELSE "line")
      /\ IF whole = q THEN UNCHANGED <<whole, lineAt>> ELSE Spoil
      /\ UNCHANGED <<uptime, uy, kpc, kreg, kleft>>
  BY <1>1, <1>4, <1>5 DEF get_line
<1>7. /\ ConsoleInv'
      /\ con'.y <= Top /\ con'.x < COLUMNS /\ con'.cur = Row(con'.y) + con'.x
      /\ con'.start = IF con'.y >= ROWS THEN Row(con'.y - ROWS + 1) ELSE con.start
  BY <1>6, CharStep
<1>8. con' \in Consoles
  BY <1>7 DEF ConsoleInv, TypeOK
<1> QED BY <1>7, <1>8, Seen

\* update_cursor at the end of every echo leaves the hardware cursor at cursor_pos
\* and on the screen, whatever a preempted printk wrote before.
THEOREM EchoAlwaysShowsCursor == Spec => EchoShowsCursor
<1>1. ConsoleInv /\ [Next]_vars =>
        [\A p \in Shells : shell[p] = "line" /\ Len(line'[p]) > Len(line[p]) /\ ~con'.fault =>
             CursorSeen(con')]_vars
  BY EchoStep
<1> QED BY <1>1, ConsoleSafe, PTL DEF Spec, EchoShowsCursor
=============================================================================
