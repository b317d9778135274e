----------------------------- MODULE ShellProofs -----------------------------
(***************************************************************************)
(* The shell answers every line as its words say, for every set of lines,  *)
(* commands and files and every size of its arrays.                        *)
(***************************************************************************)
EXTENDS Shell, StringProofs, FiniteSetTheorems

----------------------------------------------------------------------------
(***************************************************************************)
(* The words of a line.                                                    *)
(***************************************************************************)
\* The array of a line holds the text before its first NUL.
LEMMA LineHolds ==
    ASSUME NEW l \in Seq(0 .. 127)
    PROVE  /\ Len(l) \in Nat /\ Text(l) \in Texts /\ Len(Text(l)) <= Len(l)
           /\ CString(l) \in Arrays(Len(l) + 1) /\ Holds(CString(l), Text(l))
<1> DEFINE C == 0 .. 127
           I == {i \in 1 .. Len(l) : l[i] = NUL}
           a == CString(l)
           t == Text(l)
<1>1. /\ Len(l) \in Nat /\ \A i \in 1 .. Len(l) : l[i] \in C
      /\ l = [i \in 1 .. Len(l) |-> l[i]] /\ l \in Seq(C)
  <2>1. l \in Seq(C)
    OBVIOUS
  <2> HIDE DEF C
  <2> QED BY <2>1, SeqFacts
<1>2. I \subseteq Nat
  BY <1>1
<1>3. t = IF I = {} THEN l ELSE SubSeq(l, 1, Min(I) - 1)
  <2>1. I # {} => Min(I) \in I /\ Min(I) # 0
    <3>1. I # {} => Min(I) \in I
      BY <1>2, MinIsLeast
    <3>2. 0 \notin I
      OBVIOUS
    <3> HIDE DEF I
    <3> QED BY <3>1, <3>2
  <2>2. SelectInSeq(l, LAMBDA c : c = NUL) = IF I # {} THEN Min(I) ELSE 0
    BY DEF SelectInSeq
  <2> HIDE DEF I
  <2> QED BY <2>1, <2>2 DEF Text
<1>4. /\ Len(t) \in 0 .. Len(l) /\ t = [i \in 1 .. Len(t) |-> t[i]]
      /\ \A i \in 1 .. Len(t) : t[i] = l[i] /\ l[i] # NUL
      /\ Len(t) < Len(l) => l[Len(t) + 1] = NUL
  <2>1. CASE I = {}
    <3>1. t = l /\ \A i \in 1 .. Len(l) : l[i] # NUL
      BY <1>3, <2>1
    <3> HIDE DEF t
    <3> QED BY <1>1, <3>1
  <2>2. CASE I # {}
    <3> DEFINE n == Min(I)
    <3>1. n \in I /\ \A i \in I : n <= i
      BY <1>2, <2>2, MinIsLeast
    <3>2. t = SubSeq(l, 1, n - 1)
      BY <1>3, <2>2
    <3>3. n \in 1 .. Len(l) /\ l[n] = NUL /\ \A i \in 1 .. Len(l) : l[i] = NUL => n <= i
      BY <3>1
    <3> HIDE DEF n, t, C
    <3>4. Len(t) = n - 1 /\ \A i \in 1 .. n - 1 : t[i] = l[i]
      BY <1>1, <3>2, <3>3
    <3>5. t = [i \in 1 .. n - 1 |-> t[i]]
      BY <1>1, <3>2, <3>3
    <3> QED BY <1>1, <3>3, <3>4, <3>5
  <2> QED BY <2>1, <2>2
<1> HIDE DEF t
<1>5. t \in Texts
  <2> DEFINE D == 1 .. 127
  <2>1. \A c \in C : c # NUL => c \in D
    BY DEF NUL
  <2>2. \A i \in 1 .. Len(t) : i \in 1 .. Len(l)
    BY <1>1, <1>4
  <2>3. \A i \in 1 .. Len(t) : t[i] \in D
    BY <1>1, <1>4, <2>1, <2>2
  <2> HIDE DEF D
  <2>4. Len(t) \in Nat
    BY <1>1, <1>4
  <2>5. t \in Seq(D)
    BY <1>4, <2>3, <2>4
  <2> QED BY <2>5 DEF Texts, D
<1>6. a = [i \in 0 .. Len(l) |-> IF i < Len(l) THEN l[i + 1] ELSE NUL]
  BY DEF CString
<1> HIDE DEF a
<1>7. a \in Arrays(Len(l) + 1)
  <2>1. NUL \in C
    BY DEF NUL
  <2>2. ASSUME NEW i \in 0 .. Len(l) PROVE a[i] \in C
    <3>1. a[i] = IF i < Len(l) THEN l[i + 1] ELSE NUL
      BY <1>6
    <3>2. i < Len(l) => i + 1 \in 1 .. Len(l)
      BY <1>1
    <3> HIDE DEF C
    <3> QED BY <1>1, <2>1, <3>1, <3>2
  <2>3. (Len(l) + 1) - 1 = Len(l)
    BY <1>1
  <2> QED BY <1>6, <2>2, <2>3 DEF Arrays
<1>8. Holds(a, t)
  <2>1. Len(t) \in DOMAIN a /\ \A i \in 0 .. Len(t) - 1 : i \in DOMAIN a
    BY <1>1, <1>4, <1>6
  <2>2. a[Len(t)] = NUL
    BY <1>1, <1>4, <1>6
  <2>3. ASSUME NEW i \in 0 .. Len(t) - 1 PROVE a[i] = t[i + 1]
    <3>1. i < Len(l) /\ i \in 0 .. Len(l) /\ i + 1 \in 1 .. Len(t)
      BY <1>1, <1>4
    <3> QED BY <1>4, <1>6, <3>1
  <2> QED BY <2>1, <2>2, <2>3 DEF Holds
<1> QED BY <1>1, <1>4, <1>5, <1>7, <1>8 DEF a, t

\* The first blank of a line, if it has one.
LEMMA BlankFacts ==
    ASSUME NEW w \in Texts
    PROVE  /\ Blank(w) \in 0 .. Len(w)
           /\ Blank(w) = 0 => \A i \in 1 .. Len(w) : w[i] # Space
           /\ Blank(w) # 0 => /\ w[Blank(w)] = Space
                              /\ \A i \in 1 .. Blank(w) - 1 : w[i] # Space
<1> DEFINE I == {i \in 1 .. Len(w) : w[i] = Space}
<1>1. Blank(w) = IF I # {} THEN Min(I) ELSE 0
  BY DEF Blank, SelectInSeq
<1>2. Len(w) \in Nat /\ I \subseteq Nat
  BY TextFacts
<1>3. CASE I = {}
  BY <1>1, <1>2, <1>3
<1>4. CASE I # {}
  <2>1. Blank(w) \in I /\ \A i \in I : Blank(w) <= i
    BY <1>1, <1>2, <1>4, MinIsLeast
  <2> QED BY <1>2, <2>1
<1> QED BY <1>3, <1>4

\* The first word of a text and what follows it are texts, no longer than it.
LEMMA WordTexts ==
    ASSUME NEW w \in Texts
    PROVE  /\ WordOf(w) \in Texts /\ RestOf(w) \in Texts
           /\ Len(WordOf(w)) <= Len(w) /\ Len(RestOf(w)) <= Len(w)
<1> DEFINE C == 1 .. 127
<1>1. w \in Seq(C) /\ Texts = Seq(C)
  BY DEF Texts
<1> HIDE DEF C
<1>2. Blank(w) \in 0 .. Len(w) /\ Len(w) \in Nat
  BY BlankFacts, TextFacts
<1>3. CASE Blank(w) = 0
  BY <1>1, <1>2, <1>3 DEF WordOf, RestOf
<1>4. CASE Blank(w) # 0
  <2>1. Blank(w) - 1 \in 0 .. Len(w) /\ Blank(w) + 1 \in 1 .. Len(w) + 1
    BY <1>2, <1>4
  <2>2. /\ SubSeq(w, 1, Blank(w) - 1) \in Seq(C)
        /\ Len(SubSeq(w, 1, Blank(w) - 1)) <= Len(w)
    BY <1>1, <1>2, <2>1
  <2>3. /\ SubSeq(w, Blank(w) + 1, Len(w)) \in Seq(C)
        /\ Len(SubSeq(w, Blank(w) + 1, Len(w))) <= Len(w)
    BY <1>1, <1>2, <2>1
  <2> QED BY <1>1, <1>4, <2>2, <2>3 DEF WordOf, RestOf
<1> QED BY <1>3, <1>4

\* str_get_first_entry() stores inside both arrays exactly when they have room
\* for the word, the rest and their NULs, and then they hold the two.
LEMMA FirstEntry ==
    ASSUME NEW n \in Nat, NEW a \in Arrays(n), NEW w \in Texts, Holds(a, w),
           NEW p \in Nat \ {0}, NEW fst \in Arrays(p),
           NEW q \in Nat \ {0}, NEW oth \in Arrays(q)
    PROVE  LET e == str_get_first_entry(a, fst, oth)
           IN  /\ e.ok <=> Len(WordOf(w)) < p /\ Len(RestOf(w)) < q
               /\ e.ok => /\ e.first \in Arrays(p) /\ Holds(e.first, WordOf(w))
                          /\ e.other \in Arrays(q) /\ Holds(e.other, RestOf(w))
<1> DEFINE e == str_get_first_entry(a, fst, oth)
<1>1. Len(w) \in Nat /\ str_get_len(a) = Len(w) + 1
  BY LenOf, TextFacts
<1>2. Cardinality(DOMAIN fst) = p /\ Cardinality(DOMAIN oth) = q
  <2>1. DOMAIN fst = 0 .. p - 1 /\ DOMAIN oth = 0 .. q - 1
    BY DEF Arrays
  <2>2. Cardinality(0 .. p - 1) = p /\ Cardinality(0 .. q - 1) = q
    BY FS_Interval
  <2> QED BY <2>1, <2>2
<1>3. Space \in 1 .. 127
  BY DEF Space
<1>4. CASE Blank(w) = 0
  <2>0. \A i \in 1 .. Len(w) : w[i] # Space
    BY <1>4, BlankFacts
  <2>1. str_find_char(a, Space) = -1
    BY <1>3, <2>0, FindNone
  <2>2. /\ e.ok = (Len(w) + 1 <= p)
        /\ e.first = copy_mem(a, 0, fst, Len(w) + 1)
        /\ e.other = [oth EXCEPT ![0] = NUL]
    BY <1>1, <1>2, <2>1 DEF str_get_first_entry
  <2>3. WordOf(w) = w /\ RestOf(w) = <<>> /\ Len(RestOf(w)) = 0
    BY <1>4 DEF WordOf, RestOf
  <2>4. e.ok <=> Len(WordOf(w)) < p /\ Len(RestOf(w)) < q
    <3>1. Len(w) + 1 <= p <=> Len(w) < p
      BY <1>1
    <3>2. 0 < q
      OBVIOUS
    <3> HIDE DEF e
    <3> QED BY <2>2, <2>3, <3>1, <3>2
  <2>5. e.other \in Arrays(q) /\ Holds(e.other, <<>>)
    <3>1. oth \in [0 .. q - 1 -> 0 .. 127] /\ 0 \in 0 .. q - 1 /\ NUL \in 0 .. 127
      BY DEF Arrays, NUL
    <3>2. e.other \in [0 .. q - 1 -> 0 .. 127] /\ e.other[0] = NUL
      BY <2>2, <3>1
    <3> HIDE DEF e
    <3>3. Len(<<>>) = 0 /\ 0 .. 0 - 1 = {}
      OBVIOUS
    <3> QED BY <3>1, <3>2, <3>3 DEF Arrays, Holds
  <2>6. ASSUME Len(w) < p PROVE e.first \in Arrays(p) /\ Holds(e.first, w)
    <3>1. 0 \in 0 .. Len(w) /\ Len(w) - 0 < p /\ Len(w) + 1 - 0 = Len(w) + 1 /\ 0 + 1 = 1
      BY <1>1, <2>6
    <3>2. SubSeq(w, 1, Len(w)) = w
      BY DEF Texts
    <3>3. e.first = copy_mem(a, 0, fst, Len(w) + 1 - 0)
      BY <2>2, <3>1
    <3> HIDE DEF e
    <3>4. e.first \in Arrays(p) /\ Holds(e.first, SubSeq(w, 0 + 1, Len(w)))
      BY <3>1, <3>3, CopyEnd
    <3> QED BY <3>1, <3>2, <3>4
  <2> QED BY <1>1, <2>2, <2>3, <2>4, <2>5, <2>6
<1>5. CASE Blank(w) # 0
  <2> DEFINE b == Blank(w)
  <2>1. /\ b \in 1 .. Len(w) /\ w[b] = Space /\ \A i \in 1 .. b - 1 : w[i] # Space
        /\ b - 1 \in 0 .. Len(w) /\ b \in 0 .. Len(w)
    BY <1>1, <1>5, BlankFacts
  <2>2. str_find_char(a, Space) = b - 1
    <3> HIDE DEF b
    <3>1. FirstAt(w, Space, b)
      BY <2>1 DEF FirstAt
    <3> QED BY <1>3, <3>1, FindFirst
  <2>3. ~(b - 1 < 0) /\ RestStart(b - 1) = b
    BY <2>1 DEF RestStart
  <2>4. /\ e.ok = (b - 1 < p /\ Len(w) + 1 - b <= q)
        /\ e.first = [i \in DOMAIN fst |-> IF i = b - 1 THEN NUL ELSE copy_mem(a, 0, fst, b - 1)[i]]
        /\ e.other = copy_mem(a, b, oth, Len(w) + 1 - b)
    <3> HIDE DEF b
    <3> DEFINE k == str_find_char(a, Space)
               size == str_get_len(a) - RestStart(k)
    <3>1. ~(k < 0) =>
            /\ e.ok = (k < Cardinality(DOMAIN fst) /\ size <= Cardinality(DOMAIN oth))
            /\ e.first = [i \in DOMAIN fst |-> IF i = k THEN NUL ELSE copy_mem(a, 0, fst, k)[i]]
            /\ e.other = copy_mem(a, RestStart(k), oth, size)
      BY DEF str_get_first_entry
    <3>2. k = b - 1 /\ ~(k < 0) /\ RestStart(k) = b /\ size = Len(w) + 1 - b
      <4>1. k = b - 1
        BY <2>2
      <4>2. size = (Len(w) + 1) - RestStart(k)
        BY <1>1
      <4> HIDE DEF k, size
      <4>3. ~(k < 0) /\ RestStart(k) = b
        BY <2>3, <4>1
      <4> QED BY <1>1, <2>1, <4>1, <4>2, <4>3
    <3> HIDE DEF k, e, size
    <3>3. /\ e.ok = (k < p /\ size <= q)
          /\ e.first = [i \in DOMAIN fst |-> IF i = k THEN NUL ELSE copy_mem(a, 0, fst, k)[i]]
          /\ e.other = copy_mem(a, b, oth, size)
      BY <1>2, <3>1, <3>2
    <3> QED BY <3>2, <3>3
  <2>5. WordOf(w) = SubSeq(w, 1, b - 1) /\ RestOf(w) = SubSeq(w, b + 1, Len(w))
    BY <1>5 DEF WordOf, RestOf
  <2> HIDE DEF b, e
  <2>6. Len(WordOf(w)) = b - 1 /\ Len(RestOf(w)) = Len(w) - b
    BY <1>1, <2>1, <2>5 DEF Texts
  <2>7. e.ok <=> Len(WordOf(w)) < p /\ Len(RestOf(w)) < q
    <3>1. Len(w) + 1 - b <= q <=> Len(w) - b < q
      BY <1>1, <2>1
    <3> QED BY <2>4, <2>6, <3>1
  <2>8. ASSUME b - 1 < p PROVE e.first \in Arrays(p) /\ Holds(e.first, WordOf(w))
    <3>1. e.first \in Arrays(p) /\ Holds(e.first, SubSeq(w, 1, b - 1))
      BY <2>1, <2>4, <2>8, CopyStart, SMTT(30)
    <3> QED BY <2>5, <3>1
  <2>9. ASSUME Len(w) - b < q PROVE e.other \in Arrays(q) /\ Holds(e.other, RestOf(w))
    <3>1. e.other \in Arrays(q) /\ Holds(e.other, SubSeq(w, b + 1, Len(w)))
      BY <2>1, <2>4, <2>9, CopyEnd
    <3> QED BY <2>5, <3>1
  <2> QED BY <1>1, <2>1, <2>6, <2>7, <2>8, <2>9 DEF e
<1> QED BY <1>4, <1>5

----------------------------------------------------------------------------
(***************************************************************************)
(* The inductive invariant.                                                *)
(***************************************************************************)
\* The file table's entries in the order of the walk; the head is before the
\* first and after the last.
Entry(k) == IF k \in 1 .. Len(Files) THEN Files[k] ELSE fhead

\* fs_init() linked every file once, and nothing changes a link afterwards.
TableInv == \A k \in 0 .. Len(Files) : list.next[Entry(k)] = Entry(k + 1)

\* command_id is the command the first word names, if it names one.
Named == \/ command_id \in Commands /\ CommandNames[command_id] = WordOf(said)
         \/ command_id = "COMMAND_NUM" /\ \A c \in Commands : CommandNames[c] # WordOf(said)

\* Each array holds its word from the step that splits the line until the
\* command is over.
WordsInv ==
    /\ command \in Arrays(ArgSize) /\ args \in Arrays(ArgSize)
    /\ pc \in {"dispatch", "read", "write", "open", "exec"} =>
           Holds(command, WordOf(said)) /\ Holds(args, RestOf(said)) /\ Named
    /\ pc = "read" => /\ command_id \in Reads
                      /\ first \in Arrays(ReadSize) /\ Holds(first, WordOf(RestOf(said)))
    /\ pc = "write" => /\ command_id \in Writes
                       /\ first \in Arrays(DataSize) /\ Holds(first, WordOf(RestOf(said)))
                       /\ second \in Arrays(AddrSize)
                       /\ Holds(second, WordOf(RestOf(RestOf(said))))

\* The walk is at the entry after those it has passed, none of which has the
\* name; it stops at one that has.
WalkInv ==
    /\ pc \in {"open", "exec"} => command_id = "COMMAND_NUM"
    /\ pc = "open" => /\ fp = Entry(walked + 1)
                      /\ \A k \in 1 .. walked : FileNames[Files[k]] # WordOf(said)
    /\ pc = "exec" => fp \in ToSet(Files) /\ FileNames[fp] = WordOf(said)

ShellInv == TypeOK /\ TableInv /\ WordsInv /\ WalkInv /\ LineIsAnswered /\ ShortLinesFit

\* The last write is what is in memory.
WrittenInv ==
    /\ written.width \in {0, 1, 2, 4} /\ written.word \in Texts
    /\ \A i \in 0 .. written.width - 1 :
          /\ written.addr + i \in Free
          /\ IsHex(written.word) =>
                mem[written.addr + i] = (Value(written.word, 16) \div ByteWeight(i)) % ByteMod

----------------------------------------------------------------------------
(***************************************************************************)
(* The file table.                                                         *)
(***************************************************************************)
\* The entries: the files, all different, and the head, which is none of them.
LEMMA EntryFacts ==
    /\ Len(Files) \in Nat
    /\ \A k \in 1 .. Len(Files) : Entry(k) = Files[k] /\ Files[k] \in ToSet(Files) /\ Files[k] # fhead
    /\ \A f \in ToSet(Files) : \E k \in 1 .. Len(Files) : f = Files[k]
    /\ \A j, k \in 1 .. Len(Files) : Files[j] = Files[k] => j = k
    /\ Entry(0) = fhead /\ Entry(Len(Files) + 1) = fhead
    /\ fhead \notin ToSet(Files)
<1> DEFINE S == ToSet(Files)
<1>1. Files \in Seq(S) /\ S \cap (Commands \cup {fhead}) = {}
  BY ShellAssumption
<1>2. \A f \in ToSet(Files) : \E k \in DOMAIN Files : f = Files[k]
  BY DEF ToSet
<1>3. \A j, k \in DOMAIN Files : Files[j] = Files[k] => j = k
  BY ShellAssumption DEF IsInjective
<1> HIDE DEF S
<1>4. Len(Files) \in Nat /\ DOMAIN Files = 1 .. Len(Files) /\ \A k \in 1 .. Len(Files) : Files[k] \in S
  BY <1>1, SeqFacts
<1>5. fhead \notin S
  BY <1>1
<1>6. Entry(0) = fhead /\ Entry(Len(Files) + 1) = fhead
  BY <1>4 DEF Entry
<1>7. \A k \in 1 .. Len(Files) : Entry(k) = Files[k]
  BY DEF Entry
<1> QED BY <1>2, <1>3, <1>4, <1>5, <1>6, <1>7 DEF S

Slots == ToSet(Files) \cup {fhead}
Links == [Slots -> Slots \cup {"NULL"}]
Tables == [next : Links, prev : Links]

\* Neither function of queue.c leaves the entries.
LEMMA EnqTables ==
    ASSUME NEW l \in Tables, NEW e \in Slots
    PROVE  /\ queue_init(l, fhead) \in Tables
           /\ queue_enq(l, e, fhead) \in Tables
<1>1. l = [next |-> l.next, prev |-> l.prev] /\ l.next \in Links /\ l.prev \in Links
  BY DEF Tables
<1>2. fhead \in Slots
  BY DEF Slots
<1>3. queue_init(l, fhead) = [next |-> [l.next EXCEPT ![fhead] = fhead],
                              prev |-> [l.prev EXCEPT ![fhead] = fhead]]
  BY <1>1 DEF queue_init
<1>4. queue_enq(l, e, fhead) =
        [next |-> [[l.next EXCEPT ![e] = fhead] EXCEPT ![l.prev[fhead]] = e],
         prev |-> [[l.prev EXCEPT ![e] = l.prev[fhead]] EXCEPT ![fhead] = e]]
  BY <1>1 DEF queue_enq
<1>5. l.prev[fhead] \in Slots \cup {"NULL"}
  BY <1>1, <1>2 DEF Links
<1>6. [l.next EXCEPT ![fhead] = fhead] \in Links /\ [l.prev EXCEPT ![fhead] = fhead] \in Links
  BY <1>1, <1>2 DEF Links
<1>7. [[l.next EXCEPT ![e] = fhead] EXCEPT ![l.prev[fhead]] = e] \in Links
  BY <1>1, <1>2 DEF Links
<1>8. [[l.prev EXCEPT ![e] = l.prev[fhead]] EXCEPT ![fhead] = e] \in Links
  BY <1>1, <1>2, <1>5 DEF Links
<1> QED BY <1>3, <1>4, <1>6, <1>7, <1>8 DEF Tables

\* The table with the first k files.
TableTo(l, k) ==
    /\ l \in Tables /\ l.prev[fhead] = Entry(k) /\ l.next[Entry(k)] = fhead
    /\ \A j \in 0 .. k - 1 : l.next[Entry(j)] = Entry(j + 1)

\* queue_enq() at the head of the table puts the next file after the last.
LEMMA EnqNext ==
    ASSUME NEW k \in Nat, k < Len(Files), NEW l, TableTo(l, k)
    PROVE  TableTo(queue_enq(l, Files[k + 1], fhead), k + 1)
<1> DEFINE e == Files[k + 1]
           m == queue_enq(l, e, fhead)
<1>1. k + 1 \in 1 .. Len(Files) /\ Len(Files) \in Nat
  BY EntryFacts
<1>2. e = Entry(k + 1) /\ e \in ToSet(Files) /\ e # fhead
  BY <1>1, EntryFacts
<1>3. \A j \in 0 .. k : Entry(j) \in Slots /\ Entry(j) # e
  <2>1. ASSUME NEW j \in 0 .. k PROVE Entry(j) \in Slots /\ Entry(j) # e
    <3>1. CASE j = 0
      BY <3>1, <1>2, EntryFacts DEF Slots
    <3>2. CASE j # 0
      <4>1. j \in 1 .. Len(Files) /\ j # k + 1
        BY <3>2, <1>1
      <4>2. Entry(j) = Files[j] /\ Files[j] \in ToSet(Files)
        BY <4>1, EntryFacts
      <4>3. Files[j] # Files[k + 1]
        BY <4>1, <1>1, EntryFacts
      <4> QED BY <4>2, <4>3 DEF Slots
    <3> QED BY <3>1, <3>2
  <2> QED BY <2>1
<1>4. l.next \in Links /\ l.prev \in Links /\ l = [next |-> l.next, prev |-> l.prev] /\ l \in Tables
  BY DEF TableTo, Tables
<1>5. e \in Slots /\ fhead \in Slots
  BY <1>2 DEF Slots
<1>6. m \in Tables
  BY <1>4, <1>5, EnqTables
<1>7. l.prev[fhead] = Entry(k) /\ Entry(k) \in Slots /\ Entry(k) # e
  BY <1>3 DEF TableTo
<1> HIDE DEF e
<1>8. /\ m.next = [[l.next EXCEPT ![e] = fhead] EXCEPT ![Entry(k)] = e]
      /\ m.prev = [[l.prev EXCEPT ![e] = Entry(k)] EXCEPT ![fhead] = e]
  BY <1>4, <1>7 DEF queue_enq
<1> HIDE DEF m
<1>9. DOMAIN l.next = Slots /\ DOMAIN l.prev = Slots
  BY <1>4 DEF Links
<1>10. m.prev[fhead] = e /\ m.next[e] = fhead /\ m.next[Entry(k)] = e
  BY <1>2, <1>5, <1>7, <1>8, <1>9
<1>11. ASSUME NEW j \in 0 .. (k + 1) - 1 PROVE m.next[Entry(j)] = Entry(j + 1)
  <2>1. CASE j = k
    BY <2>1, <1>2, <1>10
  <2>2. CASE j # k
    <3>1. j \in 0 .. k - 1 /\ j \in 0 .. k
      BY <2>2
    <3>2. l.next[Entry(j)] = Entry(j + 1) /\ Entry(j) \in Slots /\ Entry(j) # e
      BY <3>1, <1>3 DEF TableTo
    <3>3. Entry(j) # Entry(k)
      <4>1. k \in 1 .. Len(Files) /\ Entry(k) = Files[k] /\ Files[k] # fhead
        BY <3>1, <1>1, EntryFacts
      <4>2. CASE j = 0
        BY <4>1, <4>2, EntryFacts
      <4>3. CASE j # 0
        <5>1. j \in 1 .. Len(Files)
          BY <3>1, <4>3, <1>1
        <5> QED BY <2>2, <4>1, <5>1, EntryFacts
      <4> QED BY <4>2, <4>3
    <3> QED BY <3>2, <3>3, <1>8, <1>9
  <2> QED BY <2>1, <2>2
<1>12. TableTo(m, k + 1)
  BY <1>2, <1>6, <1>10, <1>11 DEF TableTo
<1> QED BY <1>12 DEF m, e

\* fs_init() builds the table with all of them.
LEMMA FsInit == \A k \in 0 .. Len(Files) : fs_init.next[Entry(k)] = Entry(k + 1)
<1> DEFINE N == Len(Files)
           static == [next |-> StaticLinks, prev |-> StaticLinks]
           Rec(g) == g = [k \in 0 .. N |-> IF k = 0 THEN queue_init(static, fhead)
                                           ELSE queue_enq(g[k - 1], Files[k], fhead)]
           h == [i \in Nat |-> [l \in Tables |->
                    IF i < N THEN queue_enq(l, Files[i + 1], fhead) ELSE l]]
<1>1. N \in Nat
  BY EntryFacts
<1>2. static \in Tables
  BY DEF StaticLinks, Tables, Links, Slots
<1>3. queue_init(static, fhead) \in Tables
  <2> HIDE DEF static
  <2>1. fhead \in Slots
    BY DEF Slots
  <2> QED BY <1>2, <2>1, EnqTables
<1>4. h \in [Nat -> [Tables -> Tables]]
  <2>1. ASSUME NEW i \in Nat, NEW l \in Tables
        PROVE  (IF i < N THEN queue_enq(l, Files[i + 1], fhead) ELSE l) \in Tables
    <3>1. CASE i < N
      <4>1. i + 1 \in 1 .. N
        BY <3>1, <1>1
      <4>2. Files[i + 1] \in Slots
        BY <4>1, EntryFacts DEF Slots
      <4> QED BY <3>1, <4>2, EnqTables
    <3>2. CASE ~(i < N)
      BY <3>2
    <3> QED BY <3>1, <3>2
  <2> QED BY <2>1
<1>5. \A i \in Nat, l \in Tables : i < N => h[i][l] = queue_enq(l, Files[i + 1], fhead)
  OBVIOUS
<1> DEFINE first0 == queue_init(static, fhead)
<1> HIDE DEF h
<1>6. PICK f : FollowsTo(f, Tables, first0, h, N)
  <2> HIDE DEF first0, N
  <2> QED BY <1>1, <1>3, <1>4, UpTo DEF first0
<1>7. f \in [0 .. N -> Tables] /\ f[0] = first0 /\ \A i \in 1 .. N : f[i] = h[i - 1][f[i - 1]]
  BY <1>6 DEF FollowsTo
<1>8. Rec(f)
  <2>1. f = [k \in 0 .. N |-> f[k]]
    BY <1>7
  <2>2. ASSUME NEW k \in 0 .. N
        PROVE  f[k] = IF k = 0 THEN first0 ELSE queue_enq(f[k - 1], Files[k], fhead)
    <3>1. CASE k = 0
      BY <3>1, <1>7
    <3>2. CASE k # 0
      <4>1. k \in 1 .. N /\ k - 1 \in Nat /\ k - 1 < N /\ k - 1 \in 0 .. N /\ (k - 1) + 1 = k
        BY <3>2, <1>1
      <4>2. f[k - 1] \in Tables /\ f[k] = h[k - 1][f[k - 1]]
        BY <4>1, <1>7
      <4>3. f[k] = queue_enq(f[k - 1], Files[(k - 1) + 1], fhead)
        BY <4>1, <4>2, <1>5
      <4> QED BY <3>2, <4>1, <4>3
    <3> QED BY <3>1, <3>2
  <2> QED BY <2>1, <2>2
<1> DEFINE p == CHOOSE g : Rec(g)
<1>9. Rec(p)
  BY <1>8
<1>10. fs_init = p[N]
  BY DEF fs_init
<1> HIDE DEF p
<1>11. p[0] = first0
  BY <1>1, <1>9
<1>12. ASSUME NEW k \in Nat, k < N PROVE p[k + 1] = queue_enq(p[k], Files[k + 1], fhead)
  <2>1. k + 1 \in 0 .. N /\ k + 1 # 0 /\ (k + 1) - 1 = k
    BY <1>1, <1>12
  <2>2. p[k + 1] = queue_enq(p[(k + 1) - 1], Files[k + 1], fhead)
    BY <1>9, <2>1
  <2> QED BY <2>1, <2>2
<1>13. TableTo(first0, 0)
  <2>1. /\ first0 = [next |-> [StaticLinks EXCEPT ![fhead] = fhead],
                     prev |-> [StaticLinks EXCEPT ![fhead] = fhead]]
    BY DEF queue_init
  <2>2. DOMAIN StaticLinks = Slots /\ fhead \in Slots
    BY DEF StaticLinks, Slots
  <2>3. first0.prev[fhead] = fhead /\ first0.next[fhead] = fhead
    BY <2>1, <2>2
  <2>4. 0 .. 0 - 1 = {} /\ Entry(0) = fhead
    BY EntryFacts
  <2>5. first0 \in Tables
    BY <1>3
  <2> HIDE DEF first0
  <2> QED BY <2>3, <2>4, <2>5 DEF TableTo
<1> DEFINE S == {k \in Nat : k <= N => TableTo(p[k], k)}
<1> HIDE DEF first0
<1>14. 0 \in S
  BY <1>11, <1>13
<1>15. ASSUME NEW k \in Nat, k \in S PROVE k + 1 \in S
  <2> SUFFICES ASSUME k + 1 <= N PROVE TableTo(p[k + 1], k + 1)
    OBVIOUS
  <2>1. k < N /\ TableTo(p[k], k)
    BY <1>1, <1>15
  <2> QED BY <2>1, <1>12, EnqNext
<1>16. N \in S
  <2> HIDE DEF S, N
  <2>1. \A k \in Nat : k \in S
    BY <1>14, <1>15, AllNat
  <2> QED BY <1>1, <2>1
<1>17. TableTo(fs_init, N)
  BY <1>1, <1>10, <1>16
<1>18. ASSUME NEW k \in 0 .. N PROVE fs_init.next[Entry(k)] = Entry(k + 1)
  <2>1. CASE k = N
    BY <2>1, <1>17, EntryFacts DEF TableTo
  <2>2. CASE k # N
    <3>1. k \in 0 .. N - 1
      BY <2>2, <1>1
    <3> QED BY <3>1, <1>17 DEF TableTo
  <2> QED BY <2>1, <2>2
<1> QED BY <1>18

----------------------------------------------------------------------------
(***************************************************************************)
(* Numbers.                                                                *)
(***************************************************************************)
\* Every character counts as some digit, also one that is none.
LEMMA HexDigitInt == \A c \in 0 .. 127 : HexDigit(c) \in Int
<1> SUFFICES ASSUME NEW c \in 0 .. 127 PROVE HexDigit(c) \in Int
  OBVIOUS
<1>1. c \in Int
  OBVIOUS
<1> QED BY <1>1 DEF HexDigit, Zero, LowerA

\* The sums of str_conv_ahex_int() for the string w.
AhexSteps(val, w, mod) ==
    /\ val \in [0 .. Len(w) -> Int] /\ val[0] = 0
    /\ \A i \in 1 .. Len(w) :
          val[i] = (val[i - 1] + HexDigit(w[i]) * pow(16, Len(w) - i, mod)) % mod

\* str_conv_ahex_int() adds the digits up in the order of the loop, and the
\* result is the last partial sum.
LEMMA AhexFacts ==
    ASSUME NEW n \in Nat, NEW a \in Arrays(n), NEW w \in Texts, Holds(a, w),
           NEW mod \in Nat \ {0}
    PROVE  \E val : AhexSteps(val, w, mod) /\ str_conv_ahex_int(a, mod) = val[Len(w)]
<1> DEFINE L == Len(w)
           Rec(g) == g = [i \in 0 .. (L + 1) - 1 |->
                            IF i = 0 THEN 0
                            ELSE (g[i - 1] + HexDigit(a[i - 1]) * pow(16, (L + 1) - 2 - (i - 1), mod)) % mod]
           d(i) == HexDigit(w[i]) * pow(16, L - i, mod)
           h == [i \in Nat |-> [v \in Int |-> IF i < L THEN (v + d(i + 1)) % mod ELSE v]]
<1>1. L \in Nat /\ \A i \in 0 .. L - 1 : a[i] = w[i + 1] /\ a[i] \in 1 .. 127
  BY HoldsFacts
<1>2. ASSUME NEW i \in 1 .. L PROVE d(i) \in Int /\ a[i - 1] = w[i] /\ (L + 1) - 2 - (i - 1) = L - i
  <2>1. i - 1 \in 0 .. L - 1 /\ (i - 1) + 1 = i /\ L - i \in Nat /\ (L + 1) - 2 - (i - 1) = L - i
    BY <1>1
  <2>2. a[i - 1] = w[i] /\ w[i] \in 1 .. 127
    BY <1>1, <2>1
  <2>3. w[i] \in 0 .. 127
    BY <2>2
  <2>4. HexDigit(w[i]) \in Int
    BY <2>3, HexDigitInt
  <2>5. pow(16, L - i, mod) \in Int
    BY <2>1, PowFacts
  <2>6. \A x, y \in Int : x * y \in Int
    OBVIOUS
  <2> QED BY <2>1, <2>2, <2>4, <2>5, <2>6
<1>3. h \in [Nat -> [Int -> Int]]
  <2>1. ASSUME NEW i \in Nat, NEW v \in Int
        PROVE  (IF i < L THEN (v + d(i + 1)) % mod ELSE v) \in Int
    <3>1. i < L => d(i + 1) \in Int
      <4>1. i < L => i + 1 \in 1 .. L
        BY <1>1
      <4> QED BY <1>2, <4>1
    <3> HIDE DEF d
    <3>2. CASE i < L
      <4>1. v + d(i + 1) \in Int
        BY <3>1, <3>2
      <4>2. \A x \in Int : x % mod \in Int
        OBVIOUS
      <4> QED BY <3>2, <4>1, <4>2
    <3> QED BY <3>2
  <2> HIDE DEF d, L
  <2> QED BY <2>1
<1>4. \A i \in Nat, v \in Int : i < L => h[i][v] = (v + d(i + 1)) % mod
  <2> HIDE DEF d, L
  <2> QED OBVIOUS
<1> HIDE DEF h
<1>5. PICK f : FollowsTo(f, Int, 0, h, L)
  <2> HIDE DEF L
  <2>1. 0 \in Int
    OBVIOUS
  <2> QED BY <1>1, <1>3, <2>1, UpTo
<1>6. f \in [0 .. L -> Int] /\ f[0] = 0 /\ \A i \in 1 .. L : f[i] = h[i - 1][f[i - 1]]
  BY <1>5 DEF FollowsTo
<1>7. ASSUME NEW i \in 1 .. L PROVE f[i] = (f[i - 1] + d(i)) % mod
  <2> HIDE DEF d, L
  <2>1. i - 1 \in Nat /\ i - 1 < L /\ i - 1 \in 0 .. L /\ (i - 1) + 1 = i
    BY <1>1
  <2>2. f[i] = h[i - 1][f[i - 1]] /\ f[i - 1] \in Int
    BY <1>6, <2>1
  <2>3. f[i] = (f[i - 1] + d((i - 1) + 1)) % mod
    BY <1>4, <2>1, <2>2
  <2> QED BY <2>1, <2>3
<1>8. (L + 1) - 1 = L
  BY <1>1
<1>9. ASSUME NEW i \in 1 .. L
      PROVE  HexDigit(a[i - 1]) * pow(16, (L + 1) - 2 - (i - 1), mod) = d(i)
  BY <1>2
<1>10. Rec(f)
  <2>1. f = [i \in 0 .. (L + 1) - 1 |-> f[i]]
    BY <1>6, <1>8
  <2>2. ASSUME NEW i \in 0 .. (L + 1) - 1
        PROVE f[i] = IF i = 0 THEN 0
                     ELSE (f[i - 1] + HexDigit(a[i - 1]) * pow(16, (L + 1) - 2 - (i - 1), mod)) % mod
    <3>1. CASE i = 0
      BY <3>1, <1>6
    <3>2. CASE i # 0
      <4>1. i \in 1 .. L
        BY <1>1, <3>2
      <4>2. f[i] = (f[i - 1] + d(i)) % mod
        BY <4>1, <1>7
      <4> QED BY <3>2, <4>1, <4>2, <1>9
    <3> QED BY <3>1, <3>2
  <2> QED BY <2>1, <2>2
<1> DEFINE p == CHOOSE g : Rec(g)
<1>11. Rec(p)
  BY <1>10
<1>12. str_conv_ahex_int(a, mod) = p[L]
  <2>1. str_get_len(a) = L + 1
    BY LenOf
  <2>2. str_conv_ahex_int(a, mod) = p[(L + 1) - 1]
    BY <2>1 DEF str_conv_ahex_int
  <2> QED BY <2>2, <1>8
<1> HIDE DEF p
<1>13. p[0] = 0 /\ DOMAIN p = 0 .. L /\ p = [i \in 0 .. L |-> p[i]]
  BY <1>1, <1>8, <1>11
<1>14. ASSUME NEW i \in 1 .. L PROVE p[i] = (p[i - 1] + d(i)) % mod
  <2>1. i \in 0 .. (L + 1) - 1 /\ i # 0
    BY <1>1
  <2>2. p[i] = (p[i - 1] + HexDigit(a[i - 1]) * pow(16, (L + 1) - 2 - (i - 1), mod)) % mod
    BY <1>11, <2>1
  <2> QED BY <2>2, <1>9
<1> DEFINE S == {i \in Nat : i <= L => p[i] \in Int}
<1>15. 0 \in S
  BY <1>13
<1>16. ASSUME NEW i \in Nat, i \in S PROVE i + 1 \in S
  <2> SUFFICES ASSUME i + 1 <= L PROVE p[i + 1] \in Int
    OBVIOUS
  <2>1. i <= L /\ i + 1 \in 1 .. L /\ (i + 1) - 1 = i
    BY <1>1
  <2>2. d(i + 1) \in Int
    BY <2>1, <1>2
  <2>3. p[i] \in Int
    BY <2>1, <1>16
  <2>4. p[i + 1] = (p[(i + 1) - 1] + d(i + 1)) % mod
    BY <2>1, <1>14
  <2> HIDE DEF d
  <2>5. p[i] + d(i + 1) \in Int
    BY <2>2, <2>3
  <2>6. \A x \in Int : x % mod \in Int
    OBVIOUS
  <2> QED BY <2>1, <2>4, <2>5, <2>6
<1>17. \A i \in Nat : i \in S
  <2> HIDE DEF S
  <2> QED BY <1>15, <1>16, AllNat
<1>18. p \in [0 .. L -> Int]
  <2>1. \A i \in 0 .. L : p[i] \in Int
    BY <1>1, <1>17
  <2> QED BY <2>1, <1>13
<1>19. AhexSteps(p, w, mod)
  BY <1>13, <1>14, <1>18 DEF AhexSteps
<1> QED BY <1>12, <1>19

\* str_conv_ahex_int() returns an int, whatever the characters are.
LEMMA AhexInt ==
    ASSUME NEW n \in Nat, NEW a \in Arrays(n), NEW w \in Texts, Holds(a, w),
           NEW mod \in Nat \ {0}
    PROVE  str_conv_ahex_int(a, mod) \in 0 .. mod - 1
<1>1. PICK val : AhexSteps(val, w, mod) /\ str_conv_ahex_int(a, mod) = val[Len(w)]
  BY AhexFacts
<1>2. Len(w) \in Nat /\ \A i \in 1 .. Len(w) : w[i] \in 1 .. 127
  BY TextFacts
<1>3. CASE Len(w) = 0
  BY <1>1, <1>3 DEF AhexSteps
<1>4. CASE Len(w) # 0
  <2> DEFINE L == Len(w)
             t == val[L - 1] + HexDigit(w[L]) * pow(16, L - L, mod)
  <2>1. L \in 1 .. L /\ L - 1 \in 0 .. L /\ L - L \in Nat
    BY <1>2, <1>4
  <2>2. val[L] = t % mod /\ val[L - 1] \in Int
    BY <2>1, <1>1 DEF AhexSteps
  <2>3. w[L] \in 0 .. 127
    <3>1. w[L] \in 1 .. 127
      BY <2>1, <1>2
    <3> QED BY <3>1
  <2>4. HexDigit(w[L]) \in Int /\ pow(16, L - L, mod) \in Int
    <3>1. pow(16, L - L, mod) \in Int
      BY <2>1, PowFacts
    <3> QED BY <2>3, <3>1, HexDigitInt
  <2>5. HexDigit(w[L]) * pow(16, L - L, mod) \in Int
    BY <2>4
  <2>6. t \in Int
    BY <2>2, <2>5
  <2> HIDE DEF t
  <2> QED BY <1>1, <2>2, <2>6, DivMod
<1> QED BY <1>3, <1>4

\* What a byte and an int can hold.
LEMMA Weights ==
    /\ \A i \in Nat : ByteWeight(i) \in Nat \ {0}
    /\ ByteMod \in Nat \ {0} /\ IntMod \in Nat \ {0}
    /\ \A i, j \in Nat : ByteWeight(i + j) = ByteWeight(i) * ByteWeight(j)
<1>1. HexPerByte \in Nat \ {0}
  BY ShellAssumption
<1>2. ASSUME NEW i \in Nat PROVE ByteWeight(i) \in Nat \ {0} /\ HexPerByte * i \in Nat
  <2>1. HexPerByte * i \in Nat
    BY <1>1
  <2>2. \A m \in Nat : Power(16, m) \in Nat \ {0}
    BY PowerPositive
  <2> QED BY <2>1, <2>2 DEF ByteWeight
<1>3. ASSUME NEW i \in Nat, NEW j \in Nat
      PROVE  ByteWeight(i + j) = ByteWeight(i) * ByteWeight(j)
  <2> DEFINE x == HexPerByte * i
             y == HexPerByte * j
  <2>1. HexPerByte * (i + j) = x + y /\ x \in Nat /\ y \in Nat
    BY <1>1
  <2> HIDE DEF x, y
  <2>2. Power(16, x + y) = Power(16, x) * Power(16, y)
    BY <2>1, PowerSum
  <2> QED BY <2>1, <2>2 DEF ByteWeight, x, y
<1> QED BY <1>2, <1>3 DEF ByteMod, IntMod

\* The last byte of the address space is not mapped, so an access to mapped
\* bytes does not wrap around.
LEMMA NoWrap ==
    ASSUME NEW addr \in 0 .. IntMod - 1, NEW n \in Nat, Bytes(addr, n) \subseteq Mapped
    PROVE  /\ \A i \in 0 .. n - 1 : addr + i \in Mapped /\ (addr + i) % IntMod = addr + i
           /\ \A a \in Mapped : a \in Bytes(addr, n) <=> a - addr \in 0 .. n - 1
<1>1. IntMod \in Nat \ {0} /\ Mapped \subseteq 0 .. IntMod - 2
  BY Weights, ShellAssumption
<1> DEFINE M == IntMod
<1>2. M \in Nat \ {0} /\ addr \in 0 .. M - 1
  BY <1>1
<1>3. \A x \in 0 .. M - 1 : x % M = x
  <2> HIDE DEF M
  <2> QED BY <1>2
<1>4. ASSUME NEW i \in 0 .. n - 1 PROVE addr + i \in 0 .. M - 1
  <2> SUFFICES ASSUME addr + i >= M PROVE FALSE
    BY <1>2
  <2> DEFINE j == (M - 1) - addr
  <2>1. j \in 0 .. n - 1 /\ addr + j = M - 1 /\ M - 1 \in 0 .. M - 1
    BY <1>2
  <2>2. (addr + j) % M = M - 1
    BY <2>1, <1>3
  <2> HIDE DEF j
  <2>3. M - 1 \in Bytes(addr, n)
    BY <2>1, <2>2 DEF Bytes
  <2>4. M - 1 \in 0 .. M - 2
    BY <1>1, <2>3
  <2> QED BY <1>2, <2>4
<1>5. ASSUME NEW i \in 0 .. n - 1 PROVE addr + i \in Mapped /\ (addr + i) % M = addr + i
  <2>1. (addr + i) % M = addr + i
    BY <1>3, <1>4
  <2>2. addr + i \in Bytes(addr, n)
    BY <2>1 DEF Bytes
  <2> QED BY <2>1, <2>2
<1>6. ASSUME NEW a \in Mapped PROVE a \in Bytes(addr, n) <=> a - addr \in 0 .. n - 1
  <2>1. a \in Int /\ addr \in Int
    BY <1>1, <1>2
  <2>2. ASSUME a \in Bytes(addr, n) PROVE a - addr \in 0 .. n - 1
    <3>1. PICK i \in 0 .. n - 1 : a = (addr + i) % M
      BY <2>2 DEF Bytes
    <3>2. a = addr + i
      BY <3>1, <1>5
    <3> HIDE DEF M
    <3> QED BY <2>1, <3>2
  <2>3. ASSUME a - addr \in 0 .. n - 1 PROVE a \in Bytes(addr, n)
    <3> DEFINE i == a - addr
    <3>1. i \in 0 .. n - 1 /\ a = addr + i
      BY <2>1, <2>3
    <3>2. a = (addr + i) % M
      BY <3>1, <1>5
    <3> HIDE DEF i
    <3> QED BY <3>1, <3>2 DEF Bytes
  <2> QED BY <2>2, <2>3
<1> QED BY <1>5, <1>6

\* What is stored are bytes.
LEMMA StoreBytes ==
    ASSUME NEW m \in [Free -> 0 .. ByteMod - 1], NEW addr \in 0 .. IntMod - 1, NEW n \in Nat,
           Bytes(addr, n) \subseteq Mapped, NEW val \in Nat
    PROVE  Store(m, addr, n, val) \in [Free -> 0 .. ByteMod - 1]
<1> DEFINE s == Store(m, addr, n, val)
           w(a) == (val \div ByteWeight(a - addr)) % ByteMod
<1>1. \A a \in Free : a \in Bytes(addr, n) <=> a - addr \in 0 .. n - 1
  BY NoWrap DEF Free
<1>2. s = [a \in Free |-> IF a \in Bytes(addr, n) THEN w(a) ELSE m[a]]
  BY DEF Store
<1>3. ASSUME NEW a \in Free, a - addr \in 0 .. n - 1 PROVE w(a) \in 0 .. ByteMod - 1
  <2>1. a - addr \in Nat
    BY <1>3
  <2>2. ByteWeight(a - addr) \in Nat \ {0} /\ ByteMod \in Nat \ {0}
    BY <2>1, Weights
  <2> DEFINE W == ByteWeight(a - addr)
  <2> HIDE DEF W
  <2>3. val \div W \in Int
    BY <2>2, DivMod DEF W
  <2> DEFINE q == val \div W
  <2> HIDE DEF q
  <2>4. q % ByteMod \in 0 .. ByteMod - 1
    BY <2>2, <2>3, DivMod DEF q
  <2> QED BY <2>4 DEF q, W
<1> HIDE DEF w
<1>4. ASSUME NEW a \in Free
      PROVE  /\ s[a] = IF a - addr \in 0 .. n - 1 THEN w(a) ELSE m[a]
             /\ s[a] \in 0 .. ByteMod - 1
  BY <1>1, <1>2, <1>3
<1>5. s \in [Free -> 0 .. ByteMod - 1]
  BY <1>2, <1>4
<1> QED BY <1>5

\* And which ones.
LEMMA StoreAt ==
    ASSUME NEW m \in [Free -> 0 .. ByteMod - 1], NEW addr \in 0 .. IntMod - 1, NEW n \in Nat,
           Bytes(addr, n) \subseteq Mapped, NEW val, NEW a \in Free
    PROVE  Store(m, addr, n, val)[a] =
              IF a - addr \in 0 .. n - 1 THEN (val \div ByteWeight(a - addr)) % ByteMod ELSE m[a]
<1>1. a \in Bytes(addr, n) <=> a - addr \in 0 .. n - 1
  BY NoWrap DEF Free
<1>2. DOMAIN m = Free
  OBVIOUS
<1> QED BY <1>1, <1>2 DEF Store

\* The sums of Load.
LoadSteps(val, m, addr, n) ==
    /\ val \in [0 .. n -> Int] /\ val[0] = 0
    /\ \A i \in 1 .. n : val[i] = val[i - 1] * ByteMod + m[addr + n - i]

\* What a load returns is the last of its partial values.
LEMMA LoadFacts ==
    ASSUME NEW m \in [Mapped -> 0 .. ByteMod - 1], NEW addr \in 0 .. IntMod - 1, NEW n \in Nat,
           Bytes(addr, n) \subseteq Mapped
    PROVE  \E val : LoadSteps(val, m, addr, n) /\ Load(m, addr, n) = val[n]
<1> DEFINE b(i) == m[addr + n - i]
           Rec(g) == g = [i \in 0 .. n |-> IF i = 0 THEN 0 ELSE g[i - 1] * ByteMod + b(i)]
           h == [i \in Nat |-> [v \in Int |-> IF i < n THEN v * ByteMod + b(i + 1) ELSE v]]
<1>1. ByteMod \in Nat \ {0}
  BY Weights
<1>2. ASSUME NEW i \in 1 .. n PROVE b(i) \in Int
  <2>1. n - i \in 0 .. n - 1 /\ addr + n - i = addr + (n - i)
    OBVIOUS
  <2>2. addr + n - i \in Mapped
    BY <2>1, NoWrap
  <2>3. b(i) \in 0 .. ByteMod - 1
    BY <2>2
  <2> HIDE DEF b
  <2> QED BY <2>3, <1>1
<1>3. \A v \in Int : v * ByteMod \in Int
  BY <1>1
<1> HIDE DEF b
<1>4. h \in [Nat -> [Int -> Int]]
  <2>1. ASSUME NEW i \in Nat, NEW v \in Int
        PROVE  (IF i < n THEN v * ByteMod + b(i + 1) ELSE v) \in Int
    <3>1. CASE i < n
      <4>1. b(i + 1) \in Int /\ v * ByteMod \in Int
        BY <3>1, <1>2, <1>3
      <4> QED BY <3>1, <4>1
    <3> QED BY <3>1
  <2> QED BY <2>1
<1>5. \A i \in Nat, v \in Int : i < n => h[i][v] = v * ByteMod + b(i + 1)
  OBVIOUS
<1> HIDE DEF h
<1>6. PICK f : FollowsTo(f, Int, 0, h, n)
  <2>1. 0 \in Int
    OBVIOUS
  <2> QED BY <1>4, <2>1, UpTo
<1>7. f \in [0 .. n -> Int] /\ f[0] = 0 /\ \A i \in 1 .. n : f[i] = h[i - 1][f[i - 1]]
  BY <1>6 DEF FollowsTo
<1>8. Rec(f)
  <2>1. f = [i \in 0 .. n |-> f[i]]
    BY <1>7
  <2>2. ASSUME NEW i \in 0 .. n PROVE f[i] = IF i = 0 THEN 0 ELSE f[i - 1] * ByteMod + b(i)
    <3>1. CASE i = 0
      BY <3>1, <1>7
    <3>2. CASE i # 0
      <4>1. i \in 1 .. n /\ i - 1 \in Nat /\ i - 1 < n /\ i - 1 \in 0 .. n /\ (i - 1) + 1 = i
        BY <3>2
      <4>2. f[i] = h[i - 1][f[i - 1]] /\ f[i - 1] \in Int
        BY <1>7, <4>1
      <4>3. f[i] = f[i - 1] * ByteMod + b((i - 1) + 1)
        BY <1>5, <4>1, <4>2
      <4> QED BY <3>2, <4>1, <4>3
    <3> QED BY <3>1, <3>2
  <2> QED BY <2>1, <2>2
<1> DEFINE p == CHOOSE g : Rec(g)
<1>9. Rec(p)
  BY <1>8
<1>10. Load(m, addr, n) = p[n]
  BY DEF Load, b
<1> HIDE DEF p
<1>11. p[0] = 0 /\ p = [i \in 0 .. n |-> p[i]]
  BY <1>9
<1>12. ASSUME NEW i \in 1 .. n PROVE p[i] = p[i - 1] * ByteMod + b(i)
  <2>1. i \in 0 .. n /\ i # 0
    OBVIOUS
  <2> QED BY <1>9, <2>1
<1> DEFINE S == {i \in Nat : i <= n => p[i] \in Int}
<1>13. 0 \in S
  BY <1>11
<1>14. ASSUME NEW i \in Nat, i \in S PROVE i + 1 \in S
  <2> SUFFICES ASSUME i + 1 <= n PROVE p[i + 1] \in Int
    OBVIOUS
  <2>1. i <= n /\ i + 1 \in 1 .. n /\ (i + 1) - 1 = i
    OBVIOUS
  <2>2. p[i + 1] = p[(i + 1) - 1] * ByteMod + b(i + 1) /\ b(i + 1) \in Int /\ p[i] \in Int
    BY <2>1, <1>2, <1>12, <1>14
  <2>3. p[i] * ByteMod \in Int
    BY <2>2, <1>3
  <2> QED BY <2>1, <2>2, <2>3
<1>15. \A i \in Nat : i \in S
  <2> HIDE DEF S
  <2> QED BY <1>13, <1>14, AllNat
<1>16. p \in [0 .. n -> Int]
  <2>1. \A i \in 0 .. n : p[i] \in Int
    BY <1>15
  <2> QED BY <2>1, <1>11
<1>17. LoadSteps(p, m, addr, n)
  BY <1>11, <1>12, <1>16 DEF LoadSteps, b
<1> QED BY <1>10, <1>17

\* The digits dump_hex() shows.
Capital(d) == IF d < 10 THEN Zero + d ELSE UpperA + d - 10

\* dump_hex() shows the digits of the value, the highest first.
LEMMA DumpFacts ==
    ASSUME NEW val \in Int, NEW k \in Nat
    PROVE  /\ dump_hex(val, k) = [j \in 1 .. k |-> Capital((val \div Power(16, k - j)) % 16)]
           /\ \A j \in 1 .. k : (val \div Power(16, k - j)) % 16 \in 0 .. 15
           /\ dump_hex(val, k) \in Texts
<1> DEFINE d(j) == (val \div Power(16, k - j)) % 16
<1>1. dump_hex(val, k) = [j \in 1 .. k |-> Capital(d(j))]
  BY DEF dump_hex, Capital
<1>2. ASSUME NEW j \in 1 .. k PROVE d(j) \in 0 .. 15
  <2>1. k - j \in Nat
    OBVIOUS
  <2> DEFINE W == Power(16, k - j)
  <2>2. W \in Nat \ {0}
    <3>1. \A i \in Nat : Power(16, i) \in Nat \ {0}
      BY PowerPositive
    <3> QED BY <2>1, <3>1
  <2> HIDE DEF W
  <2> DEFINE q == val \div W
  <2>3. q \in Int
    BY <2>2, DivMod
  <2> HIDE DEF q
  <2>4. q % 16 \in 0 .. 15
    BY <2>3
  <2> QED BY <2>4 DEF q, W
<1> HIDE DEF d
<1>3. ASSUME NEW x \in 0 .. 15 PROVE Capital(x) \in 1 .. 127
  BY DEF Capital, Zero, UpperA
<1> DEFINE C == 1 .. 127
<1>4. \A j \in 1 .. k : Capital(d(j)) \in C
  BY <1>2, <1>3
<1> HIDE DEF C
<1>5. [j \in 1 .. k |-> Capital(d(j))] \in Seq(C)
  BY <1>4
<1>6. dump_hex(val, k) \in Texts
  BY <1>1, <1>5 DEF Texts, C
<1> QED BY <1>1, <1>2, <1>6 DEF d

----------------------------------------------------------------------------
(***************************************************************************)
(* The number a word stands for.                                           *)
(***************************************************************************)
ValueSteps(v, w, base) ==
    /\ v \in [0 .. Len(w) -> Int] /\ v[0] = 0
    /\ \A i \in 1 .. Len(w) : v[i] = v[i - 1] * base + HexDigit(w[i])

\* Value is computed by such steps.
LEMMA ValueFacts ==
    ASSUME NEW w \in Texts, NEW base \in Nat
    PROVE  \E v : ValueSteps(v, w, base) /\ Value(w, base) = v[Len(w)]
<1> DEFINE n == Len(w)
           d(i) == HexDigit(w[i])
           Rec(g) == g = [i \in 0 .. n |-> IF i = 0 THEN 0 ELSE g[i - 1] * base + d(i)]
           h == [i \in Nat |-> [v \in Int |-> IF i < n THEN v * base + d(i + 1) ELSE v]]
<1>1. n \in Nat /\ \A i \in 1 .. n : w[i] \in 1 .. 127
  BY TextFacts
<1>2. ASSUME NEW i \in 1 .. n PROVE d(i) \in Int
  <2>1. w[i] \in 1 .. 127
    BY <1>1
  <2>2. w[i] \in 0 .. 127
    BY <2>1
  <2> QED BY <2>2, HexDigitInt
<1>3. \A v \in Int : v * base \in Int
  OBVIOUS
<1>0. Value(w, base) = (CHOOSE g : Rec(g))[n]
  BY DEF Value
<1> HIDE DEF d, n
<1>4. h \in [Nat -> [Int -> Int]]
  <2>1. ASSUME NEW i \in Nat, NEW v \in Int
        PROVE  (IF i < n THEN v * base + d(i + 1) ELSE v) \in Int
    <3>1. CASE i < n
      <4>1. d(i + 1) \in Int /\ v * base \in Int
        BY <3>1, <1>1, <1>2, <1>3
      <4> QED BY <3>1, <4>1
    <3> QED BY <3>1
  <2> QED BY <2>1
<1>5. \A i \in Nat, v \in Int : i < n => h[i][v] = v * base + d(i + 1)
  OBVIOUS
<1> HIDE DEF h
<1>6. PICK f : FollowsTo(f, Int, 0, h, n)
  <2>1. 0 \in Int
    OBVIOUS
  <2> QED BY <1>1, <1>4, <2>1, UpTo
<1>7. f \in [0 .. n -> Int] /\ f[0] = 0 /\ \A i \in 1 .. n : f[i] = h[i - 1][f[i - 1]]
  BY <1>6 DEF FollowsTo
<1>8. Rec(f)
  <2>1. f = [i \in 0 .. n |-> f[i]]
    BY <1>7
  <2>2. ASSUME NEW i \in 0 .. n PROVE f[i] = IF i = 0 THEN 0 ELSE f[i - 1] * base + d(i)
    <3>1. CASE i = 0
      BY <3>1, <1>7
    <3>2. CASE i # 0
      <4>1. i \in 1 .. n /\ i - 1 \in Nat /\ i - 1 < n /\ i - 1 \in 0 .. n /\ (i - 1) + 1 = i
        BY <1>1, <3>2
      <4>2. f[i] = h[i - 1][f[i - 1]] /\ f[i - 1] \in Int
        BY <1>7, <4>1
      <4>3. f[i] = f[i - 1] * base + d((i - 1) + 1)
        BY <1>5, <4>1, <4>2
      <4> QED BY <3>2, <4>1, <4>3
    <3> QED BY <3>1, <3>2
  <2> QED BY <2>1, <2>2
<1> DEFINE p == CHOOSE g : Rec(g)
<1>9. Rec(p)
  BY <1>8
<1>10. Value(w, base) = p[n]
  BY <1>0
<1> HIDE DEF p
<1>11. p[0] = 0 /\ p = [i \in 0 .. n |-> p[i]]
  BY <1>1, <1>9
<1>12. ASSUME NEW i \in 1 .. n PROVE p[i] = p[i - 1] * base + d(i)
  <2>1. i \in 0 .. n /\ i # 0
    BY <1>1
  <2> QED BY <1>9, <2>1
<1> DEFINE S == {i \in Nat : i <= n => p[i] \in Int}
<1>13. 0 \in S
  BY <1>11
<1>14. ASSUME NEW i \in Nat, i \in S PROVE i + 1 \in S
  <2> SUFFICES ASSUME i + 1 <= n PROVE p[i + 1] \in Int
    OBVIOUS
  <2>1. i <= n /\ i + 1 \in 1 .. n /\ (i + 1) - 1 = i
    BY <1>1
  <2>2. p[i + 1] = p[(i + 1) - 1] * base + d(i + 1) /\ d(i + 1) \in Int /\ p[i] \in Int
    BY <2>1, <1>2, <1>12, <1>14
  <2>3. p[i] * base \in Int
    BY <2>2, <1>3
  <2> QED BY <2>1, <2>2, <2>3
<1>15. \A i \in Nat : i \in S
  <2> HIDE DEF S
  <2> QED BY <1>13, <1>14, AllNat
<1>16. p \in [0 .. n -> Int]
  <2>1. \A i \in 0 .. n : p[i] \in Int
    BY <1>1, <1>15
  <2> QED BY <2>1, <1>11
<1>17. ValueSteps(p, w, base)
  BY <1>11, <1>12, <1>16 DEF ValueSteps, d, n
<1> QED BY <1>10, <1>17 DEF n

\* And by no others: steps for a word that begins as w does agree with it.
LEMMA ValueUnique ==
    ASSUME NEW w \in Texts, NEW base \in Nat, NEW u \in Texts, Len(w) <= Len(u),
           \A i \in 1 .. Len(w) : w[i] = u[i], NEW v, ValueSteps(v, u, base)
    PROVE  Value(w, base) = v[Len(w)]
<1>1. PICK p : ValueSteps(p, w, base) /\ Value(w, base) = p[Len(w)]
  BY ValueFacts
<1>2. Len(w) \in Nat /\ Len(u) \in Nat
  BY TextFacts
<1>3. p[0] = 0 /\ \A i \in 1 .. Len(w) : p[i] = p[i - 1] * base + HexDigit(w[i])
  BY <1>1 DEF ValueSteps
<1>4. v[0] = 0 /\ \A i \in 1 .. Len(u) : v[i] = v[i - 1] * base + HexDigit(u[i])
  BY DEF ValueSteps
<1> DEFINE S == {i \in Nat : i <= Len(w) => p[i] = v[i]}
<1>5. 0 \in S
  BY <1>3, <1>4
<1>6. ASSUME NEW i \in Nat, i \in S PROVE i + 1 \in S
  <2> SUFFICES ASSUME i + 1 <= Len(w) PROVE p[i + 1] = v[i + 1]
    OBVIOUS
  <2>1. i <= Len(w) /\ i + 1 \in 1 .. Len(w) /\ i + 1 \in 1 .. Len(u) /\ (i + 1) - 1 = i
    BY <1>2
  <2>2. p[i + 1] = p[(i + 1) - 1] * base + HexDigit(w[i + 1])
    BY <2>1, <1>3
  <2>3. v[i + 1] = v[(i + 1) - 1] * base + HexDigit(u[i + 1])
    BY <2>1, <1>4
  <2>4. p[i] = v[i] /\ w[i + 1] = u[i + 1]
    BY <2>1, <1>6
  <2> QED BY <2>1, <2>2, <2>3, <2>4
<1>7. \A i \in Nat : i \in S
  <2> HIDE DEF S
  <2> QED BY <1>5, <1>6, AllNat
<1> QED BY <1>1, <1>2, <1>7

\* A product of integers and a remainder, as facts the provers can cite.
LEMMA IntFacts ==
    /\ \A x, y \in Int : x * y \in Int /\ x + y \in Int
    /\ \A x, y, z \in Int : (x + y) * z = x * z + y * z /\ (x * y) * z = x * (y * z) /\ x * y = y * x
  OBVIOUS

\* str_conv_ahex_int() is the value of the word cut to an int: the powers of 16
\* that wrap to 0 are those that the cut drops.
LEMMA AhexIsValue ==
    ASSUME NEW n \in Nat, NEW a \in Arrays(n), NEW w \in Texts, Holds(a, w),
           NEW mod \in Nat \ {0}
    PROVE  str_conv_ahex_int(a, mod) = Value(w, 16) % mod /\ Value(w, 16) \in Int
<1> DEFINE L == Len(w)
           P(k) == Power(16, k)
           d(i) == HexDigit(w[i])
<1>1. PICK val : AhexSteps(val, w, mod) /\ str_conv_ahex_int(a, mod) = val[L]
  BY AhexFacts
<1>2. PICK v : ValueSteps(v, w, 16) /\ Value(w, 16) = v[L]
  BY ValueFacts
<1>3. L \in Nat /\ \A i \in 1 .. L : w[i] \in 1 .. 127
  BY TextFacts
<1>4. ASSUME NEW i \in 1 .. L PROVE d(i) \in Int
  <2>1. w[i] \in 1 .. 127
    BY <1>3
  <2>2. w[i] \in 0 .. 127
    BY <2>1
  <2> QED BY <2>2, HexDigitInt
<1>5. /\ val \in [0 .. L -> Int] /\ val[0] = 0
      /\ \A i \in 1 .. L : val[i] = (val[i - 1] + d(i) * pow(16, L - i, mod)) % mod
  BY <1>1 DEF AhexSteps
<1>6. v \in [0 .. L -> Int] /\ v[0] = 0 /\ \A i \in 1 .. L : v[i] = v[i - 1] * 16 + d(i)
  BY <1>2 DEF ValueSteps
<1>7. P(0) = 1 /\ \A k \in Nat : P(k) \in Int /\ P(k + 1) = P(k) * 16
  <2>1. 16 \in Nat
    OBVIOUS
  <2>2. P(0) = 1 /\ \A k \in Nat : P(k) \in Nat /\ P(k + 1) = P(k) * 16
    BY <2>1, PowerFacts, Zenon
  <2> HIDE DEF P
  <2> QED BY <2>2
<1>8. \A k \in Nat : pow(16, k, mod) \in Int
  BY PowFacts
<1>9. \A k \in Nat : pow(16, k, mod) % mod = P(k) % mod
  BY PowIsPower
<1> DEFINE S == {i \in Nat : i <= L => val[i] % mod = (v[i] * P(L - i)) % mod}
<1> HIDE DEF P, d, L
<1>10. 0 \in S
  <2>1. v[0] * P(L - 0) = 0
    <3>1. L - 0 \in Nat
      BY <1>3
    <3>2. P(L - 0) \in Int
      BY <3>1, <1>7
    <3>3. \A x \in Int : 0 * x = 0
      OBVIOUS
    <3> QED BY <3>2, <3>3, <1>6
  <2> QED BY <2>1, <1>5
<1>11. ASSUME NEW i \in Nat, i \in S PROVE i + 1 \in S
  <2> SUFFICES ASSUME i + 1 <= L PROVE val[i + 1] % mod = (v[i + 1] * P(L - (i + 1))) % mod
    OBVIOUS
  <2> DEFINE k == L - (i + 1)
             D == d(i + 1)
             p == pow(16, k, mod)
             Q == P(k)
             x == val[i]
             y == v[i]
  <2>1. i <= L /\ i + 1 \in 1 .. L /\ (i + 1) - 1 = i /\ k \in Nat /\ L - i = k + 1 /\ i \in 0 .. L
    BY <1>3
  <2>2. x \in Int /\ y \in Int /\ D \in Int /\ p \in Int /\ Q \in Int /\ p % mod = Q % mod
    BY <2>1, <1>4, <1>5, <1>6, <1>7, <1>8, <1>9
  <2>3. val[i + 1] = (x + D * p) % mod
    <3>1. val[i + 1] = (val[(i + 1) - 1] + d(i + 1) * pow(16, L - (i + 1), mod)) % mod
      BY <2>1, <1>5
    <3> QED BY <2>1, <3>1
  <2>4. v[i + 1] = y * 16 + D
    <3>1. v[i + 1] = v[(i + 1) - 1] * 16 + d(i + 1)
      BY <2>1, <1>6
    <3> QED BY <2>1, <3>1
  <2>5. x % mod = (y * (Q * 16)) % mod
    <3>1. x % mod = (y * P(L - i)) % mod
      BY <2>1, <1>11
    <3>2. P(L - i) = Q * 16
      BY <2>1, <1>7
    <3> QED BY <3>1, <3>2
  <2> HIDE DEF k, D, p, Q, x, y
  <2> DEFINE A == D * p
             B == D * Q
             Y == y * (Q * 16)
  <2>6. A \in Int /\ B \in Int /\ Y \in Int
    <3>1. 16 \in Int
      OBVIOUS
    <3> QED BY <2>2, <3>1, IntFacts
  <2>7. A % mod = B % mod
    <3>1. SameMod(mod, p, Q)
      BY <2>2 DEF SameMod
    <3>2. SameMod(mod, D * p, D * Q)
      BY <2>2, <3>1, ModProduct
    <3> QED BY <3>2 DEF SameMod
  <2>8. (y * 16 + D) * Q = Y + B
    <3>1. 16 \in Int /\ y * 16 \in Int
      BY <2>2
    <3>2. (y * 16 + D) * Q = (y * 16) * Q + D * Q
      BY <2>2, <3>1, IntFacts
    <3>3. (y * 16) * Q = y * (16 * Q) /\ 16 * Q = Q * 16
      BY <2>2, <3>1, IntFacts
    <3> QED BY <3>2, <3>3
  <2> HIDE DEF A, B, Y
  <2>9. (x + A) % mod = (Y + B) % mod /\ x + A \in Int
    <3>1. SameMod(mod, x, Y) /\ SameMod(mod, A, B)
      BY <2>5, <2>7 DEF SameMod, Y
    <3>2. SameMod(mod, x + A, Y + B)
      BY <2>2, <2>6, <3>1, ModSum
    <3>3. x + A \in Int
      BY <2>2, <2>6
    <3> QED BY <3>2, <3>3 DEF SameMod
  <2>10. ((x + A) % mod) % mod = (x + A) % mod
    BY <2>9, ModTwice
  <2>11. val[i + 1] = (x + A) % mod
    BY <2>3 DEF A
  <2>12. v[i + 1] * P(L - (i + 1)) = Y + B
    BY <2>4, <2>8 DEF Q, k
  <2> QED BY <2>9, <2>10, <2>11, <2>12
<1>12. \A i \in Nat : i \in S
  <2> HIDE DEF S
  <2> QED BY <1>10, <1>11, AllNat
<1>13. val[L] % mod = (v[L] * P(L - L)) % mod
  BY <1>3, <1>12
<1>14. L \in 0 .. L /\ L - L = 0
  BY <1>3
<1>15. v[L] \in Int /\ v[L] * P(L - L) = v[L]
  <2>1. v[L] \in Int
    BY <1>6, <1>14
  <2>2. \A x \in Int : x * 1 = x
    OBVIOUS
  <2> QED BY <2>1, <2>2, <1>7, <1>14
<1>16. val[L] \in 0 .. mod - 1
  BY <1>1, AhexInt
<1>17. \A x \in 0 .. mod - 1 : x % mod = x
  OBVIOUS
<1> QED BY <1>1, <1>2, <1>13, <1>15, <1>16, <1>17

----------------------------------------------------------------------------
(***************************************************************************)
(* The steps of the shell.                                                 *)
(***************************************************************************)
\* The sizes of the arrays, the names and the lines.
LEMMA ConstantFacts ==
    /\ ArgSize \in Nat \ {0} /\ ReadSize \in Nat \ {0} /\ DataSize \in Nat \ {0}
    /\ AddrSize \in Nat \ {0} /\ OtherSize \in Nat \ {0} /\ ReadSize <= ArgSize
    /\ Lines \subseteq Seq(0 .. 127)
    /\ Own \subseteq Mapped /\ Frames \in [Reads \cup Writes -> Nat]
    /\ \A c \in Commands : CommandNames[c] \in Texts
    /\ \A f \in ToSet(Files) : FileNames[f] \in Texts
<1> DEFINE T == Seq(1 .. 127)
<1>1. CommandNames \in [Commands -> T] /\ FileNames \in [ToSet(Files) -> T]
  BY ShellAssumption
<1> HIDE DEF T
<1>2. /\ \A c \in Commands : CommandNames[c] \in T
      /\ \A f \in ToSet(Files) : FileNames[f] \in T
  BY <1>1
<1>3. {ArgSize, ReadSize, DataSize, AddrSize, OtherSize} \subseteq Nat \ {0} /\ ReadSize <= ArgSize
  BY ShellAssumption
<1>4. Lines \subseteq Seq(0 .. 127) /\ Own \subseteq Mapped /\ Frames \in [Reads \cup Writes -> Nat]
  BY ShellAssumption
<1> QED BY <1>2, <1>3, <1>4 DEF T, Texts

\* An array that holds no value yet is still an array of characters.
LEMMA UninitArray ==
    ASSUME stack \in Garbage, NEW n \in Nat
    PROVE  Uninit(n) \in Arrays(n)
<1>1. stack \in 0 .. 127
  BY DEF Garbage, NUL, LowerA
<1> QED BY <1>1 DEF Uninit, Arrays

\* get_command_id() finds the command with exactly this name, if there is one.
LEMMA CommandIdFacts ==
    ASSUME NEW n \in Nat, NEW a \in Arrays(n), NEW w \in Texts, Holds(a, w)
    PROVE  LET id == get_command_id(a)
           IN  \/ id \in Commands /\ CommandNames[id] = w
               \/ id = "COMMAND_NUM" /\ \A c \in Commands : CommandNames[c] # w
<1> DEFINE Ids == {c \in Commands : str_compare(a, CString(CommandNames[c])) = 0}
<1>1. ASSUME NEW c \in Commands
      PROVE  str_compare(a, CString(CommandNames[c])) = 0 <=> w = CommandNames[c]
  <2> DEFINE v == CommandNames[c]
             b == CString(v)
  <2>1. v \in Texts
    BY ConstantFacts
  <2>2. b \in Arrays(Len(v) + 1) /\ Holds(b, v)
    <3> HIDE DEF v
    <3> QED BY <2>1, CStringHolds
  <2>3. Len(v) + 1 \in Nat
    <3> HIDE DEF v
    <3>1. Len(v) \in Nat
      BY <2>1, TextFacts
    <3> QED BY <3>1
  <2> HIDE DEF v, b
  <2>4. str_compare(a, b) = 0 <=> w = v
    BY <2>1, <2>2, <2>3, Compare
  <2> QED BY <2>4 DEF v, b
<1>2. get_command_id(a) = IF Ids = {} THEN "COMMAND_NUM" ELSE CHOOSE c \in Ids : TRUE
  BY DEF get_command_id
<1>3. \A c \in Commands : c \in Ids <=> w = CommandNames[c]
  BY <1>1
<1>4. Ids \subseteq Commands
  OBVIOUS
<1> HIDE DEF Ids
<1>5. CASE Ids = {}
  BY <1>2, <1>3, <1>5
<1>6. CASE Ids # {}
  <2>1. get_command_id(a) \in Ids
    BY <1>2, <1>6
  <2> QED BY <2>1, <1>3, <1>4
<1> QED BY <1>5, <1>6

\* At the start of the shell there is no line and no command, the table is
\* the one fs_init() built.
LEMMA InitInv == Init => ShellInv
<1> SUFFICES ASSUME Init PROVE ShellInv
  OBVIOUS
<1>1. stack \in Garbage /\ pc = "loop" /\ typed = <<>>
  BY DEF Init, Garbage
<1>2. Uninit(ArgSize) \in Arrays(ArgSize) /\ ArgSize \in Nat
  BY <1>1, ConstantFacts, UninitArray
<1>3. TypeOK
  <2>1. <<>> \in Seq(0 .. 127) /\ <<>> \in Seq(1 .. 127)
    OBVIOUS
  <2>2. DOMAIN command = 0 .. ArgSize - 1 /\ DOMAIN args = 0 .. ArgSize - 1
    BY DEF Init, Uninit
  <2>3. mem \in [Free -> 0 .. ByteMod - 1]
    <3>1. 0 \in 0 .. ByteMod - 1
      BY Weights
    <3> QED BY <3>1 DEF Init
  <2>4. walked \in 0 .. Len(Files)
    BY EntryFacts DEF Init
  <2> QED BY <1>1, <2>1, <2>2, <2>3, <2>4 DEF Init, TypeOK
<1>4. TableInv
  BY FsInit DEF Init, TableInv
<1>5. WordsInv
  BY <1>1, <1>2 DEF Init, WordsInv
<1> QED BY <1>1, <1>3, <1>4, <1>5 DEF ShellInv, WalkInv, LineIsAnswered, ShortLinesFit

\* The prompt: shell_main() forgets the last command.
LEMMA MainInv == ShellInv /\ shell_main => ShellInv'
<1> SUFFICES ASSUME ShellInv, shell_main PROVE ShellInv'
  OBVIOUS
<1>1. stack' \in Garbage /\ pc' = "line"
  BY DEF shell_main
<1>2. command' \in Arrays(ArgSize) /\ args' \in Arrays(ArgSize)
  <2>1. stack' \in 0 .. 127
    BY <1>1 DEF Garbage, NUL, LowerA
  <2> QED BY <2>1 DEF shell_main, Uninit, Arrays
<1>3. TypeOK'
  <2>1. <<>> \in Seq(0 .. 127) /\ <<>> \in Seq(1 .. 127)
    OBVIOUS
  <2>2. DOMAIN command' = 0 .. ArgSize - 1 /\ DOMAIN args' = 0 .. ArgSize - 1
    BY <1>2 DEF Arrays
  <2> QED BY <1>1, <2>1, <2>2 DEF ShellInv, TypeOK, shell_main, files
<1>4. TableInv'
  BY DEF ShellInv, TableInv, shell_main, files
<1> QED BY <1>1, <1>2, <1>3, <1>4
     DEF ShellInv, WordsInv, WalkInv, LineIsAnswered, ShortLinesFit

\* get_line() puts the typed line, ended by NUL, into buf.
LEMMA GetLineInv == ASSUME NEW l \in Lines PROVE ShellInv /\ get_line(l) => ShellInv'
<1> SUFFICES ASSUME ShellInv, get_line(l) PROVE ShellInv'
  OBVIOUS
<1>1. l \in Seq(0 .. 127)
  BY ConstantFacts
<1>2. TypeOK'
  BY <1>1 DEF ShellInv, TypeOK, get_line, files
<1>3. TableInv'
  BY DEF ShellInv, TableInv, get_line, files
<1>4. pc' \in {"loop", "split"} /\ (pc' = "loop" => typed' = <<>>)
  BY DEF get_line
<1>5. WordsInv'
  BY <1>4 DEF ShellInv, WordsInv, get_line
<1> QED BY <1>2, <1>3, <1>4, <1>5
     DEF ShellInv, WalkInv, LineIsAnswered, ShortLinesFit

\* What is known of the words at every step.
LEMMA TypedFacts ==
    ASSUME typed \in Seq(0 .. 127)
    PROVE  LET r == RestOf(said)
           IN  /\ said \in Texts /\ WordOf(said) \in Texts /\ r \in Texts
               /\ WordOf(r) \in Texts /\ RestOf(r) \in Texts
               /\ WordOf(RestOf(r)) \in Texts /\ RestOf(RestOf(r)) \in Texts
               /\ Len(said) \in Nat
               /\ Len(WordOf(said)) \in Nat /\ Len(WordOf(said)) <= Len(said)
               /\ Len(r) \in Nat /\ Len(r) <= Len(said)
               /\ Len(WordOf(r)) \in Nat /\ Len(WordOf(r)) <= Len(said)
               /\ Len(RestOf(r)) \in Nat /\ Len(RestOf(r)) <= Len(said)
               /\ Len(WordOf(RestOf(r))) \in Nat
               /\ Len(RestOf(RestOf(r))) \in Nat /\ Len(RestOf(RestOf(r))) <= Len(said)
<1> DEFINE r == RestOf(said)
           q == RestOf(r)
<1>1. said \in Texts
  BY LineHolds DEF said
<1>2. /\ WordOf(said) \in Texts /\ r \in Texts
      /\ Len(WordOf(said)) <= Len(said) /\ Len(r) <= Len(said)
  BY <1>1, WordTexts
<1> HIDE DEF r
<1>3. /\ WordOf(r) \in Texts /\ q \in Texts
      /\ Len(WordOf(r)) <= Len(r) /\ Len(q) <= Len(r)
  BY <1>2, WordTexts
<1> HIDE DEF q
<1>4. /\ WordOf(q) \in Texts /\ RestOf(q) \in Texts
      /\ Len(WordOf(q)) <= Len(q) /\ Len(RestOf(q)) <= Len(q)
  BY <1>3, WordTexts
<1>5. \A w \in Texts : Len(w) \in Nat
  BY TextFacts
<1>6. /\ Len(said) \in Nat /\ Len(WordOf(said)) \in Nat /\ Len(r) \in Nat
      /\ Len(WordOf(r)) \in Nat /\ Len(q) \in Nat
      /\ Len(WordOf(q)) \in Nat /\ Len(RestOf(q)) \in Nat
  BY <1>1, <1>2, <1>3, <1>4, <1>5
<1>7. \A x, y, z \in Nat : x <= y /\ y <= z => x <= z
  OBVIOUS
<1>8. Len(WordOf(r)) <= Len(said) /\ Len(q) <= Len(said) /\ Len(RestOf(q)) <= Len(said)
  BY <1>2, <1>3, <1>4, <1>6, <1>7
<1> QED BY <1>1, <1>2, <1>3, <1>4, <1>6, <1>8 DEF q, r

\* Splitting the line at its first blank leaves its first word in command and
\* the rest in args.
LEMMA SplitInv == ShellInv /\ split_line => ShellInv'
<1> SUFFICES ASSUME ShellInv, split_line PROVE ShellInv'
  OBVIOUS
<1> DEFINE src == CString(typed)
           e == str_get_first_entry(src, command, args)
<1>1. /\ said \in Texts /\ WordOf(said) \in Texts /\ Len(said) \in Nat
      /\ Len(WordOf(said)) \in Nat /\ Len(WordOf(said)) <= Len(said)
      /\ Len(RestOf(said)) \in Nat /\ Len(RestOf(said)) <= Len(said)
  BY TypedFacts DEF ShellInv, TypeOK
<1>2. src \in Arrays(Len(typed) + 1) /\ Holds(src, said) /\ Len(typed) + 1 \in Nat
  BY LineHolds DEF said, ShellInv, TypeOK
<1>3. command \in Arrays(ArgSize) /\ args \in Arrays(ArgSize) /\ ArgSize \in Nat \ {0}
  BY ConstantFacts DEF ShellInv, WordsInv
<1> HIDE DEF src
<1>4. /\ e.ok <=> Len(WordOf(said)) < ArgSize /\ Len(RestOf(said)) < ArgSize
      /\ e.ok => /\ e.first \in Arrays(ArgSize) /\ Holds(e.first, WordOf(said))
                 /\ e.other \in Arrays(ArgSize) /\ Holds(e.other, RestOf(said))
  BY <1>1, <1>2, <1>3, FirstEntry
<1>5. /\ stack' = stack /\ typed' = typed /\ said' = said /\ mem' = mem /\ list' = list /\ fp' = fp
      /\ walked' = walked /\ did' = did /\ shown' = shown
  BY DEF split_line, files, said
<1>6. CASE e.ok
  <2> DEFINE id == get_command_id(e.first)
  <2>1. /\ pc' = "dispatch" /\ command' = e.first /\ args' = e.other /\ command_id' = id
    BY <1>6 DEF split_line, src
  <2>2. \/ id \in Commands /\ CommandNames[id] = WordOf(said)
        \/ id = "COMMAND_NUM" /\ \A c \in Commands : CommandNames[c] # WordOf(said)
    <3> HIDE DEF e
    <3> QED BY <1>1, <1>3, <1>4, <1>6, CommandIdFacts
  <2> HIDE DEF e, id
  <2>3. Named'
    BY <1>5, <2>1, <2>2 DEF Named
  <2>4. TypeOK'
    <3>1. DOMAIN command' = 0 .. ArgSize - 1 /\ DOMAIN args' = 0 .. ArgSize - 1
      BY <1>4, <1>6, <2>1 DEF Arrays
    <3>2. command_id' \in Commands \cup {"COMMAND_NUM"}
      BY <2>1, <2>2
    <3> QED BY <1>5, <2>1, <3>1, <3>2 DEF ShellInv, TypeOK
  <2>5. WordsInv'
    BY <1>4, <1>5, <1>6, <2>1, <2>3 DEF WordsInv
  <2> QED BY <1>5, <2>1, <2>4, <2>5
       DEF ShellInv, TableInv, WalkInv, LineIsAnswered, ShortLinesFit
<1>7. CASE ~e.ok
  <2>1. /\ pc' = "overrun" /\ command' = command /\ args' = args /\ command_id' = command_id
    BY <1>7 DEF split_line, src
  <2> HIDE DEF e
  <2>2. Len(said) >= ReadSize
    BY <1>1, <1>3, <1>4, <1>7, ConstantFacts
  <2>3. TypeOK'
    BY <1>5, <2>1 DEF ShellInv, TypeOK
  <2>4. ShortLinesFit'
    BY <1>5, <2>2 DEF ShortLinesFit
  <2> QED BY <1>3, <1>5, <2>1, <2>3, <2>4
       DEF ShellInv, TableInv, WordsInv, WalkInv, LineIsAnswered
<1> QED BY <1>6, <1>7

\* A command or a file that answers the line has its name.
LEMMA AnswerFacts ==
    ASSUME NEW id
    PROVE  /\ id \in Commands /\ CommandNames[id] = WordOf(said) => id \in Answers(said)
           /\ id \in ToSet(Files) /\ FileNames[id] = WordOf(said) => id \in Answers(said)
           /\ id \in ToSet(Files) => id \notin Commands
<1>1. ToSet(Files) \cap (Commands \cup {fhead}) = {}
  BY ShellAssumption
<1> QED BY <1>1 DEF Answers

\* A step that ends a built-in command keeps the invariant when it shows text
\* and, for echo, the rest of the line.
Ends(id) ==
    /\ pc \in {"dispatch", "read", "write"} /\ command_id = id /\ id \in Commands
    /\ pc' = "loop" /\ did' = id /\ shown' \in Texts
    /\ id = "ECHO" => shown' = RestOf(said)
    /\ UNCHANGED <<line, files>>

\* A command that ends where it was recognised keeps the invariant.
LEMMA EndsInv ==
    ASSUME ShellInv, NEW id, Ends(id), mem' \in [Free -> 0 .. ByteMod - 1]
    PROVE  ShellInv'
<1>1. /\ stack' = stack /\ typed' = typed /\ said' = said
      /\ list' = list /\ fp' = fp /\ walked' = walked
      /\ command' = command /\ args' = args /\ command_id' = command_id
      /\ pc' = "loop" /\ did' = id /\ shown' \in Seq(1 .. 127) /\ id \in Commands
      /\ id = "ECHO" => shown' = RestOf(said)
  BY DEF Ends, line, files, Texts, said
<1>2. TypeOK'
  BY <1>1 DEF ShellInv, TypeOK
<1>3. "COMMAND_NUM" \notin Commands
  BY DEF Commands, Reads, Writes
<1>4. CommandNames[id] = WordOf(said)
  BY <1>3 DEF Ends, ShellInv, WordsInv, Named
<1>5. id \in Answers(said)
  BY <1>1, <1>4, AnswerFacts
<1>6. LineIsAnswered'
  BY <1>1, <1>5 DEF LineIsAnswered, Answers
<1> QED BY <1>1, <1>2, <1>6 DEF ShellInv, TableInv, WordsInv, WalkInv, ShortLinesFit

\* A step to a state about which nothing more is said.
LEMMA StopsInv ==
    ASSUME ShellInv, pc' \in {"halt", "off"}, UNCHANGED <<line, mem, files, did, shown>>
    PROVE  ShellInv'
<1>1. /\ stack' = stack /\ typed' = typed /\ said' = said
      /\ list' = list /\ fp' = fp /\ walked' = walked
      /\ command' = command /\ args' = args /\ command_id' = command_id
      /\ mem' = mem /\ did' = did /\ shown' = shown
  BY DEF line, files, said
<1>2. TypeOK'
  BY <1>1 DEF ShellInv, TypeOK
<1> QED BY <1>1, <1>2
     DEF ShellInv, TableInv, WordsInv, WalkInv, LineIsAnswered, ShortLinesFit

\* The step that harms the shell is explained by its line.
LEMMA HarmInv ==
    ASSUME ShellInv, pc' = "overrun", UNCHANGED <<line, files, did, shown>>,
           mem' \in [Free -> 0 .. ByteMod - 1], ShortLinesFit'
    PROVE  ShellInv'
<1>1. /\ stack' = stack /\ typed' = typed /\ said' = said
      /\ list' = list /\ fp' = fp /\ walked' = walked
      /\ command' = command /\ args' = args /\ command_id' = command_id
      /\ did' = did /\ shown' = shown
  BY DEF line, files, said
<1>2. TypeOK'
  BY <1>1 DEF ShellInv, TypeOK
<1> QED BY <1>1, <1>2 DEF ShellInv, TableInv, WordsInv, WalkInv, LineIsAnswered

\* echo, test and shutdown are such commands.
LEMMA SimpleInv == ShellInv /\ (command_echo \/ command_test \/ command_shutdown) => ShellInv'
<1> SUFFICES ASSUME ShellInv, command_echo \/ command_test \/ command_shutdown PROVE ShellInv'
  OBVIOUS
<1>0. mem \in [Free -> 0 .. ByteMod - 1]
  BY DEF ShellInv, TypeOK
<1>1. CASE command_echo
  <2>1. pc = "dispatch" /\ command_id = "ECHO" /\ mem' = mem
    BY <1>1 DEF command_echo, Is
  <2>2. /\ args \in Arrays(ArgSize) /\ ArgSize \in Nat /\ Holds(args, RestOf(said))
        /\ RestOf(said) \in Texts
    BY <2>1, ConstantFacts, TypedFacts DEF ShellInv, TypeOK, WordsInv
  <2>3. StringOf(args) = RestOf(said)
    BY <2>2, StringIs
  <2>4. Ends("ECHO")
    BY <1>1, <2>1, <2>2, <2>3 DEF command_echo, Return, Ends, Commands
  <2> QED BY <1>0, <2>1, <2>4, EndsInv
<1>2. CASE command_test
  <2>1. PICK id \in {"TEST", "SHUTDOWN"} : Is(id) /\ Return(id, <<>>)
    BY <1>2 DEF command_test
  <2>2. <<>> \in Texts
    BY DEF Texts
  <2>3. Ends(id) /\ mem' = mem
    BY <1>2, <2>1, <2>2 DEF command_test, Is, Return, Ends, Commands
  <2> QED BY <1>0, <2>3, EndsInv
<1>3. CASE command_shutdown
  <2>1. pc' = "off" /\ UNCHANGED <<line, mem, files, did, shown>>
    BY <1>3 DEF command_shutdown
  <2> QED BY <2>1, StopsInv
<1> QED BY <1>1, <1>2, <1>3

\* The step that takes the words from the arguments changes nothing else.
LEMMA WordsStep ==
    ASSUME ShellInv, UNCHANGED <<line, mem, files, did, shown>>,
           pc' \in {"read", "write", "overrun"}, WordsInv', ShortLinesFit'
    PROVE  ShellInv'
<1>1. /\ stack' = stack /\ typed' = typed /\ said' = said
      /\ list' = list /\ fp' = fp /\ walked' = walked
      /\ command' = command /\ args' = args /\ command_id' = command_id
      /\ mem' = mem /\ did' = did /\ shown' = shown
  BY DEF line, files, said
<1>2. TypeOK'
  BY <1>1 DEF ShellInv, TypeOK
<1> QED BY <1>1, <1>2 DEF ShellInv, TableInv, WalkInv, LineIsAnswered

\* command_read*() copies the address word into its array of ReadSize.
LEMMA ReadInv == ASSUME NEW id \in Reads PROVE ShellInv /\ command_read(id) => ShellInv'
<1> SUFFICES ASSUME ShellInv, command_read(id) PROVE ShellInv'
  OBVIOUS
<1> DEFINE u == Uninit(ReadSize)
           e == str_get_first_entry(args, u, u)
           r == RestOf(said)
<1>1. /\ r \in Texts /\ Len(said) \in Nat
      /\ Len(WordOf(r)) \in Nat /\ Len(WordOf(r)) <= Len(said)
      /\ Len(RestOf(r)) \in Nat /\ Len(RestOf(r)) <= Len(said)
  BY TypedFacts DEF ShellInv, TypeOK
<1>2. pc = "dispatch" /\ command_id = id
  BY DEF command_read, Is
<1>3. /\ args \in Arrays(ArgSize) /\ ArgSize \in Nat /\ Holds(args, r) /\ Named
      /\ command \in Arrays(ArgSize) /\ Holds(command, WordOf(said))
  BY <1>2, ConstantFacts DEF ShellInv, WordsInv
<1>4. u \in Arrays(ReadSize) /\ ReadSize \in Nat \ {0}
  BY ConstantFacts, UninitArray DEF ShellInv, TypeOK
<1> HIDE DEF u, r
<1>5. /\ e.ok <=> Len(WordOf(r)) < ReadSize /\ Len(RestOf(r)) < ReadSize
      /\ e.ok => e.first \in Arrays(ReadSize) /\ Holds(e.first, WordOf(r))
  BY <1>1, <1>3, <1>4, FirstEntry
<1>6. UNCHANGED <<line, mem, files, did, shown>>
  BY DEF command_read
<1>7. /\ typed' = typed /\ said' = said /\ command' = command /\ args' = args
      /\ command_id' = command_id
  BY <1>6 DEF line, said
<1>8. CASE e.ok
  <2>1. pc' = "read" /\ first' = e.first
    BY <1>8 DEF command_read, u
  <2> HIDE DEF e
  <2>2. WordsInv'
    BY <1>2, <1>3, <1>5, <1>7, <1>8, <2>1 DEF WordsInv, Named, r
  <2> QED BY <1>6, <2>1, <2>2, WordsStep DEF ShortLinesFit
<1>9. CASE ~e.ok
  <2>1. pc' = "overrun"
    BY <1>9 DEF command_read, u
  <2> HIDE DEF e
  <2>2. Len(said) >= ReadSize
    BY <1>1, <1>4, <1>5, <1>9
  <2>3. WordsInv' /\ ShortLinesFit'
    BY <1>3, <1>7, <2>1, <2>2 DEF WordsInv, ShortLinesFit
  <2> QED BY <1>6, <2>1, <2>3, WordsStep
<1> QED BY <1>8, <1>9

\* command_write*() splits args once more, into data and address.
LEMMA WriteInv == ASSUME NEW id \in Writes PROVE ShellInv /\ command_write(id) => ShellInv'
<1> SUFFICES ASSUME ShellInv, command_write(id) PROVE ShellInv'
  OBVIOUS
<1> DEFINE u == Uninit(DataSize)
           o == Uninit(OtherSize)
           e == str_get_first_entry(args, u, o)
           f == str_get_first_entry(e.other, SecondArray, o)
           r == RestOf(said)
           q == RestOf(r)
<1>1. /\ r \in Texts /\ Len(said) \in Nat /\ q \in Texts
      /\ Len(WordOf(r)) \in Nat /\ Len(WordOf(q)) \in Nat
      /\ Len(q) \in Nat /\ Len(q) <= Len(said)
      /\ Len(RestOf(q)) \in Nat /\ Len(RestOf(q)) <= Len(said)
  BY TypedFacts DEF ShellInv, TypeOK
<1>2. pc = "dispatch" /\ command_id = id
  BY DEF command_write, Is
<1>3. /\ args \in Arrays(ArgSize) /\ ArgSize \in Nat /\ Holds(args, r) /\ Named
      /\ command \in Arrays(ArgSize) /\ Holds(command, WordOf(said))
  BY <1>2, ConstantFacts DEF ShellInv, WordsInv
<1>4. /\ u \in Arrays(DataSize) /\ DataSize \in Nat \ {0}
      /\ o \in Arrays(OtherSize) /\ OtherSize \in Nat \ {0}
      /\ SecondArray \in Arrays(AddrSize) /\ AddrSize \in Nat \ {0}
  BY ConstantFacts, UninitArray DEF ShellInv, TypeOK, SecondArray
<1> HIDE DEF u, o, r, q
<1>5. /\ e.ok <=> Len(WordOf(r)) < DataSize /\ Len(q) < OtherSize
      /\ e.ok => /\ e.first \in Arrays(DataSize) /\ Holds(e.first, WordOf(r))
                 /\ e.other \in Arrays(OtherSize) /\ Holds(e.other, q)
  BY <1>1, <1>3, <1>4, FirstEntry DEF q
<1>6. /\ e.ok /\ f.ok => pc' = "write" /\ first' = e.first /\ second' = f.first
      /\ ~(e.ok /\ f.ok) => pc' = "overrun"
  BY DEF command_write, u, o
<1> HIDE DEF e
<1>7. e.ok => /\ f.ok <=> Len(WordOf(q)) < AddrSize /\ Len(RestOf(q)) < OtherSize
              /\ f.ok => f.first \in Arrays(AddrSize) /\ Holds(f.first, WordOf(q))
  BY <1>1, <1>4, <1>5, FirstEntry
<1> HIDE DEF f
<1>8. UNCHANGED <<line, mem, files, did, shown>>
  BY DEF command_write
<1>9. /\ typed' = typed /\ said' = said /\ command' = command /\ args' = args
      /\ command_id' = command_id
  BY <1>8 DEF line, said
<1>10. CASE e.ok /\ f.ok
  <2>1. WordsInv'
    BY <1>2, <1>3, <1>5, <1>6, <1>7, <1>9, <1>10 DEF WordsInv, Named, q, r
  <2>2. pc' = "write"
    BY <1>6, <1>10
  <2> QED BY <1>8, <2>1, <2>2, WordsStep DEF ShortLinesFit
<1>11. CASE ~(e.ok /\ f.ok)
  <2>1. pc' = "overrun"
    BY <1>6, <1>11
  <2>2. \/ Len(said) >= OtherSize \/ Len(WordOf(r)) >= DataSize \/ Len(WordOf(q)) >= AddrSize
    BY <1>1, <1>4, <1>5, <1>7, <1>11
  <2>3. WordsInv' /\ ShortLinesFit'
    BY <1>3, <1>9, <2>1, <2>2 DEF WordsInv, ShortLinesFit, FirstWord, SecondWord, q, r
  <2> QED BY <1>8, <2>1, <2>3, WordsStep
<1> QED BY <1>10, <1>11

\* The bytes a command takes.
LEMMA WidthFacts ==
    \A id \in Reads \cup Writes : Width[id] \in {1, 2, 4} /\ Width[id] \in Nat /\ id \in Commands
                                 /\ id # "ECHO"
  BY DEF Width, Reads, Writes, Commands

\* The command in progress is the one the first word names.
LEMMA Running ==
    ASSUME ShellInv, pc \in {"read", "write"}
    PROVE  Said(command_id)
<1>1. command_id \in Reads \cup Writes /\ Named
  BY DEF ShellInv, WordsInv
<1>2. command_id # "COMMAND_NUM"
  BY <1>1 DEF Reads, Writes
<1> QED BY <1>1, <1>2 DEF Named, Said

\* pow() nests one call for each digit of the words of the command.
LEMMA PowInv == ASSUME NEW id \in Reads \cup Writes PROVE ShellInv /\ pow_overruns(id) => ShellInv'
<1> SUFFICES ASSUME ShellInv, pow_overruns(id) PROVE ShellInv'
  OBVIOUS
<1>1. /\ pc \in {"read", "write"} /\ command_id = id /\ pc' = "overrun"
      /\ UNCHANGED <<line, mem, files, did, shown>>
      /\ pc = "read" => ~Fits(id, first)
      /\ pc = "write" => ~Fits(id, first) \/ ~Fits(id, second)
  BY DEF pow_overruns
<1>2. /\ FirstWord \in Texts /\ SecondWord \in Texts
      /\ Len(FirstWord) \in Nat /\ Len(SecondWord) \in Nat
  BY TypedFacts DEF ShellInv, TypeOK, FirstWord, SecondWord
<1>3. ASSUME NEW n \in Nat, NEW a \in Arrays(n), NEW w \in Texts, Holds(a, w), Len(w) \in Nat
      PROVE  pow_depth(a) = Len(w)
  <2>1. str_get_len(a) = Len(w) + 1
    BY <1>3, LenOf
  <2> QED BY <1>3, <2>1 DEF pow_depth
<1>4. Frames[id] \in Nat
  BY ConstantFacts
<1>5. Said(id) /\ (pc = "write" => id \in Writes)
  BY <1>1, Running DEF ShellInv, WordsInv
<1>6. ASSUME pc = "read" PROVE Len(FirstWord) > Frames[id]
  <2>1. first \in Arrays(ReadSize) /\ ReadSize \in Nat /\ Holds(first, FirstWord)
    BY <1>6, ConstantFacts DEF ShellInv, WordsInv, FirstWord
  <2>2. pow_depth(first) = Len(FirstWord)
    BY <1>2, <1>3, <2>1
  <2> QED BY <1>1, <1>2, <1>4, <1>6, <2>2 DEF Fits
<1>7. ASSUME pc = "write" PROVE Len(FirstWord) > Frames[id] \/ Len(SecondWord) > Frames[id]
  <2>1. /\ first \in Arrays(DataSize) /\ DataSize \in Nat /\ Holds(first, FirstWord)
        /\ second \in Arrays(AddrSize) /\ AddrSize \in Nat /\ Holds(second, SecondWord)
    BY <1>7, ConstantFacts DEF ShellInv, WordsInv, FirstWord, SecondWord
  <2>2. pow_depth(first) = Len(FirstWord) /\ pow_depth(second) = Len(SecondWord)
    BY <1>2, <1>3, <2>1
  <2> QED BY <1>1, <1>2, <1>4, <1>7, <2>2 DEF Fits
<1>8. ShortLinesFit'
  <2>1. said' = said
    BY <1>1 DEF line, said
  <2> QED BY <1>1, <1>5, <1>6, <1>7, <2>1 DEF ShortLinesFit, Said, FirstWord, SecondWord
<1>9. mem' \in [Free -> 0 .. ByteMod - 1]
  BY <1>1 DEF ShellInv, TypeOK
<1> QED BY <1>1, <1>8, <1>9, HarmInv

\* User memory holds bytes, whatever the shell's own are.
LEMMA MemoryBytes ==
    ASSUME ShellInv, NEW own \in [Own -> 0 .. ByteMod - 1]
    PROVE  /\ Memory(own) \in [Mapped -> 0 .. ByteMod - 1]
           /\ \A a \in Free : a \in Mapped /\ Memory(own)[a] = mem[a]
<1>1. mem \in [Free -> 0 .. ByteMod - 1]
  BY DEF ShellInv, TypeOK
<1>2. \A a \in Mapped : a \notin Own => a \in Free
  BY DEF Free
<1>3. \A a \in Free : a \in Mapped /\ a \notin Own
  BY DEF Free
<1> QED BY <1>1, <1>2, <1>3 DEF Memory

\* The load itself changes no array; outside the mapped pages the task is
\* halted.
LEMMA ReadAccessInv == ASSUME NEW id \in Reads PROVE ShellInv /\ read_access(id) => ShellInv'
<1> SUFFICES ASSUME ShellInv, read_access(id) PROVE ShellInv'
  OBVIOUS
<1> DEFINE addr == str_conv_ahex_int(first, IntMod)
           n == Width[id]
<1>1. pc = "read" /\ command_id = id
  BY DEF read_access
<1>2. /\ first \in Arrays(ReadSize) /\ ReadSize \in Nat /\ Holds(first, WordOf(RestOf(said)))
      /\ WordOf(RestOf(said)) \in Texts
  BY <1>1, ConstantFacts, TypedFacts DEF ShellInv, WordsInv, TypeOK
<1>3. addr \in 0 .. IntMod - 1
  BY <1>2, AhexInt, Weights
<1>4. n \in Nat /\ id \in Commands /\ id # "ECHO"
  BY WidthFacts
<1>5. UNCHANGED <<line, mem, files>> /\ mem \in [Free -> 0 .. ByteMod - 1]
  BY DEF read_access, ShellInv, TypeOK
<1>6. \/ /\ Bytes(addr, n) \subseteq Mapped
         /\ \E own \in [Own -> 0 .. ByteMod - 1] :
               Return(id, dump_hex(Load(Memory(own), addr, n), n * HexPerByte))
      \/ \E v \in {0, ByteMod - 1} : Return(id, dump_hex(v, HexPerByte))
      \/ pc' = "halt" /\ UNCHANGED <<did, shown>>
  BY DEF read_access
<1> HIDE DEF addr, n
<1>7. ASSUME NEW t \in Texts, Return(id, t) PROVE ShellInv'
  <2>1. Ends(id)
    BY <1>1, <1>4, <1>5, <1>7 DEF Ends, Return
  <2> QED BY <1>5, <2>1, EndsInv
<1>8. ByteMod \in Nat \ {0} /\ HexPerByte \in Nat \ {0}
  BY Weights, ShellAssumption
<1>9. ASSUME Bytes(addr, n) \subseteq Mapped, NEW own \in [Own -> 0 .. ByteMod - 1],
             Return(id, dump_hex(Load(Memory(own), addr, n), n * HexPerByte))
      PROVE  ShellInv'
  <2> DEFINE m == Memory(own)
  <2>0. m \in [Mapped -> 0 .. ByteMod - 1]
    BY MemoryBytes
  <2> HIDE DEF m
  <2>1. Load(m, addr, n) \in Int
    <3>1. PICK val : LoadSteps(val, m, addr, n) /\ Load(m, addr, n) = val[n]
      BY <1>3, <1>4, <1>9, <2>0, LoadFacts
    <3>2. n \in 0 .. n
      BY <1>4
    <3> QED BY <3>1, <3>2 DEF LoadSteps
  <2>2. n * HexPerByte \in Nat
    BY <1>4, <1>8
  <2>3. dump_hex(Load(m, addr, n), n * HexPerByte) \in Texts
    BY <2>1, <2>2, DumpFacts
  <2> QED BY <1>7, <1>9, <2>3 DEF m
<1>10. ASSUME NEW v \in {0, ByteMod - 1}, Return(id, dump_hex(v, HexPerByte)) PROVE ShellInv'
  <2>1. v \in Int /\ HexPerByte \in Nat
    BY <1>8
  <2>2. dump_hex(v, HexPerByte) \in Texts
    BY <2>1, DumpFacts
  <2> QED BY <1>7, <1>10, <2>2
<1>11. CASE pc' = "halt" /\ UNCHANGED <<did, shown>>
  BY <1>5, <1>11, StopsInv
<1> QED BY <1>6, <1>9, <1>10, <1>11

\* What the write commands pass to the store.
LEMMA WriteWords ==
    ASSUME ShellInv, pc = "write"
    PROVE  LET data == WordOf(RestOf(said))
               addr == WordOf(RestOf(RestOf(said)))
           IN  /\ str_conv_ahex_int(first, IntMod) = Value(data, 16) % IntMod
               /\ str_conv_ahex_int(first, IntMod) \in 0 .. IntMod - 1
               /\ str_conv_ahex_int(second, IntMod) = Value(addr, 16) % IntMod
               /\ str_conv_ahex_int(second, IntMod) \in 0 .. IntMod - 1
               /\ data \in Texts /\ Value(data, 16) \in Int /\ Value(addr, 16) \in Int
<1>1. /\ first \in Arrays(DataSize) /\ DataSize \in Nat /\ Holds(first, WordOf(RestOf(said)))
      /\ WordOf(RestOf(said)) \in Texts
      /\ second \in Arrays(AddrSize) /\ AddrSize \in Nat
      /\ Holds(second, WordOf(RestOf(RestOf(said)))) /\ WordOf(RestOf(RestOf(said))) \in Texts
  BY ConstantFacts, TypedFacts DEF ShellInv, WordsInv, TypeOK
<1>2. IntMod \in Nat \ {0}
  BY Weights
<1> QED BY <1>1, <1>2, AhexInt, AhexIsValue

\* The store changes memory only.
LEMMA WriteAccessInv == ASSUME NEW id \in Writes PROVE ShellInv /\ write_access(id) => ShellInv'
<1> SUFFICES ASSUME ShellInv, write_access(id) PROVE ShellInv'
  OBVIOUS
<1> DEFINE data == str_conv_ahex_int(first, IntMod)
           addr == str_conv_ahex_int(second, IntMod)
           n == Width[id]
<1>1. pc = "write" /\ command_id = id
  BY DEF write_access
<1>2. /\ first \in Arrays(DataSize) /\ DataSize \in Nat /\ Holds(first, WordOf(RestOf(said)))
      /\ WordOf(RestOf(said)) \in Texts
      /\ second \in Arrays(AddrSize) /\ AddrSize \in Nat
      /\ Holds(second, WordOf(RestOf(RestOf(said)))) /\ WordOf(RestOf(RestOf(said))) \in Texts
  BY <1>1, ConstantFacts, TypedFacts DEF ShellInv, WordsInv, TypeOK
<1>3. data \in 0 .. IntMod - 1 /\ addr \in 0 .. IntMod - 1
  BY <1>2, AhexInt, Weights
<1>4. n \in Nat /\ id \in Commands /\ id # "ECHO"
  BY WidthFacts
<1>5. UNCHANGED <<line, files>> /\ mem \in [Free -> 0 .. ByteMod - 1]
  BY DEF write_access, ShellInv, TypeOK
<1>6. \/ /\ Bytes(addr, n) \subseteq Mapped /\ mem' = Store(mem, addr, n, data)
         /\ \/ Return(id, <<>>)
            \/ /\ id \notin Ports /\ ~(Bytes(addr, n) \subseteq Free)
               /\ pc' = "overrun" /\ UNCHANGED <<did, shown>>
      \/ Return(id, <<>>) /\ mem' = mem
      \/ pc' = "halt" /\ UNCHANGED <<mem, did, shown>>
  <2>1. Bytes(addr, n) \subseteq Free => Bytes(addr, n) \subseteq Mapped
    BY DEF Free
  <2> QED BY <2>1 DEF write_access
<1>10. addr = Value(SecondWord, 16) % IntMod
  BY <1>1, WriteWords DEF SecondWord
<1> HIDE DEF data, addr, n
<1>7. ASSUME mem' \in [Free -> 0 .. ByteMod - 1], Return(id, <<>>) PROVE ShellInv'
  <2>1. <<>> \in Texts
    BY DEF Texts
  <2>2. Ends(id)
    BY <1>1, <1>4, <1>5, <1>7, <2>1 DEF Ends, Return
  <2> QED BY <1>7, <2>2, EndsInv
<1>8. ASSUME Bytes(addr, n) \subseteq Mapped, mem' = Store(mem, addr, n, data)
      PROVE  mem' \in [Free -> 0 .. ByteMod - 1]
  <2>1. data \in Nat
    BY <1>3, Weights
  <2> QED BY <1>3, <1>4, <1>5, <1>8, <2>1, StoreBytes
<1>9. CASE pc' = "halt" /\ UNCHANGED <<mem, did, shown>>
  BY <1>5, <1>9, StopsInv
<1>11. ASSUME Bytes(addr, n) \subseteq Mapped, ~(Bytes(addr, n) \subseteq Free), id \notin Ports,
              pc' = "overrun", UNCHANGED <<did, shown>>, mem' \in [Free -> 0 .. ByteMod - 1]
       PROVE  ShellInv'
  <2>1. Bytes(addr, n) \cap Own # {}
    BY <1>11 DEF Free
  <2>2. said' = said
    BY <1>5 DEF line, said
  <2>3. Said(id)
    BY <1>1, Running
  <2>4. Bytes(Value(SecondWord, 16) % IntMod, Width[id]) \cap Own # {}
    BY <1>10, <2>1 DEF n
  <2>5. ShortLinesFit'
    BY <1>11, <2>2, <2>3, <2>4 DEF ShortLinesFit, Said, SecondWord
  <2> QED BY <1>5, <1>11, <2>5, HarmInv
<1> QED BY <1>5, <1>6, <1>7, <1>8, <1>9, <1>11

\* fs_open() starts at the entry after the head.
LEMMA OpenInv == ShellInv /\ fs_open => ShellInv'
<1> SUFFICES ASSUME ShellInv, fs_open PROVE ShellInv'
  OBVIOUS
<1>1. /\ pc = "dispatch" /\ command_id = "COMMAND_NUM"
      /\ pc' = "open" /\ fp' = list.next[fhead] /\ walked' = 0
      /\ stack' = stack /\ typed' = typed /\ said' = said /\ list' = list
      /\ command' = command /\ args' = args /\ command_id' = command_id
      /\ mem' = mem /\ did' = did /\ shown' = shown
  BY DEF fs_open, Is, line, said
<1>2. Len(Files) \in Nat /\ 0 \in 0 .. Len(Files)
  BY EntryFacts
<1>3. fp' = Entry(0 + 1)
  <2>1. list.next[Entry(0)] = Entry(0 + 1) /\ Entry(0) = fhead
    BY <1>2, EntryFacts DEF ShellInv, TableInv
  <2> QED BY <1>1, <2>1
<1>4. \A k : Entry(k) \in ToSet(Files) \cup {fhead}
  BY EntryFacts DEF Entry
<1>5. TypeOK'
  BY <1>1, <1>2, <1>3, <1>4 DEF ShellInv, TypeOK
<1>6. WalkInv'
  <2>1. 1 .. 0 = {}
    OBVIOUS
  <2> QED BY <1>1, <1>3, <2>1 DEF WalkInv
<1>7. WordsInv'
  BY <1>1 DEF ShellInv, WordsInv, Named
<1> QED BY <1>1, <1>5, <1>6, <1>7 DEF ShellInv, TableInv, LineIsAnswered, ShortLinesFit

\* Each turn of the loop of fs_open() moves to the next entry of the table,
\* and stops at the name or at the head.
LEMMA OpenNextInv == ShellInv /\ fs_open_next => ShellInv'
<1> SUFFICES ASSUME ShellInv, fs_open_next PROVE ShellInv'
  OBVIOUS
<1>1. /\ pc = "open" /\ stack' = stack /\ typed' = typed /\ said' = said /\ list' = list
      /\ command' = command /\ args' = args /\ command_id' = command_id /\ mem' = mem
  BY DEF fs_open_next, line, said
<1>2. /\ fp = Entry(walked + 1) /\ walked \in 0 .. Len(Files) /\ Len(Files) \in Nat
      /\ \A k \in 1 .. walked : FileNames[Files[k]] # WordOf(said)
  BY <1>1, EntryFacts DEF ShellInv, WalkInv, TypeOK
<1>3. /\ command_id = "COMMAND_NUM" /\ command \in Arrays(ArgSize) /\ ArgSize \in Nat
      /\ Holds(command, WordOf(said)) /\ WordOf(said) \in Texts
      /\ \A c \in Commands : CommandNames[c] # WordOf(said)
  <2>1. "COMMAND_NUM" \notin Commands
    BY DEF Commands, Reads, Writes
  <2> QED BY <1>1, <2>1, ConstantFacts, TypedFacts DEF ShellInv, WalkInv, WordsInv, Named, TypeOK
<1>4. \A k : Entry(k) \in ToSet(Files) \cup {fhead}
  BY EntryFacts DEF Entry
<1>5. CASE fp = fhead
  <2>1. pc' = "loop" /\ did' = "unknown" /\ shown' = <<>> /\ walked' = 0 /\ fp' = fp
    BY <1>5 DEF fs_open_next, Return
  <2>2. walked = Len(Files)
    <3> SUFFICES ASSUME walked # Len(Files) PROVE FALSE
      OBVIOUS
    <3>1. walked + 1 \in 1 .. Len(Files)
      BY <1>2
    <3> QED BY <3>1, <1>2, <1>5, EntryFacts
  <2>3. Answers(said) = {}
    <3>1. \A f \in ToSet(Files) : FileNames[f] # WordOf(said)
      BY <1>2, <2>2, EntryFacts
    <3> QED BY <1>3, <3>1 DEF Answers
  <2>4. LineIsAnswered'
    BY <1>1, <2>1, <2>3 DEF LineIsAnswered, Answers
  <2>5. TypeOK'
    <3>1. <<>> \in Seq(1 .. 127) /\ 0 \in 0 .. Len(Files)
      BY <1>2
    <3> QED BY <1>1, <2>1, <3>1 DEF ShellInv, TypeOK
  <2> QED BY <1>1, <2>1, <2>4, <2>5 DEF ShellInv, TableInv, WordsInv, WalkInv, ShortLinesFit
<1>6. CASE fp # fhead
  <2>1. walked + 1 \in 1 .. Len(Files) /\ fp \in ToSet(Files) /\ fp = Files[walked + 1]
    BY <1>2, <1>6, EntryFacts DEF Entry
  <2> DEFINE v == FileNames[fp]
             b == CString(v)
  <2>2. v \in Texts
    BY <2>1, ConstantFacts
  <2>3. str_compare(command, b) = 0 <=> WordOf(said) = v
    <3> HIDE DEF v
    <3>1. b \in Arrays(Len(v) + 1) /\ Holds(b, v)
      BY <2>2, CStringHolds
    <3>2. Len(v) + 1 \in Nat
      <4>1. Len(v) \in Nat
        BY <2>2, TextFacts
      <4> QED BY <4>1
    <3> HIDE DEF b
    <3> QED BY <1>3, <2>2, <3>1, <3>2, Compare
  <2>4. CASE WordOf(said) = v
    <3>1. pc' = "exec" /\ fp' = fp /\ walked' = walked /\ did' = did /\ shown' = shown
      BY <1>6, <2>3, <2>4 DEF fs_open_next
    <3>2. TypeOK'
      BY <1>1, <3>1 DEF ShellInv, TypeOK
    <3>3. WalkInv'
      BY <1>1, <1>3, <2>1, <2>4, <3>1 DEF WalkInv
    <3>4. WordsInv'
      BY <1>1, <3>1 DEF ShellInv, WordsInv, Named
    <3> QED BY <1>1, <3>1, <3>2, <3>3, <3>4 DEF ShellInv, TableInv, LineIsAnswered, ShortLinesFit
  <2>5. CASE WordOf(said) # v
    <3>1. /\ fp' = list.next[fp] /\ walked' = walked + 1
          /\ pc' = pc /\ did' = did /\ shown' = shown
      BY <1>6, <2>3, <2>5 DEF fs_open_next
    <3>2. fp' = Entry((walked + 1) + 1)
      <4>1. walked + 1 \in 0 .. Len(Files) /\ Entry(walked + 1) = fp
        BY <1>2, <2>1
      <4>2. list.next[Entry(walked + 1)] = Entry((walked + 1) + 1)
        BY <4>1 DEF ShellInv, TableInv
      <4> QED BY <3>1, <4>1, <4>2
    <3>3. TypeOK'
      <4>1. walked' \in 0 .. Len(Files) /\ fp' \in ToSet(Files) \cup {fhead}
        BY <1>4, <2>1, <3>1, <3>2
      <4> QED BY <1>1, <3>1, <4>1 DEF ShellInv, TypeOK
    <3>4. \A k \in 1 .. walked + 1 : FileNames[Files[k]] # WordOf(said)
      <4> SUFFICES ASSUME NEW k \in 1 .. walked + 1 PROVE FileNames[Files[k]] # WordOf(said)
        OBVIOUS
      <4>1. k = walked + 1 \/ k \in 1 .. walked
        BY <1>2
      <4> QED BY <4>1, <1>2, <2>1, <2>5
    <3>5. WalkInv'
      BY <1>1, <1>3, <3>1, <3>2, <3>4 DEF WalkInv
    <3>6. WordsInv'
      BY <1>1, <3>1 DEF ShellInv, WordsInv, Named
    <3> QED BY <1>1, <3>1, <3>3, <3>5, <3>6 DEF ShellInv, TableInv, LineIsAnswered, ShortLinesFit
  <2> QED BY <2>4, <2>5
<1> QED BY <1>5, <1>6

\* exec() answers the line when the file is found.
LEMMA ExecInv == ShellInv /\ exec => ShellInv'
<1> SUFFICES ASSUME ShellInv, exec PROVE ShellInv'
  OBVIOUS
<1>1. /\ pc = "exec" /\ stack' = stack /\ typed' = typed /\ said' = said /\ list' = list
      /\ command' = command /\ args' = args /\ command_id' = command_id /\ mem' = mem
      /\ pc' = "loop" /\ did' = fp /\ shown' = <<>> /\ fp' = fhead /\ walked' = 0
  BY DEF exec, Return, line, said
<1>2. fp \in ToSet(Files) /\ FileNames[fp] = WordOf(said)
  BY <1>1 DEF ShellInv, WalkInv
<1>3. fp \in Answers(said) /\ fp # "ECHO"
  BY <1>2, AnswerFacts DEF Commands
<1>4. TypeOK'
  <2>1. <<>> \in Seq(1 .. 127) /\ 0 \in 0 .. Len(Files)
    BY EntryFacts
  <2> QED BY <1>1, <1>2, <2>1 DEF ShellInv, TypeOK
<1>5. LineIsAnswered'
  BY <1>1, <1>3 DEF LineIsAnswered, Answers
<1> QED BY <1>1, <1>4, <1>5 DEF ShellInv, TableInv, WordsInv, WalkInv, ShortLinesFit

\* A step that changes nothing keeps the invariant.
LEMMA StutterInv == ShellInv /\ UNCHANGED vars => ShellInv'
  BY DEF ShellInv, TypeOK, TableInv, WordsInv, Named, WalkInv, LineIsAnswered, ShortLinesFit,
         Answers, Said, FirstWord, SecondWord, said, vars, line, files

\* Every step keeps the invariant.
LEMMA NextInv == ShellInv /\ [Next]_vars => ShellInv'
<1> SUFFICES ASSUME ShellInv, [Next]_vars PROVE ShellInv'
  OBVIOUS
<1>1. CASE shell_main
  BY <1>1, MainInv
<1>2. ASSUME NEW l \in Lines, get_line(l) PROVE ShellInv'
  BY <1>2, GetLineInv
<1>3. CASE split_line
  BY <1>3, SplitInv
<1>4. CASE command_echo \/ command_test \/ command_shutdown
  BY <1>4, SimpleInv
<1>5. ASSUME NEW id \in Reads, command_read(id) \/ pow_overruns(id) \/ read_access(id) PROVE ShellInv'
  BY <1>5, ReadInv, PowInv, ReadAccessInv
<1>6. ASSUME NEW id \in Writes, command_write(id) \/ pow_overruns(id) \/ write_access(id) PROVE ShellInv'
  BY <1>6, WriteInv, PowInv, WriteAccessInv
<1>7. CASE fs_open
  BY <1>7, OpenInv
<1>8. CASE fs_open_next
  BY <1>8, OpenNextInv
<1>9. CASE exec
  BY <1>9, ExecInv
<1>10. CASE stopped \/ UNCHANGED vars
  BY <1>10, StutterInv DEF stopped
<1> QED BY <1>1, <1>2, <1>3, <1>4, <1>5, <1>6, <1>7, <1>8, <1>9, <1>10 DEF Next

\* The shell invariant holds in every reachable state.
LEMMA ShellInvariant == Spec => []ShellInv
<1>1. Init => ShellInv
  BY InitInv
<1>2. ShellInv /\ [Next]_vars => ShellInv'
  BY NextInv
<1> QED BY <1>1, <1>2, PTL DEF Spec

\* The arrays hold what the words say they hold.
LEMMA WordsHeld == ShellInv => WordsExact
<1> SUFFICES ASSUME ShellInv PROVE WordsExact
  OBVIOUS
<1>1. /\ WordOf(said) \in Texts /\ RestOf(said) \in Texts /\ WordOf(RestOf(said)) \in Texts
      /\ WordOf(RestOf(RestOf(said))) \in Texts
  BY TypedFacts DEF ShellInv, TypeOK
<1>2. ArgSize \in Nat /\ ReadSize \in Nat /\ DataSize \in Nat /\ AddrSize \in Nat
  BY ConstantFacts
<1>3. \A n \in Nat : \A a \in Arrays(n) : \A w \in Texts : Holds(a, w) => StringOf(a) = w
  BY StringIs
<1> QED BY <1>1, <1>2, <1>3 DEF ShellInv, WordsInv, WordsExact

(***************************************************************************)
(* Whatever is typed, the variables of shell_main() keep their types: the  *)
(* arrays their sizes, the walk of fs_open() within the table, the memory  *)
(* bytes and the display characters.                                       *)
(***************************************************************************)
THEOREM ShellType == Spec => []TypeOK
<1>1. ShellInv => TypeOK
  BY DEF ShellInv
<1> QED BY <1>1, ShellInvariant, PTL

(***************************************************************************)
(* shell_main() answers every line that harms nothing, also one with the   *)
(* NUL of a key without a character in it, with the command or file its    *)
(* first word names, or says that there is none, and echo shows the rest   *)
(* of the line up to the NUL.                                              *)
(***************************************************************************)
THEOREM ShellAnswers == Spec => []LineIsAnswered
<1>1. ShellInv => LineIsAnswered
  BY DEF ShellInv
<1> QED BY <1>1, ShellInvariant, PTL

(***************************************************************************)
(* str_get_first_entry() fills arrays it never clears so that they hold    *)
(* exactly the words of the line, for every line and every stack content.  *)
(***************************************************************************)
THEOREM ShellWords == Spec => []WordsExact
<1> QED BY WordsHeld, ShellInvariant, PTL

(***************************************************************************)
(* The shell is harmed only by a line or a word as long as one of the      *)
(* arrays, by a number with more digits than the stack takes calls of      *)
(* pow(), or by a write to its own code or stacks, although no copy, no    *)
(* recursion and no store checks a bound.                                  *)
(***************************************************************************)
THEOREM ShellFits == Spec => []ShortLinesFit
<1>1. ShellInv => ShortLinesFit
  BY DEF ShellInv
<1> QED BY <1>1, ShellInvariant, PTL

----------------------------------------------------------------------------
(***************************************************************************)
(* Numbers in memory and on the screen.                                    *)
(***************************************************************************)
\* The digit of a hexadecimal word that counts 16 to the power k.
LEMMA WordDigit ==
    ASSUME NEW w \in Texts, IsHex(w)
    PROVE  /\ Value(w, 16) \in Nat
           /\ \A k \in Nat : (Value(w, 16) \div Power(16, k)) % 16 =
                 IF k < Len(w) THEN HexDigit(w[Len(w) - k]) ELSE 0
<1> DEFINE L == Len(w)
           d(i) == HexDigit(w[i])
<1>1. PICK v : ValueSteps(v, w, 16) /\ Value(w, 16) = v[L]
  BY ValueFacts
<1>2. L \in Nat /\ DOMAIN w = 1 .. L /\ \A i \in 1 .. L : w[i] \in 1 .. 127
  BY TextFacts
<1>3. ASSUME NEW i \in 1 .. L PROVE d(i) \in 0 .. 15
  <2>1. w[i] \in (Zero .. Zero + 9) \cup (LowerA .. LowerA + 5)
    BY <1>2 DEF IsHex
  <2> DEFINE c == w[i]
  <2>2. c \in (48 .. 57) \cup (97 .. 102)
    BY <2>1 DEF Zero, LowerA
  <2> HIDE DEF c
  <2>3. HexDigit(c) \in 0 .. 15
    BY <2>2 DEF HexDigit, Zero, LowerA
  <2> QED BY <2>3 DEF c
<1>4. v \in [0 .. L -> Int] /\ v[0] = 0 /\ \A i \in 1 .. L : v[i] = v[i - 1] * 16 + d(i)
  BY <1>1 DEF ValueSteps
<1> HIDE DEF d, L
<1> DEFINE S == {i \in Nat : i <= L => v[i] \in Nat}
<1>5. 0 \in S
  BY <1>4
<1>6. ASSUME NEW i \in Nat, i \in S PROVE i + 1 \in S
  <2> SUFFICES ASSUME i + 1 <= L PROVE v[i + 1] \in Nat
    OBVIOUS
  <2>1. i <= L /\ i + 1 \in 1 .. L /\ (i + 1) - 1 = i
    BY <1>2
  <2>2. v[i + 1] = v[(i + 1) - 1] * 16 + d(i + 1) /\ d(i + 1) \in 0 .. 15 /\ v[i] \in Nat
    BY <2>1, <1>3, <1>4, <1>6
  <2> QED BY <2>1, <2>2
<1>7. \A i \in Nat : i \in S
  <2> HIDE DEF S
  <2> QED BY <1>5, <1>6, AllNat
<1>8. \A i \in 0 .. L : v[i] \in Nat
  BY <1>2, <1>7
<1>9. ASSUME NEW i \in 1 .. L
      PROVE v[i] % 16 = d(i) /\ v[i] \div 16 = v[i - 1] /\ v[i - 1] \in Int /\ v[i] \in Int
  <2>1. i - 1 \in 0 .. L /\ i \in 0 .. L
    BY <1>2
  <2> DEFINE x == v[i - 1]
             y == v[i]
             e == d(i)
  <2>2. x \in Int /\ y \in Int /\ e \in 0 .. 15 /\ y = x * 16 + e
    BY <2>1, <1>3, <1>4
  <2> HIDE DEF x, y, e
  <2>3. y % 16 = e /\ y \div 16 = x
    BY <2>2
  <2> QED BY <2>2, <2>3 DEF x, y, e
<1> DEFINE V == v[L]
           u(k) == IF k <= L THEN v[L - k] ELSE 0
           T == {k \in Nat : V \div Power(16, k) = u(k)}
<1>10. V \in Nat
  BY <1>2, <1>8
<1>11. Power(16, 0) = 1 /\ \A k \in Nat : Power(16, k + 1) = Power(16, k) * 16
  BY PowerFacts
<1>12. \A k \in Nat : Power(16, k) \in Nat \ {0}
  BY PowerPositive
<1>13. ASSUME NEW k \in Nat
       PROVE  /\ u(k) \div 16 = u(k + 1)
              /\ u(k) % 16 = IF k < L THEN d(L - k) ELSE 0
  <2>1. CASE k < L
    <3>1. L - k \in 1 .. L /\ L - (k + 1) = (L - k) - 1 /\ k <= L /\ k + 1 <= L
      BY <1>2, <2>1
    <3> QED BY <2>1, <3>1, <1>9
  <2>2. CASE ~(k < L)
    <3>1. u(k) = 0 /\ u(k + 1) = 0
      <4>1. ~(k + 1 <= L) /\ (k <= L => L - k = 0)
        BY <1>2, <2>2
      <4> QED BY <4>1, <1>4
    <3>2. 0 \div 16 = 0 /\ 0 % 16 = 0
      OBVIOUS
    <3> QED BY <2>2, <3>1, <3>2
  <2> QED BY <2>1, <2>2
<1>14. 0 \in T
  <2>1. u(0) = V /\ L - 0 = L
    BY <1>2
  <2>2. \A x \in Nat : x \div 1 = x
    OBVIOUS
  <2> HIDE DEF V, u
  <2> QED BY <2>1, <2>2, <1>10, <1>11
<1> HIDE DEF V, u
<1>15. ASSUME NEW k \in Nat, k \in T PROVE k + 1 \in T
  <2> DEFINE a == Power(16, k)
  <2>1. a \in Nat \ {0} /\ Power(16, k + 1) = a * 16 /\ V \div a = u(k)
    BY <1>11, <1>12, <1>15
  <2> HIDE DEF a
  <2>2. (V \div a) \div 16 = V \div (a * 16)
    <3>1. 16 \in Nat \ {0} /\ V \in Int
      BY <1>10
    <3> QED BY <2>1, <3>1, DivTwice
  <2> QED BY <2>1, <2>2, <1>13
<1>16. \A k \in Nat : k \in T
  <2> HIDE DEF T
  <2> QED BY <1>14, <1>15, AllNat
<1>17. ASSUME NEW k \in Nat
       PROVE  (V \div Power(16, k)) % 16 = IF k < L THEN d(L - k) ELSE 0
  BY <1>13, <1>16
<1> QED BY <1>1, <1>10, <1>17 DEF V, L, d

\* The cut to an int loses none of the bytes a store takes from it.
LEMMA StoredByte ==
    ASSUME NEW V \in Int, NEW i \in 0 .. 3
    PROVE  ((V % IntMod) \div ByteWeight(i)) % ByteMod = (V \div ByteWeight(i)) % ByteMod
<1> DEFINE a == ByteWeight(i)
           b == ByteWeight(4 - i)
           c == ByteWeight(3 - i)
<1>0. i \in Nat /\ 4 - i \in Nat /\ 3 - i \in Nat /\ i + (4 - i) = 4 /\ 1 + (3 - i) = 4 - i /\ 1 \in Nat
  OBVIOUS
<1>1. a \in Nat \ {0} /\ b \in Nat \ {0} /\ c \in Nat \ {0} /\ ByteMod \in Nat \ {0}
  BY <1>0, Weights
<1>2. IntMod = a * b
  <2>1. ByteWeight(i + (4 - i)) = a * b
    BY <1>0, Weights
  <2> QED BY <1>0, <2>1 DEF IntMod
<1>3. b = ByteMod * c
  <2>1. ByteWeight(1 + (3 - i)) = ByteWeight(1) * c
    BY <1>0, Weights
  <2> QED BY <1>0, <2>1 DEF ByteMod
<1> HIDE DEF a, b, c
<1> DEFINE q == V \div a
<1>4. (V % (a * b)) \div a = q % b
  BY <1>1, DivTwice, ZenonT(60)
<1>5. q \in Int
  BY <1>1, DivMod
<1> HIDE DEF q
<1>6. (q % (ByteMod * c)) % ByteMod = q % ByteMod
  BY <1>1, <1>5, DivTwice, ZenonT(60)
<1> QED BY <1>2, <1>3, <1>4, <1>6 DEF a, q

\* The bytes of a number, loaded again, are the number cut to their weight.
LEMMA LoadValue ==
    ASSUME NEW m \in [Mapped -> 0 .. ByteMod - 1], NEW addr \in 0 .. IntMod - 1, NEW n \in Nat,
           Bytes(addr, n) \subseteq Mapped, NEW V \in Int,
           \A i \in 0 .. n - 1 : m[addr + i] = (V \div ByteWeight(i)) % ByteMod
    PROVE  Load(m, addr, n) = V % ByteWeight(n)
<1>1. PICK val : LoadSteps(val, m, addr, n) /\ Load(m, addr, n) = val[n]
  BY LoadFacts
<1>2. val[0] = 0 /\ \A i \in 1 .. n : val[i] = val[i - 1] * ByteMod + m[addr + n - i]
  BY <1>1 DEF LoadSteps
<1>3. \A i \in Nat : ByteWeight(i) \in Nat \ {0}
  BY Weights
<1>4. ByteWeight(0) = 1
  <2>1. HexPerByte * 0 = 0
    BY ShellAssumption
  <2> QED BY <2>1, PowerFacts DEF ByteWeight
<1>5. \A i \in Nat : ByteWeight(i + 1) = ByteWeight(i) * ByteMod /\ ByteWeight(i + 1) = ByteMod * ByteWeight(i)
  <2> SUFFICES ASSUME NEW i \in Nat
               PROVE  ByteWeight(i + 1) = ByteWeight(i) * ByteMod /\ ByteWeight(i + 1) = ByteMod * ByteWeight(i)
    OBVIOUS
  <2>1. ByteWeight(i + 1) = ByteWeight(i) * ByteWeight(1) /\ ByteWeight(1 + i) = ByteWeight(1) * ByteWeight(i)
    BY Weights
  <2>2. i + 1 = 1 + i
    OBVIOUS
  <2> QED BY <2>1, <2>2 DEF ByteMod
<1> DEFINE S == {i \in Nat : i <= n => val[i] = (V \div ByteWeight(n - i)) % ByteWeight(i)}
<1>6. 0 \in S
  <2>1. n - 0 \in Nat
    OBVIOUS
  <2> DEFINE W == ByteWeight(n - 0)
             q == V \div W
  <2>2. W \in Nat \ {0}
    BY <2>1, <1>3
  <2> HIDE DEF W
  <2>3. q \in Int
    BY <2>2, DivMod
  <2> HIDE DEF q
  <2>4. q % 1 = 0
    BY <2>3
  <2> QED BY <2>4, <1>2, <1>4 DEF q, W
<1>7. ASSUME NEW i \in Nat, i \in S PROVE i + 1 \in S
  <2> SUFFICES ASSUME i + 1 <= n
               PROVE  val[i + 1] = (V \div ByteWeight(n - (i + 1))) % ByteWeight(i + 1)
    OBVIOUS
  <2> DEFINE k == n - (i + 1)
             a == ByteWeight(k)
             b == ByteWeight(i)
             x == V \div a
  <2>1. /\ k \in Nat /\ k \in 0 .. n - 1 /\ n - i = k + 1 /\ i <= n /\ i + 1 \in 1 .. n
        /\ (i + 1) - 1 = i /\ addr + n - (i + 1) = addr + k
    OBVIOUS
  <2>2. a \in Nat \ {0} /\ b \in Nat \ {0} /\ ByteMod \in Nat \ {0}
    BY <2>1, <1>3, Weights
  <2>3. val[i + 1] = val[i] * ByteMod + (x % ByteMod)
    <3>1. val[i + 1] = val[(i + 1) - 1] * ByteMod + m[addr + n - (i + 1)]
      BY <2>1, <1>2
    <3>2. m[addr + k] = x % ByteMod
      BY <2>1
    <3> QED BY <2>1, <3>1, <3>2
  <2>4. val[i] = (V \div (a * ByteMod)) % b
    <3>1. val[i] = (V \div ByteWeight(n - i)) % ByteWeight(i)
      BY <2>1, <1>7
    <3>2. ByteWeight(n - i) = a * ByteMod
      BY <2>1, <1>5
    <3> QED BY <3>1, <3>2
  <2>5. ByteWeight(i + 1) = ByteMod * b
    BY <1>5
  <2> HIDE DEF k, a, b
  <2>6. (V \div a) \div ByteMod = V \div (a * ByteMod)
    BY <2>2, DivTwice
  <2>7. x \in Int
    BY <2>2, DivMod
  <2>8. val[i] = (x \div ByteMod) % b
    BY <2>4, <2>6
  <2>9. ByteWeight(n - (i + 1)) = a
    BY DEF a, k
  <2> HIDE DEF x
  <2>10. x % (ByteMod * b) = ByteMod * ((x \div ByteMod) % b) + (x % ByteMod)
    BY <2>2, <2>7, DivTwice
  <2>11. val[i] \in Int
    <3>1. i \in 0 .. n
      BY <2>1
    <3> QED BY <1>1, <3>1 DEF LoadSteps
  <2>12. val[i] * ByteMod = ByteMod * val[i]
    BY <2>2, <2>11
  <2>13. val[i + 1] = x % ByteWeight(i + 1)
    BY <2>3, <2>5, <2>8, <2>10, <2>12
  <2> QED BY <2>9, <2>13 DEF x
<1>8. \A i \in Nat : i \in S
  <2> HIDE DEF S
  <2> QED BY <1>6, <1>7, AllNat
<1>9. val[n] = (V \div ByteWeight(n - n)) % ByteWeight(n)
  BY <1>8
<1>10. V \div ByteWeight(n - n) = V
  <2>1. n - n = 0 /\ V \div 1 = V
    OBVIOUS
  <2> QED BY <2>1, <1>4
<1> QED BY <1>1, <1>9, <1>10

\* dump_hex() shows the last digits of the word.
LEMMA DumpWord ==
    ASSUME NEW w \in Texts, IsHex(w), NEW K \in Nat
    PROVE  dump_hex(Value(w, 16) % Power(16, K), K) = Printed(w, K)
<1> DEFINE V == Value(w, 16)
           X == V % Power(16, K)
           L == Len(w)
<1>1. V \in Nat /\ \A k \in Nat : (V \div Power(16, k)) % 16 = IF k < L THEN HexDigit(w[L - k]) ELSE 0
  BY WordDigit
<1>2. L \in Nat /\ DOMAIN w = 1 .. L
  BY TextFacts
<1>3. \A k \in Nat : Power(16, k) \in Nat \ {0}
  BY PowerPositive
<1>4. \A j, k \in Nat : Power(16, j + k) = Power(16, j) * Power(16, k)
  <2> SUFFICES ASSUME NEW j \in Nat, NEW k \in Nat
               PROVE  Power(16, j + k) = Power(16, j) * Power(16, k)
    OBVIOUS
  <2> QED BY PowerSum
<1>5. Power(16, 1) = 16
  <2>1. Power(16, 0) = 1 /\ Power(16, 0 + 1) = Power(16, 0) * 16
    BY PowerFacts
  <2> QED BY <2>1
<1> HIDE DEF V
<1>6. X \in Int
  <2> DEFINE W == Power(16, K)
  <2>1. W \in Nat \ {0}
    BY <1>3
  <2> HIDE DEF W
  <2>2. V % W \in Int
    BY <1>1, <2>1
  <2> QED BY <2>2 DEF W
<1>7. ASSUME NEW j \in 1 .. K
      PROVE  (X \div Power(16, K - j)) % 16 = (V \div Power(16, K - j)) % 16
  <2> DEFINE e == K - j
             a == Power(16, e)
             b == Power(16, j)
             c == Power(16, j - 1)
  <2>1. e \in Nat /\ j \in Nat /\ j - 1 \in Nat /\ e + j = K /\ 1 + (j - 1) = j
    OBVIOUS
  <2>2. a \in Nat \ {0} /\ b \in Nat \ {0} /\ c \in Nat \ {0}
    BY <2>1, <1>3
  <2>3. Power(16, K) = a * b
    BY <2>1, <1>4
  <2>4. b = 16 * c
    <3>1. Power(16, 1 + (j - 1)) = Power(16, 1) * c
      BY <2>1, <1>4
    <3> QED BY <2>1, <3>1, <1>5
  <2> HIDE DEF e, a, b, c
  <2> DEFINE q == V \div a
  <2>5. (V % (a * b)) \div a = q % b /\ q \in Int
    <3>1. V \in Int
      BY <1>1
    <3>2. q \in Int
      BY <2>2, <3>1, DivMod
    <3> QED BY <2>2, <3>1, <3>2, DivTwice, ZenonT(60)
  <2> HIDE DEF q
  <2>6. (q % (16 * c)) % 16 = q % 16
    <3>1. 16 \in Nat \ {0}
      OBVIOUS
    <3> QED BY <2>2, <2>5, <3>1, DivTwice
  <2> QED BY <2>3, <2>4, <2>5, <2>6 DEF q, a, e
<1>8. ASSUME NEW j \in 1 .. K
      PROVE  Capital((X \div Power(16, K - j)) % 16) = Printed(w, K)[j]
  <2> DEFINE k == L - K + j
  <2>1. K - j \in Nat /\ k = L - (K - j) /\ k \in Int /\ (k < 1 <=> ~(K - j < L))
    BY <1>2
  <2>2. Printed(w, K)[j] = IF k < 1 THEN Zero
                           ELSE IF w[k] >= LowerA THEN w[k] - LowerA + UpperA ELSE w[k]
    BY DEF Printed
  <2> DEFINE d == (X \div Power(16, K - j)) % 16
  <2>3. d = IF k < 1 THEN 0 ELSE HexDigit(w[k])
    BY <2>1, <1>1, <1>7
  <2> HIDE DEF d
  <2> SUFFICES Capital(d) = Printed(w, K)[j]
    BY DEF d
  <2>4. CASE k < 1
    BY <2>2, <2>3, <2>4 DEF Capital, Zero
  <2>5. CASE ~(k < 1)
    <3>1. k \in 1 .. L
      BY <2>1, <2>5, <1>2
    <3> DEFINE c == w[k]
    <3>2. c \in (Zero .. Zero + 9) \cup (LowerA .. LowerA + 5)
      BY <3>1, <1>2 DEF IsHex
    <3>3. c \in (48 .. 57) \cup (97 .. 102)
      BY <3>2 DEF Zero, LowerA
    <3> HIDE DEF c
    <3>4. Capital(HexDigit(c)) = IF c >= LowerA THEN c - LowerA + UpperA ELSE c
      BY <3>3 DEF Capital, HexDigit, Zero, LowerA, UpperA
    <3> QED BY <2>2, <2>3, <2>5, <3>4 DEF c
  <2> QED BY <2>4, <2>5
<1>9. dump_hex(X, K) = [j \in 1 .. K |-> Capital((X \div Power(16, K - j)) % 16)]
  <2> HIDE DEF X
  <2> QED BY <1>6, DumpFacts
<1>10. Printed(w, K) = [j \in 1 .. K |-> Printed(w, K)[j]]
  BY DEF Printed
<1> HIDE DEF X
<1>11. dump_hex(X, K) = Printed(w, K)
  BY <1>8, <1>9, <1>10
<1> QED BY <1>11 DEF X, V

\* A store of the data word: each byte it covers becomes the byte of the word's
\* value, however long the word is.
LEMMA StoreWord ==
    ASSUME ShellInv, NEW n \in 0 .. 4, NEW addr \in 0 .. IntMod - 1, Bytes(addr, n) \subseteq Mapped,
           NEW V \in Int
    PROVE  \A a \in Free : Store(mem, addr, n, V % IntMod)[a] =
              IF a - addr \in 0 .. n - 1 THEN (V \div ByteWeight(a - addr)) % ByteMod ELSE mem[a]
<1> DEFINE d == V % IntMod
<1>1. IntMod \in Nat \ {0} /\ n \in Nat
  BY Weights
<1>2. d \in 0 .. IntMod - 1
  <2> DEFINE M == IntMod
  <2>1. M \in Nat \ {0}
    BY <1>1
  <2> HIDE DEF M
  <2>2. V % M \in 0 .. M - 1
    BY <2>1, DivMod
  <2> QED BY <2>2 DEF M
<1>3. d \in Nat
  BY <1>1, <1>2
<1>4. mem \in [Free -> 0 .. ByteMod - 1]
  BY DEF ShellInv, TypeOK
<1>5. ASSUME NEW i \in 0 .. n - 1 PROVE (d \div ByteWeight(i)) % ByteMod = (V \div ByteWeight(i)) % ByteMod
  <2>1. i \in 0 .. 3
    OBVIOUS
  <2> QED BY <2>1, StoredByte
<1> HIDE DEF d
<1>6. \A a \in Free : Store(mem, addr, n, d)[a] =
         IF a - addr \in 0 .. n - 1 THEN (d \div ByteWeight(a - addr)) % ByteMod ELSE mem[a]
  BY <1>1, <1>4, StoreAt
<1>7. \A a \in Free : Store(mem, addr, n, d)[a] =
         IF a - addr \in 0 .. n - 1 THEN (V \div ByteWeight(a - addr)) % ByteMod ELSE mem[a]
  BY <1>5, <1>6
<1> QED BY <1>7 DEF d

\* Nothing is always in memory.
LEMMA NothingWritten == written' = Nothing => WrittenInv'
<1> SUFFICES ASSUME written' = Nothing PROVE WrittenInv'
  OBVIOUS
<1>1. written'.width = 0 /\ written'.word = <<>>
  BY DEF Nothing
<1>2. <<>> \in Texts /\ 0 .. 0 - 1 = {}
  BY DEF Texts
<1> QED BY <1>1, <1>2 DEF WrittenInv

\* The memory still holds the last write.
LEMMA WrittenStep == ShellInv /\ WrittenInv /\ [Next]_vars => WrittenInv'
<1> SUFFICES ASSUME ShellInv, WrittenInv, [Next]_vars PROVE WrittenInv'
  OBVIOUS
<1>1. CASE mem' = mem /\ written' = written
  BY <1>1 DEF WrittenInv
<1>2. ASSUME NEW id \in Writes, write_access(id) PROVE WrittenInv'
  <2> DEFINE word == WordOf(RestOf(said))
             V == Value(word, 16)
             addr == str_conv_ahex_int(second, IntMod)
             n == Width[id]
  <2>1. pc = "write"
    BY <1>2 DEF write_access
  <2>2. str_conv_ahex_int(first, IntMod) = V % IntMod /\ addr \in 0 .. IntMod - 1
        /\ word \in Texts /\ V \in Int
    BY <2>1, WriteWords
  <2>3. \/ mem' = mem /\ written' = written
        \/ written' = Nothing
        \/ /\ Bytes(addr, n) \subseteq Free /\ mem' = Store(mem, addr, n, str_conv_ahex_int(first, IntMod))
           /\ written' = [addr |-> addr, width |-> n, word |-> word]
    BY <1>2 DEF write_access
  <2>4. n \in {1, 2, 4} /\ n \in 0 .. 4 /\ n \in Nat
    <3>1. n \in {1, 2, 4}
      BY WidthFacts
    <3> HIDE DEF n
    <3> QED BY <3>1
  <2> HIDE DEF word, V, addr, n
  <2>5. CASE mem' = mem /\ written' = written
    BY <2>5, <1>1
  <2>6. CASE /\ Bytes(addr, n) \subseteq Free /\ mem' = Store(mem, addr, n, str_conv_ahex_int(first, IntMod))
             /\ written' = [addr |-> addr, width |-> n, word |-> word]
    <3>0. Bytes(addr, n) \subseteq Mapped
      BY <2>6 DEF Free
    <3>1. \A a \in Free : mem'[a] =
             IF a - addr \in 0 .. n - 1 THEN (V \div ByteWeight(a - addr)) % ByteMod ELSE mem[a]
      BY <2>2, <2>4, <2>6, <3>0, StoreWord
    <3>2. \A i \in 0 .. n - 1 : addr + i \in Free
      <4>1. \A i \in 0 .. n - 1 : (addr + i) % IntMod = addr + i
        BY <2>2, <2>4, <3>0, NoWrap
      <4> QED BY <2>6, <4>1 DEF Bytes
    <3>3. ASSUME NEW i \in 0 .. n - 1
          PROVE  addr + i \in Free /\ mem'[addr + i] = (V \div ByteWeight(i)) % ByteMod
      <4>1. addr \in Int /\ i \in Int /\ (addr + i) - addr = i
        BY <2>2, <2>4, Weights
      <4> QED BY <3>1, <3>2, <4>1
    <3>4. written'.addr = addr /\ written'.width = n /\ written'.word = word
      BY <2>6
    <3> QED BY <2>2, <2>4, <3>3, <3>4 DEF WrittenInv, V
  <2>7. CASE written' = Nothing
    BY <2>7, NothingWritten
  <2> QED BY <2>3, <2>5, <2>6, <2>7
<1>3. CASE \/ shell_main \/ split_line \/ command_echo \/ command_test \/ command_shutdown
           \/ \E l \in Lines : get_line(l)
           \/ \E id \in Reads : command_read(id) \/ pow_overruns(id) \/ read_access(id)
           \/ \E id \in Writes : command_write(id) \/ pow_overruns(id)
           \/ fs_open \/ fs_open_next \/ exec \/ stopped \/ UNCHANGED vars
  <2>1. mem' = mem /\ written' = written
    BY <1>3 DEF shell_main, split_line, command_echo, command_test, command_shutdown, get_line,
                command_read, read_access, command_write, pow_overruns, fs_open, fs_open_next, exec, stopped, vars
  <2> QED BY <2>1, <1>1
<1> QED BY <1>2, <1>3 DEF Next

\* And so does what memory holds of the last write.
LEMMA WrittenInvariant == Spec => [](ShellInv /\ WrittenInv)
<1>1. Init => ShellInv /\ WrittenInv
  <2> SUFFICES ASSUME Init PROVE WrittenInv
    BY InitInv
  <2>1. written.width = 0 /\ written.word = <<>>
    BY DEF Init, Nothing
  <2>2. <<>> \in Texts /\ 0 .. 0 - 1 = {}
    BY DEF Texts
  <2> QED BY <2>1, <2>2 DEF WrittenInv
<1>2. (ShellInv /\ WrittenInv) /\ [Next]_vars => (ShellInv /\ WrittenInv)'
  BY NextInv, WrittenStep
<1> QED BY <1>1, <1>2, PTL DEF Spec

\* From the points where the words are in place only the access goes on.
LEMMA AccessSteps ==
    ASSUME ShellInv, [Next]_vars
    PROVE  /\ pc = "write" => /\ command_id \in Writes
                              /\ write_access(command_id) \/ pc' = "overrun" \/ UNCHANGED vars
           /\ pc = "read" => /\ command_id \in Reads
                             /\ read_access(command_id) \/ pc' = "overrun" \/ UNCHANGED vars
<1>1. /\ pc = "write" => command_id \in Writes
      /\ pc = "read" => command_id \in Reads
  BY DEF ShellInv, WordsInv
<1>2. CASE \/ shell_main \/ split_line \/ command_echo \/ command_test \/ command_shutdown
           \/ \E l \in Lines : get_line(l)
           \/ \E id \in Reads : command_read(id)
           \/ \E id \in Writes : command_write(id)
           \/ fs_open \/ fs_open_next \/ exec \/ stopped
  <2>1. pc # "write" /\ pc # "read"
    BY <1>2 DEF shell_main, split_line, command_echo, command_test, command_shutdown, get_line,
                command_read, command_write, fs_open, fs_open_next, exec, stopped, Is
  <2> QED BY <2>1
<1>3. CASE \E id \in Reads : read_access(id)
  <2>1. pc = "read" /\ read_access(command_id)
    BY <1>3 DEF read_access
  <2> QED BY <1>1, <2>1
<1>4. CASE \E id \in Writes : write_access(id)
  <2>1. pc = "write" /\ write_access(command_id)
    BY <1>4 DEF write_access
  <2> QED BY <1>1, <2>1
<1>5. CASE UNCHANGED vars
  BY <1>1, <1>5
<1>6. CASE \E id \in Reads \cup Writes : pow_overruns(id)
  BY <1>1, <1>6 DEF pow_overruns
<1> QED BY <1>2, <1>3, <1>4, <1>5, <1>6 DEF Next

\* Two commands have different names.
LEMMA OneCommand ==
    ASSUME ShellInv, pc \in {"read", "write"}, NEW id \in Commands, WordOf(said) = CommandNames[id]
    PROVE  command_id = id
<1>1. Named
  BY DEF ShellInv, WordsInv
<1>2. \A c, d \in Commands : CommandNames[c] = CommandNames[d] => c = d
  <2>1. DOMAIN CommandNames = Commands
    BY ShellAssumption
  <2> QED BY <2>1, ShellAssumption DEF IsInjective
<1> QED BY <1>1, <1>2 DEF Named

\* A step that performs a write command stores the typed data at the typed
\* address.
LEMMA WriteStep ==
    ASSUME ShellInv, [Next]_vars, NEW id \in Writes \ Ports
    PROVE  WriteLands(id) \/ UNCHANGED vars
<1> DEFINE dataWord == WordOf(RestOf(said))
           addrWord == WordOf(RestOf(RestOf(said)))
           V == Value(dataWord, 16)
           A == Value(addrWord, 16)
           n == Width[id]
           addr == str_conv_ahex_int(second, IntMod)
           data == str_conv_ahex_int(first, IntMod)
           Outside == \E i \in 0 .. n - 1 : (A + i) % IntMod \notin Mapped
<1> SUFFICES ASSUME pc = "write", WordOf(said) = CommandNames[id], write_access(id), pc' # "overrun"
             PROVE  IF Outside THEN pc' = "halt" /\ mem' = mem
                    ELSE \A a \in Free : mem'[a] =
                            IF a - (A % IntMod) \in 0 .. n - 1
                            THEN (V \div ByteWeight(a - (A % IntMod))) % ByteMod ELSE mem[a]
  <2>1. id \in Commands
    BY WidthFacts
  <2>2. pc = "write" /\ WordOf(said) = CommandNames[id] => command_id = id
    BY <2>1, OneCommand
  <2> QED BY <2>2, AccessSteps DEF WriteLands, Said, FirstWord, SecondWord
<1>1. /\ data = V % IntMod /\ addr = A % IntMod /\ addr \in 0 .. IntMod - 1
      /\ V \in Int /\ A \in Int
  BY WriteWords
<1>2. n \in 0 .. 4 /\ n \in Nat
  <2>1. n \in {1, 2, 4}
    BY WidthFacts
  <2> HIDE DEF n
  <2> QED BY <2>1
<1>3. \/ Bytes(addr, n) \subseteq Mapped /\ mem' = Store(mem, addr, n, data)
      \/ ~(Bytes(addr, n) \subseteq Mapped) /\ pc' = "halt" /\ mem' = mem
  <2>1. Bytes(addr, n) \subseteq Free => Bytes(addr, n) \subseteq Mapped
    BY DEF Free
  <2> QED BY <2>1 DEF write_access
<1> HIDE DEF V, A, n, addr, data
<1>4. ASSUME NEW i \in 0 .. n - 1 PROVE (addr + i) % IntMod = (A + i) % IntMod
  <2> DEFINE M == IntMod
  <2>1. M \in Nat \ {0} /\ addr = A % M /\ addr \in Int /\ i \in Int
    BY <1>1, <1>2, Weights
  <2> HIDE DEF M
  <2>2. SameMod(M, addr, A)
    BY <1>1, <2>1, ModTwice DEF SameMod
  <2>3. SameMod(M, i, i)
    BY DEF SameMod
  <2>4. SameMod(M, addr + i, A + i)
    BY <1>1, <2>1, <2>2, <2>3, ModSum
  <2> QED BY <2>4 DEF SameMod, M
<1>5. Bytes(addr, n) \subseteq Mapped <=> ~Outside
  BY <1>4 DEF Bytes
<1>6. CASE Bytes(addr, n) \subseteq Mapped
  <2>1. mem' = Store(mem, addr, n, V % IntMod)
    BY <1>1, <1>3, <1>6
  <2>2. \A a \in Free : mem'[a] =
           IF a - addr \in 0 .. n - 1 THEN (V \div ByteWeight(a - addr)) % ByteMod ELSE mem[a]
    BY <1>1, <1>2, <1>6, <2>1, StoreWord
  <2> QED BY <1>1, <1>5, <1>6, <2>2
<1>7. CASE ~(Bytes(addr, n) \subseteq Mapped)
  BY <1>3, <1>5, <1>7
<1> QED BY <1>6, <1>7

(***************************************************************************)
(* writeb, writew and writel store the low bytes of the typed number at    *)
(* the typed address and nothing else, or raise an exception and store     *)
(* nothing, for words of every length.                                     *)
(***************************************************************************)
THEOREM WritesAlwaysLand == Spec => WritesLand
<1>1. ShellInv /\ [Next]_vars => [\A id \in Writes \ Ports : WriteLands(id)]_vars
  BY WriteStep
<1> QED BY <1>1, ShellInvariant, PTL DEF Spec, WritesLand

\* A step that performs a read of what was last written shows it.
LEMMA ReadStep ==
    ASSUME ShellInv, WrittenInv, [Next]_vars, NEW id \in Reads \ Ports
    PROVE  ReadShows(id) \/ UNCHANGED vars
<1> DEFINE addrWord == WordOf(RestOf(said))
           A == Value(addrWord, 16)
           n == Width[id]
           addr == str_conv_ahex_int(first, IntMod)
           w == written.word
<1> SUFFICES ASSUME pc = "read", pc' = "loop", did' = id, read_access(command_id), command_id \in Reads,
                    IsHex(w), A % IntMod = written.addr, n = written.width
             PROVE  shown' = Printed(w, n * HexPerByte)
  BY AccessSteps DEF ReadShows, FirstWord
<1>1. /\ first \in Arrays(ReadSize) /\ ReadSize \in Nat /\ Holds(first, addrWord) /\ addrWord \in Texts
  BY ConstantFacts, TypedFacts DEF ShellInv, WordsInv, TypeOK
<1>2. addr = written.addr /\ addr \in 0 .. IntMod - 1
  BY <1>1, Weights, AhexInt, AhexIsValue
<1>3. command_id = id
  BY DEF read_access, Return
<1>4. /\ Bytes(addr, n) \subseteq Mapped
      /\ \E own \in [Own -> 0 .. ByteMod - 1] : shown' = dump_hex(Load(Memory(own), addr, n), n * HexPerByte)
  BY <1>3 DEF read_access, Return
<1> DEFINE B == [Own -> 0 .. ByteMod - 1]
<1>12. PICK own \in B : shown' = dump_hex(Load(Memory(own), addr, n), n * HexPerByte)
  BY <1>4
<1> DEFINE m == Memory(own)
<1>5. n \in Nat
  BY WidthFacts
<1>7. m \in [Mapped -> 0 .. ByteMod - 1] /\ \A a \in Free : m[a] = mem[a]
  BY MemoryBytes
<1>6. w \in Texts /\ \A i \in 0 .. n - 1 : m[addr + i] = (Value(w, 16) \div ByteWeight(i)) % ByteMod
  BY <1>2, <1>7 DEF WrittenInv
<1> HIDE DEF addr, n, w, m
<1>8. Value(w, 16) \in Int
  BY <1>6, WordDigit
<1>9. Load(m, addr, n) = Value(w, 16) % ByteWeight(n)
  BY <1>2, <1>4, <1>5, <1>6, <1>7, <1>8, LoadValue
<1>10. ByteWeight(n) = Power(16, n * HexPerByte) /\ n * HexPerByte \in Nat
  <2>1. HexPerByte * n = n * HexPerByte /\ n * HexPerByte \in Nat
    BY <1>5, ShellAssumption
  <2> QED BY <2>1 DEF ByteWeight
<1>11. dump_hex(Value(w, 16) % Power(16, n * HexPerByte), n * HexPerByte) = Printed(w, n * HexPerByte)
  BY <1>6, <1>10, DumpWord
<1> QED BY <1>9, <1>10, <1>11, <1>12 DEF m

(***************************************************************************)
(* A read of what was written last, to bytes that are not the shell's own, *)
(* shows the digits that were typed: the conversion, the store, the load   *)
(* and the display compose to the identity on the digits that fit, for     *)
(* every word, address and width.                                          *)
(***************************************************************************)
THEOREM ReadAlwaysShowsWritten == Spec => ReadShowsWritten
<1>1. (ShellInv /\ WrittenInv) /\ [Next]_vars => [\A id \in Reads \ Ports : ReadShows(id)]_vars
  BY ReadStep
<1> QED BY <1>1, WrittenInvariant, PTL DEF Spec, ReadShowsWritten

----------------------------------------------------------------------------
(***************************************************************************)
(* The library's functions.                                                *)
(***************************************************************************)
\* A digit and its character.
LEMMA DigitCharFacts ==
    \A d \in 0 .. 15 : /\ HexDigit(DigitChar(d)) = d /\ DigitChar(d) \in 1 .. 127
                       /\ DigitChar(d) # Minus /\ (DigitChar(d) = Zero <=> d = 0)
<1> SUFFICES ASSUME NEW d \in 0 .. 15
             PROVE  /\ HexDigit(DigitChar(d)) = d /\ DigitChar(d) \in 1 .. 127
                    /\ DigitChar(d) # Minus /\ (DigitChar(d) = Zero <=> d = 0)
  OBVIOUS
<1>1. d \in Int
  OBVIOUS
<1>2. CASE d < 10
  <2>1. DigitChar(d) = 48 + d /\ 48 + d \in 48 .. 57 /\ 48 + d \in Int
    BY <1>1, <1>2 DEF DigitChar, Zero
  <2>2. HexDigit(48 + d) = (48 + d) - 48
    BY <2>1 DEF HexDigit, Zero
  <2> QED BY <1>1, <2>1, <2>2 DEF Minus, Zero
<1>3. CASE ~(d < 10)
  <2>1. DigitChar(d) = 87 + d /\ 87 + d \in 97 .. 102 /\ 87 + d \in Int
    BY <1>1, <1>3 DEF DigitChar, LowerA
  <2>2. HexDigit(87 + d) = (87 + d) - 97 + 10
    BY <2>1 DEF HexDigit, Zero, LowerA
  <2> QED BY <1>1, <1>3, <2>1, <2>2 DEF Minus, Zero
<1> QED BY <1>2, <1>3

\* One more digit.
LEMMA ValueAppend ==
    ASSUME NEW s \in Texts, NEW c \in 1 .. 127, NEW base \in Nat
    PROVE  /\ Append(s, c) \in Texts
           /\ Value(Append(s, c), base) = Value(s, base) * base + HexDigit(c)
<1> DEFINE C == 1 .. 127
           u == Append(s, c)
<1>1. s \in Seq(C) /\ Texts = Seq(C) /\ c \in C
  BY DEF Texts
<1> HIDE DEF C
<1>2. Len(s) \in Nat
  BY TextFacts
<1>3. /\ u \in Texts /\ Len(u) = Len(s) + 1 /\ u[Len(s) + 1] = c
      /\ \A i \in 1 .. Len(s) : s[i] = u[i]
  BY <1>1, <1>2
<1> HIDE DEF u
<1>4. PICK v : ValueSteps(v, u, base) /\ Value(u, base) = v[Len(u)]
  BY <1>3, ValueFacts
<1>5. Value(s, base) = v[Len(s)]
  <2>1. Len(s) <= Len(u)
    BY <1>2, <1>3
  <2> QED BY <1>3, <1>4, <2>1, ValueUnique
<1>6. v[Len(s) + 1] = v[(Len(s) + 1) - 1] * base + HexDigit(u[Len(s) + 1])
  <2>1. Len(s) + 1 \in 1 .. Len(u)
    BY <1>2, <1>3
  <2> QED BY <1>4, <2>1 DEF ValueSteps
<1>7. (Len(s) + 1) - 1 = Len(s)
  BY <1>2
<1> QED BY <1>3, <1>4, <1>5, <1>6, <1>7 DEF u

\* What itoa() and itox() put into their arrays.
Prints(s, k, base) ==
    /\ s \in Texts /\ Len(s) >= 1 /\ Value(s, base) = k
    /\ s[1] # Minus /\ (s[1] = Zero => k = 0) /\ (k = 0 => Len(s) = 1)

\* Digits prints every number with its own digits and no leading zero:
\* reading it back gives the number.
LEMMA DigitsPrint ==
    ASSUME NEW base \in 2 .. 16
    PROVE  \A k \in Nat : Prints(Digits(k, base), k, base)
<1> DEFINE Good(k) == Prints(Digits(k, base), k, base)
           S == {n \in Nat : \A k \in Nat : k <= n => Good(k)}
<1>0. base \in Nat /\ base > 1
  OBVIOUS
<1>1. \A k \in Nat :
         /\ k < base => Digits(k, base) = <<DigitChar(k)>>
         /\ k >= base => Digits(k, base) = Append(Digits(k \div base, base), DigitChar(k % base))
  BY <1>0, DigitsFacts
<1>2. ASSUME NEW k \in Nat, k < base PROVE Good(k)
  <2> DEFINE c == DigitChar(k)
             e == <<>>
             s == <<c>>
  <2>1. k \in 0 .. 15
    BY <1>2
  <2>2. HexDigit(c) = k /\ c \in 1 .. 127 /\ c # Minus /\ (c = Zero <=> k = 0)
    BY <2>1, DigitCharFacts
  <2> HIDE DEF c
  <2>3. e \in Texts /\ Append(e, c) = s /\ Len(s) = 1 /\ s[1] = c
    BY DEF Texts
  <2>4. Value(e, base) = 0
    <3>1. PICK v : ValueSteps(v, e, base) /\ Value(e, base) = v[Len(e)]
      BY <1>0, <2>3, ValueFacts
    <3>2. Len(e) = 0
      OBVIOUS
    <3> QED BY <3>1, <3>2 DEF ValueSteps
  <2> HIDE DEF e, s
  <2>5. s \in Texts /\ Value(s, base) = Value(e, base) * base + HexDigit(c)
    <3>1. Append(e, c) \in Texts /\ Value(Append(e, c), base) = Value(e, base) * base + HexDigit(c)
      BY <1>0, <2>2, <2>3, ValueAppend
    <3> QED BY <2>3, <3>1
  <2>6. Value(s, base) = k
    BY <1>0, <2>2, <2>4, <2>5
  <2>7. Digits(k, base) = s
    BY <1>1, <1>2 DEF c, s
  <2> QED BY <2>2, <2>3, <2>5, <2>6, <2>7 DEF Prints
<1>3. ASSUME NEW k \in Nat, k >= base, Good(k \div base) PROVE Good(k)
  <2> DEFINE q == k \div base
             r == k % base
             c == DigitChar(r)
             s == Digits(q, base)
             u == Append(s, c)
  <2>1. k = base * q + r /\ q \in Nat /\ r \in 0 .. base - 1 /\ q > 0
    <3>1. base \in Nat \ {0} /\ k \in Int
      OBVIOUS
    <3>2. k = base * q + r /\ q \in Nat /\ r \in 0 .. base - 1
      BY <3>1, DivMod
    <3>3. q > 0
      BY <1>0, <1>3, QuotientLess
    <3> QED BY <3>2, <3>3
  <2>2. Prints(s, q, base) /\ Digits(k, base) = u
    BY <1>1, <1>3
  <2> HIDE DEF q, r, s
  <2>3. r \in 0 .. 15
    BY <2>1
  <2>4. HexDigit(c) = r /\ c \in 1 .. 127
    BY <2>3, DigitCharFacts
  <2> HIDE DEF c
  <2>5. s \in Texts /\ Len(s) >= 1 /\ Value(s, base) = q /\ s[1] # Minus /\ s[1] # Zero
    BY <2>1, <2>2 DEF Prints
  <2>6. u \in Texts /\ Value(u, base) = q * base + r
    <3>1. Append(s, c) \in Texts /\ Value(Append(s, c), base) = Value(s, base) * base + HexDigit(c)
      BY <1>0, <2>4, <2>5, ValueAppend
    <3> QED BY <2>4, <2>5, <3>1
  <2>7. Len(u) >= 1 /\ u[1] = s[1]
    <3>1. Len(s) \in Nat
      BY <2>5, TextFacts
    <3> DEFINE C == 1 .. 127
    <3>2. s \in Seq(C) /\ c \in C
      BY <2>4, <2>5 DEF Texts
    <3> HIDE DEF C
    <3> QED BY <2>5, <3>1, <3>2
  <2>8. q * base + r = k
    <3>1. q * base = base * q
      BY <2>1
    <3> QED BY <2>1, <3>1
  <2>9. k # 0
    BY <1>3
  <2> QED BY <2>2, <2>5, <2>6, <2>7, <2>8, <2>9 DEF Prints
<1> HIDE DEF Good
<1>4. 0 \in S
  <2>1. ASSUME NEW k \in Nat, k <= 0 PROVE Good(k)
    <3>1. k < base
      BY <2>1
    <3> QED BY <3>1, <1>2
  <2> QED BY <2>1
<1>5. ASSUME NEW n \in Nat, n \in S PROVE n + 1 \in S
  <2>1. ASSUME NEW k \in Nat, k <= n + 1 PROVE Good(k)
    <3>1. CASE k < base
      BY <3>1, <1>2
    <3>2. CASE ~(k < base)
      <4>1. k >= base
        BY <3>2, <1>0
      <4>2. k \div base \in Nat /\ k \div base < k
        BY <1>0, <4>1, QuotientLess
      <4> DEFINE q == k \div base
      <4> HIDE DEF q
      <4>3. q \in Nat /\ q <= n
        BY <2>1, <4>2 DEF q
      <4>4. Good(q)
        BY <1>5, <4>3
      <4> QED BY <1>3, <4>1, <4>4 DEF q
    <3> QED BY <3>1, <3>2
  <2> QED BY <2>1
<1>6. \A n \in Nat : n \in S
  <2> HIDE DEF S
  <2> QED BY <1>4, <1>5, AllNat
<1>7. \A k \in Nat : Good(k)
  BY <1>6
<1> QED BY <1>7 DEF Good

\* What strncmp() compares.
LEMMA StartSame ==
    ASSUME NEW w \in Texts, NEW v \in Texts, NEW k \in Nat
    PROVE  Start(w, k) = Start(v, k) <=>
              \/ w = v
              \/ k <= Len(w) /\ k <= Len(v) /\ \A i \in 1 .. k : w[i] = v[i]
<1> DEFINE C == 1 .. 127
<1>0. w \in Seq(C) /\ v \in Seq(C)
  BY DEF Texts
<1> HIDE DEF C
<1>1. Len(w) \in Nat /\ w = [i \in 1 .. Len(w) |-> w[i]]
  BY TextFacts
<1>2. Len(v) \in Nat /\ v = [i \in 1 .. Len(v) |-> v[i]]
  BY TextFacts
<1>3. ASSUME NEW t \in Seq(C), Len(t) \in Nat, t = [i \in 1 .. Len(t) |-> t[i]]
      PROVE  /\ Len(t) < k => Start(t, k) = t
             /\ k <= Len(t) => Start(t, k) = [i \in 1 .. k |-> t[i]] /\ Len(Start(t, k)) = k
  <2>1. Len(t) < k => Start(t, k) = t
    BY <1>3 DEF Start
  <2>2. ASSUME k <= Len(t) PROVE Start(t, k) = [i \in 1 .. k |-> t[i]] /\ Len(Start(t, k)) = k
    <3>1. CASE k = Len(t)
      <4>1. Start(t, k) = t
        BY <3>1 DEF Start
      <4> QED BY <1>3, <3>1, <4>1
    <3>2. CASE k # Len(t)
      <4>1. Start(t, k) = SubSeq(t, 1, k)
        BY <1>3, <2>2, <3>2 DEF Start
      <4>2. SubSeq(t, 1, k) = [i \in 1 .. k |-> t[i]] /\ Len(SubSeq(t, 1, k)) = k
        BY <1>3, <2>2
      <4> QED BY <4>1, <4>2
    <3> QED BY <3>1, <3>2
  <2> QED BY <2>1, <2>2
<1>4. /\ Len(w) < k => Start(w, k) = w
      /\ k <= Len(w) => Start(w, k) = [i \in 1 .. k |-> w[i]] /\ Len(Start(w, k)) = k
  BY <1>0, <1>1, <1>3
<1>5. /\ Len(v) < k => Start(v, k) = v
      /\ k <= Len(v) => Start(v, k) = [i \in 1 .. k |-> v[i]] /\ Len(Start(v, k)) = k
  BY <1>0, <1>2, <1>3
<1>6. CASE Len(w) < k /\ Len(v) < k
  BY <1>1, <1>2, <1>4, <1>5, <1>6
<1>7. CASE k <= Len(w) /\ k <= Len(v)
  <2>1. Start(w, k) = Start(v, k) <=> \A i \in 1 .. k : w[i] = v[i]
    BY <1>4, <1>5, <1>7
  <2> QED BY <1>7, <2>1
<1>8. CASE (Len(w) < k /\ k <= Len(v)) \/ (Len(v) < k /\ k <= Len(w))
  <2>1. w # v
    BY <1>1, <1>2, <1>8
  <2>2. Start(w, k) # Start(v, k)
    BY <1>1, <1>2, <1>4, <1>5, <1>8
  <2> QED BY <1>1, <1>2, <1>8, <2>1, <2>2
<1> QED BY <1>1, <1>2, <1>6, <1>7, <1>8

\* The comparisons agree.
LEMMA CompareAgrees ==
    ASSUME NEW n \in Nat, NEW a \in Arrays(n), NEW w \in Texts, Holds(a, w), NEW v \in Texts
    PROVE  /\ Sign(strcmp(a, CString(v))) = Sign(str_compare(a, CString(v)))
           /\ \A k \in Nat : (strncmp(a, CString(v), k) = 0) <=> Start(w, k) = Start(v, k)
<1> DEFINE b == CString(v)
<1>1. b \in Arrays(Len(v) + 1) /\ Holds(b, v)
  BY CStringHolds
<1>2. Len(v) + 1 \in Nat
  <2>1. Len(v) \in Nat
    BY TextFacts
  <2> QED BY <2>1
<1> HIDE DEF b
<1>3. /\ str_compare(a, b) \in Int /\ strcmp(a, b) \in Int
      /\ str_compare(a, b) < 0 <=> strcmp(a, b) < 0
      /\ str_compare(a, b) > 0 <=> strcmp(a, b) > 0
      /\ \A k \in Nat : strncmp(a, b, k) = 0 <=>
            \/ w = v
            \/ k <= Len(w) /\ k <= Len(v) /\ \A i \in 1 .. k : w[i] = v[i]
  BY <1>1, <1>2, Compare, SMTT(30)
<1>4. Sign(strcmp(a, b)) = Sign(str_compare(a, b))
  BY <1>3 DEF Sign
<1>5. \A k \in Nat : strncmp(a, b, k) = 0 <=> Start(w, k) = Start(v, k)
  BY <1>3, StartSame
<1> QED BY <1>4, <1>5 DEF b

\* The printed numbers are the ones they stand for.
LEMMA NumbersAgree ==
    ASSUME NEW M \in Nat \ {0}, NEW v \in 0 .. M - 1,
           NEW n, n = IF v < M \div 2 THEN v ELSE v - M
    PROVE  LET dec == itoa(n, M)
           IN  /\ Value(itox(v), 16) = v
               /\ Len(itox(v)) > 1 => itox(v)[1] # Zero
               /\ n > -(M \div 2) =>
                    n = IF dec[1] = Minus THEN -Value(Tail(dec), 10) ELSE Value(dec, 10)
<1> DEFINE h == M \div 2
<1>1. h \in Int /\ v \in Nat
  OBVIOUS
<1>2. Prints(itox(v), v, 16)
  BY <1>1, DigitsPrint DEF itox
<1>3. Value(itox(v), 16) = v /\ (Len(itox(v)) > 1 => itox(v)[1] # Zero)
  <2> DEFINE s == itox(v)
  <2> HIDE DEF s
  <2>1. /\ Value(s, 16) = v /\ (s[1] = Zero => v = 0) /\ (v = 0 => Len(s) = 1)
    BY <1>2 DEF Prints, s
  <2>2. Len(s) = 1 => ~(Len(s) > 1)
    OBVIOUS
  <2> QED BY <2>1, <2>2 DEF s
<1>4. n \in Int
  BY <1>1
<1> HIDE DEF h
<1>5. ASSUME n > -h
      PROVE  n = IF itoa(n, M)[1] = Minus THEN -Value(Tail(itoa(n, M)), 10) ELSE Value(itoa(n, M), 10)
  <2>1. CASE n >= 0
    <3>1. itoa(n, M) = Digits(n, 10) /\ n \in Nat
      BY <1>4, <2>1 DEF itoa
    <3>2. Prints(itoa(n, M), n, 10)
      BY <3>1, DigitsPrint
    <3> QED BY <3>2 DEF Prints
  <2>2. CASE ~(n >= 0)
    <3> DEFINE k == -n
               s == Digits(k, 10)
    <3>1. k \in Nat /\ n = -k /\ n # -h
      BY <1>1, <1>4, <1>5, <2>2
    <3>2. itoa(n, M) = <<Minus>> \o s
      BY <2>2, <3>1 DEF itoa, h
    <3> HIDE DEF k
    <3>3. Prints(s, k, 10)
      BY <3>1, DigitsPrint
    <3> HIDE DEF s
    <3>4. s \in Texts /\ Value(s, 10) = k
      BY <3>3 DEF Prints
    <3>5. (<<Minus>> \o s)[1] = Minus /\ Tail(<<Minus>> \o s) = s
      <4> DEFINE C == 1 .. 127
      <4>1. s \in Seq(C) /\ Minus \in C
        BY <3>4 DEF Texts, Minus
      <4> HIDE DEF C
      <4>2. <<Minus>> \in Seq(C) /\ Len(<<Minus>>) = 1 /\ <<Minus>>[1] = Minus
        BY <4>1
      <4> QED BY <4>1, <4>2
    <3> QED BY <3>1, <3>2, <3>4, <3>5
  <2> QED BY <2>1, <2>2
<1> QED BY <1>3, <1>5 DEF h

\* On the words of a line, the library agrees with the references.
LEMMA LibraryHeld == ShellInv => LibraryAgrees
<1> SUFFICES ASSUME ShellInv PROVE LibraryAgrees
  OBVIOUS
<1> DEFINE w == WordOf(said)
<1>1. ASSUME pc = "dispatch"
      PROVE  /\ command \in Arrays(ArgSize) /\ ArgSize \in Nat /\ Holds(command, w) /\ w \in Texts
             /\ Len(w) < ArgSize
  <2>1. command \in Arrays(ArgSize) /\ ArgSize \in Nat /\ Holds(command, w) /\ w \in Texts
    BY <1>1, ConstantFacts, TypedFacts DEF ShellInv, WordsInv, TypeOK
  <2> HIDE DEF w
  <2> QED BY <2>1, HoldsFacts
<1>2. ASSUME pc = "dispatch"
      PROVE  StringOf(strcpy(Uninit(ArgSize), command).array) = w
  <2> HIDE DEF w
  <2>1. Uninit(ArgSize) \in Arrays(ArgSize)
    BY <1>1, <1>2, UninitArray DEF ShellInv, TypeOK
  <2> QED BY <1>1, <1>2, <2>1, StrCpy
<1>3. ASSUME pc = "dispatch", NEW n \in Range(CommandNames) \cup Range(FileNames)
      PROVE  /\ Sign(strcmp(command, CString(n))) = Sign(str_compare(command, CString(n)))
             /\ \A k \in 0 .. Len(n) + 1 :
                   (strncmp(command, CString(n), k) = 0) <=> Start(w, k) = Start(n, k)
  <2>1. n \in Texts
    <3>1. DOMAIN CommandNames = Commands /\ DOMAIN FileNames = ToSet(Files)
      BY ShellAssumption
    <3> QED BY <3>1, ConstantFacts DEF Range
  <2>2. \A k \in 0 .. Len(n) + 1 : k \in Nat
    OBVIOUS
  <2> HIDE DEF w
  <2> QED BY <1>1, <1>3, <2>1, <2>2, CompareAgrees
<1>4. ASSUME pc = "write"
      PROVE  LET v == Value(StringOf(first), 16) % IntMod
             IN  /\ Value(itox(v), 16) = v
                 /\ Len(itox(v)) > 1 => itox(v)[1] # Zero
                 /\ Signed(v) > -(IntMod \div 2) => ItoaPrints(Signed(v))
  <2> DEFINE v == Value(StringOf(first), 16) % IntMod
  <2>1. StringOf(first) = WordOf(RestOf(said))
    BY <1>4, WordsHeld DEF WordsExact
  <2>2. v \in 0 .. IntMod - 1
    BY <1>4, <2>1, WriteWords
  <2>3. IntMod \in Nat \ {0} /\ Signed(v) = IF v < IntMod \div 2 THEN v ELSE v - IntMod
    BY Weights DEF Signed
  <2> HIDE DEF v
  <2>4. LET dec == itoa(Signed(v), IntMod)
        IN  /\ Value(itox(v), 16) = v
            /\ Len(itox(v)) > 1 => itox(v)[1] # Zero
            /\ Signed(v) > -(IntMod \div 2) =>
                 Signed(v) = IF dec[1] = Minus THEN -Value(Tail(dec), 10) ELSE Value(dec, 10)
    BY <2>2, <2>3, NumbersAgree
  <2> QED BY <2>4 DEF v, ItoaPrints
<1> QED BY <1>2, <1>3, <1>4 DEF LibraryAgrees

(***************************************************************************)
(* string.c and stdlib.c compute what the shell's own functions compute,   *)
(* for every line: what strcpy() copies and how strcmp() and strncmp()     *)
(* compare strings of every length, what itox() prints of every number and *)
(* itoa() of every long but the smallest.                                  *)
(***************************************************************************)
THEOREM LibraryAlwaysAgrees == Spec => []LibraryAgrees
<1> QED BY LibraryHeld, ShellInvariant, PTL
=============================================================================
