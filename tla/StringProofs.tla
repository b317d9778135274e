---------------------------- MODULE StringProofs ----------------------------
(***************************************************************************)
(* What the string and number functions compute, for strings of every      *)
(* length: each lemma relates a loop over an array of characters to the    *)
(* sequence of characters, or the number, that the array stands for.       *)
(***************************************************************************)
EXTENDS Strings, WellFoundedInduction, TLAPS

\* Arrays of n characters, and strings of any length.
Arrays(n) == [0 .. n - 1 -> 0 .. 127]
Texts == Seq(1 .. 127)

\* The array a holds the string w, whatever is behind its NUL.
Holds(a, w) == /\ Len(w) \in DOMAIN a /\ a[Len(w)] = NUL
               /\ \A i \in 0 .. Len(w) - 1 : i \in DOMAIN a /\ a[i] = w[i + 1]

----------------------------------------------------------------------------
(***************************************************************************)
(* Least numbers and induction.                                            *)
(***************************************************************************)
\* A set of numbers that is not empty has a least element.
LEMMA NatLeast ==
    ASSUME NEW S, S \subseteq Nat, S # {}
    PROVE  \E m \in S : \A n \in S : m <= n
<1>1. PICK m \in S : \A n \in S : <<n, m>> \notin OpToRel(<, Nat)
  BY NatLessThanWellFounded, WFMin, Zenon
<1>2. \A n \in S : ~(n < m)
  BY <1>1 DEF OpToRel
<1> QED BY <1>2

\* A loop that looks for the least index of a set finds it.
LEMMA MinIs ==
    ASSUME NEW S, S \subseteq Nat, NEW m \in S, \A n \in S : m <= n
    PROVE  Min(S) = m
<1>1. \E x \in S : \A y \in S : x <= y
  OBVIOUS
<1>2. Min(S) \in S /\ \A y \in S : Min(S) <= y
  BY <1>1 DEF Min
<1>3. Min(S) \in Nat /\ m \in Nat /\ Min(S) <= m /\ m <= Min(S)
  BY <1>2
<1> QED BY <1>3

\* Min of FiniteSetsExt is the least element of a non-empty set of numbers.
LEMMA MinIsLeast ==
    ASSUME NEW S, S \subseteq Nat, S # {}
    PROVE  Min(S) \in S /\ \A n \in S : Min(S) <= n
  BY NatLeast DEF Min

\* Induction: a set of numbers with 0 and, with each number, the next one.
LEMMA AllNat ==
    ASSUME NEW S, 0 \in S, \A i \in Nat : i \in S => i + 1 \in S
    PROVE  \A i \in Nat : i \in S
<1> SUFFICES ASSUME {i \in Nat : i \notin S} # {} PROVE FALSE
  OBVIOUS
<1> DEFINE Bad == {i \in Nat : i \notin S}
<1>1. PICK m \in Bad : \A i \in Bad : m <= i
  BY NatLeast
<1>2. m - 1 \in Nat /\ m - 1 \in S /\ m = (m - 1) + 1
  BY <1>1
<1> QED BY <1>1, <1>2

----------------------------------------------------------------------------
(***************************************************************************)
(* Strings in arrays.                                                      *)
(***************************************************************************)
\* A sequence and its elements.
LEMMA SeqFacts ==
    ASSUME NEW S, NEW w \in Seq(S)
    PROVE  /\ Len(w) \in Nat /\ DOMAIN w = 1 .. Len(w)
           /\ \A i \in 1 .. Len(w) : w[i] \in S
           /\ w = [i \in 1 .. Len(w) |-> w[i]]
  OBVIOUS

\* A text is a sequence of characters 1 .. 127, none of them NUL.
LEMMA TextFacts ==
    ASSUME NEW w \in Texts
    PROVE  /\ Len(w) \in Nat /\ DOMAIN w = 1 .. Len(w)
           /\ \A i \in 1 .. Len(w) : w[i] \in 1 .. 127
           /\ w = [i \in 1 .. Len(w) |-> w[i]]
<1> DEFINE S == 1 .. 127
<1>1. w \in Seq(S)
  BY DEF Texts
<1> HIDE DEF S
<1>2. /\ Len(w) \in Nat /\ DOMAIN w = 1 .. Len(w)
      /\ \A i \in 1 .. Len(w) : w[i] \in S
      /\ w = [i \in 1 .. Len(w) |-> w[i]]
  BY <1>1, SeqFacts
<1> QED BY <1>2 DEF S

\* What is known of the characters of a string and of the array around it.
LEMMA HoldsFacts ==
    ASSUME NEW n \in Nat, NEW a \in Arrays(n), NEW w \in Texts, Holds(a, w)
    PROVE  /\ Len(w) \in Nat /\ Len(w) < n
           /\ \A i \in 0 .. Len(w) - 1 : a[i] = w[i + 1] /\ a[i] \in 1 .. 127 /\ a[i] # NUL
           /\ a[Len(w)] = NUL
           /\ DOMAIN a = 0 .. n - 1 /\ \A i \in 0 .. n - 1 : a[i] \in 0 .. 127
<1>0. DOMAIN a = 0 .. n - 1 /\ \A i \in 0 .. n - 1 : a[i] \in 0 .. 127
  BY DEF Arrays
<1>1. Len(w) \in Nat /\ DOMAIN a = 0 .. n - 1 /\ \A i \in 1 .. Len(w) : w[i] \in 1 .. 127
  BY TextFacts DEF Arrays
<1>2. ASSUME NEW i \in 0 .. Len(w) - 1 PROVE a[i] = w[i + 1] /\ a[i] \in 1 .. 127 /\ a[i] # NUL
  <2>0. \A x \in 1 .. 127 : x # NUL
    BY DEF NUL
  <2>1. a[i] = w[i + 1] /\ i + 1 \in 1 .. Len(w)
    BY <1>1 DEF Holds
  <2> QED BY <2>0, <2>1, <1>1
<1>3. Len(w) \in 0 .. n - 1 /\ a[Len(w)] = NUL
  BY <1>1 DEF Holds
<1> QED BY <1>0, <1>1, <1>2, <1>3

\* A string literal is an array of one character more than its text.
LEMMA CStringHolds ==
    ASSUME NEW w \in Texts
    PROVE  CString(w) \in Arrays(Len(w) + 1) /\ Holds(CString(w), w)
<1> DEFINE a == CString(w)
<1>1. Len(w) \in Nat /\ \A i \in 1 .. Len(w) : w[i] \in 1 .. 127
  BY TextFacts
<1>2. DOMAIN a = 0 .. Len(w) /\ a = [i \in 0 .. Len(w) |-> a[i]] /\ a[Len(w)] = NUL
  BY <1>1 DEF CString
<1>3. ASSUME NEW i \in 0 .. Len(w) - 1 PROVE a[i] = w[i + 1] /\ i + 1 \in 1 .. Len(w)
  BY <1>1 DEF CString
<1> HIDE DEF a
<1>4. ASSUME NEW i \in 0 .. Len(w) PROVE a[i] \in 0 .. 127
  <2>1. CASE i = Len(w)
    BY <2>1, <1>2 DEF NUL
  <2>2. CASE i # Len(w)
    <3>1. i \in 0 .. Len(w) - 1
      BY <2>2, <1>1
    <3>2. a[i] \in 1 .. 127
      BY <3>1, <1>3, <1>1
    <3> QED BY <3>2
  <2> QED BY <2>1, <2>2
<1>5. a \in [0 .. Len(w) -> 0 .. 127]
  BY <1>2, <1>4
<1>6. a \in Arrays(Len(w) + 1)
  BY <1>1, <1>5 DEF Arrays
<1>7. Len(w) \in DOMAIN a /\ \A i \in 0 .. Len(w) - 1 : i \in DOMAIN a
  BY <1>1, <1>2
<1>8. Holds(a, w)
  BY <1>2, <1>3, <1>7 DEF Holds
<1> QED BY <1>6, <1>8 DEF a

\* str_get_len() and strlen() count the characters and the NUL.
LEMMA LenOf ==
    ASSUME NEW n \in Nat, NEW a \in Arrays(n), NEW w \in Texts, Holds(a, w)
    PROVE  /\ str_get_len(a) = Len(w) + 1
           /\ strlen(a) = Len(w) + 1
<1>1. /\ Len(w) \in Nat /\ Len(w) < n
      /\ \A i \in 0 .. Len(w) - 1 : a[i] \in 1 .. 127
      /\ a[Len(w)] = NUL /\ DOMAIN a = 0 .. n - 1
  BY HoldsFacts
<1> DEFINE S == {i \in DOMAIN a : a[i] = NUL}
<1>2. S \subseteq Nat /\ Len(w) \in S /\ \A i \in S : Len(w) <= i
  <2>1. ASSUME NEW i \in S PROVE Len(w) <= i
    <3>0. a[i] \notin 1 .. 127
      BY <2>1 DEF NUL
    <3>1. i \in 0 .. n - 1 /\ i \notin 0 .. Len(w) - 1
      BY <1>1, <2>1, <3>0
    <3> QED BY <3>1, <1>1
  <2> QED BY <1>1, <2>1
<1>3. Min(S) = Len(w)
  BY <1>2, MinIs
<1> DEFINE T == {i + 1 : i \in S}
<1>4. T \subseteq Nat /\ Len(w) + 1 \in T /\ \A i \in T : Len(w) + 1 <= i
  BY <1>2
<1>5. Min(T) = Len(w) + 1
  BY <1>4, MinIs
<1> QED BY <1>3, <1>5 DEF str_get_len, strlen

\* The string in an array that holds w is w.
LEMMA StringIs ==
    ASSUME NEW n \in Nat, NEW a \in Arrays(n), NEW w \in Texts, Holds(a, w)
    PROVE  StringOf(a) = w
<1>1. Len(w) \in Nat /\ \A i \in 0 .. Len(w) - 1 : a[i] = w[i + 1]
  BY HoldsFacts
<1>2. StringOf(a) = [i \in 1 .. Len(w) |-> a[i - 1]]
  BY <1>1, LenOf DEF StringOf
<1>3. \A i \in 1 .. Len(w) : a[i - 1] = w[i]
  BY <1>1
<1>4. w = [i \in 1 .. Len(w) |-> w[i]]
  BY TextFacts
<1> QED BY <1>2, <1>3, <1>4

\* str_find_char() says there is no key, or finds its first place.
LEMMA FindNone ==
    ASSUME NEW n \in Nat, NEW a \in Arrays(n), NEW w \in Texts, Holds(a, w),
           NEW key \in 1 .. 127, \A i \in 1 .. Len(w) : w[i] # key
    PROVE  str_find_char(a, key) = -1
<1>1. /\ Len(w) \in Nat /\ Len(w) < n
      /\ \A i \in 0 .. Len(w) - 1 : a[i] = w[i + 1] /\ a[i] # NUL
      /\ a[Len(w)] = NUL /\ DOMAIN a = 0 .. n - 1
  BY HoldsFacts
<1> DEFINE S == {i \in DOMAIN a : a[i] \in {key, NUL}}
<1>2. S \subseteq Nat
  BY <1>1
<1>3. Len(w) \in S
  BY <1>1
<1>4. ASSUME NEW i \in 0 .. Len(w) - 1 PROVE i \notin S
  <2>1. i + 1 \in 1 .. Len(w) /\ a[i] = w[i + 1] /\ a[i] # NUL
    BY <1>1
  <2> QED BY <2>1
<1>5. \A i \in S : Len(w) <= i
  BY <1>1, <1>2, <1>4
<1>6. Min(S) = Len(w)
  BY <1>2, <1>3, <1>5, MinIs
<1> QED BY <1>6, <1>1 DEF str_find_char, NUL

FirstAt(w, key, k) ==
    k \in 1 .. Len(w) /\ w[k] = key /\ \A i \in 1 .. k - 1 : w[i] # key

\* str_find_char() returns the index of the first occurrence of the key.
LEMMA FindFirst ==
    ASSUME NEW n \in Nat, NEW a \in Arrays(n), NEW w \in Texts, Holds(a, w),
           NEW key \in 1 .. 127, NEW k, FirstAt(w, key, k)
    PROVE  str_find_char(a, key) = k - 1
<1>0. k \in 1 .. Len(w) /\ w[k] = key /\ \A i \in 1 .. k - 1 : w[i] # key
  BY DEF FirstAt
<1>1. /\ Len(w) \in Nat /\ Len(w) < n
      /\ \A i \in 0 .. Len(w) - 1 : a[i] = w[i + 1] /\ a[i] # NUL
      /\ a[Len(w)] = NUL /\ DOMAIN a = 0 .. n - 1
  BY HoldsFacts
<1> DEFINE S == {i \in DOMAIN a : a[i] \in {key, NUL}}
<1>2. S \subseteq Nat
  BY <1>1
<1>3. k - 1 \in S /\ a[k - 1] = key
  BY <1>0, <1>1
<1>4. ASSUME NEW i \in 0 .. k - 2 PROVE i \notin S
  <2>1. i \in 0 .. Len(w) - 1 /\ i + 1 \in 1 .. k - 1
    BY <1>0, <1>1
  <2>2. a[i] = w[i + 1] /\ a[i] # NUL
    BY <1>1, <2>1
  <2> QED BY <1>0, <2>1, <2>2
<1>5. \A i \in S : k - 1 <= i
  BY <1>0, <1>1, <1>2, <1>4
<1>6. Min(S) = k - 1
  BY <1>2, <1>3, <1>5, MinIs
<1> QED BY <1>6, <1>3 DEF str_find_char

\* Where two strings end or differ: a NUL in one of them or two characters
\* that differ, and before it the same characters in both.
Stops(a, w, b, v, d) ==
    /\ d <= Len(w) /\ d <= Len(v) /\ d \in DOMAIN a \cap DOMAIN b
    /\ a[d] \in Nat /\ b[d] \in Nat
    /\ a[d] = NUL \/ a[d] # b[d]
    /\ a[d] = NUL <=> d = Len(w)
    /\ b[d] = NUL <=> d = Len(v)
    /\ \A i \in Nat : i < d => a[i] = b[i] /\ a[i] # NUL /\ b[i] # NUL /\ w[i + 1] = v[i + 1]

\* There is such a place.
LEMMA StopsAt ==
    ASSUME NEW n \in Nat, NEW a \in Arrays(n), NEW w \in Texts, Holds(a, w),
           NEW m \in Nat, NEW b \in Arrays(m), NEW v \in Texts, Holds(b, v)
    PROVE  \E d \in Nat : Stops(a, w, b, v, d)
<1>1. /\ Len(w) \in Nat /\ Len(w) < n
      /\ \A i \in 0 .. Len(w) - 1 : a[i] = w[i + 1] /\ a[i] # NUL
      /\ a[Len(w)] = NUL /\ DOMAIN a = 0 .. n - 1 /\ \A i \in 0 .. n - 1 : a[i] \in 0 .. 127
  BY HoldsFacts
<1>2. /\ Len(v) \in Nat /\ Len(v) < m
      /\ \A i \in 0 .. Len(v) - 1 : b[i] = v[i + 1] /\ b[i] # NUL
      /\ b[Len(v)] = NUL /\ DOMAIN b = 0 .. m - 1 /\ \A i \in 0 .. m - 1 : b[i] \in 0 .. 127
  BY HoldsFacts
<1> DEFINE S == {i \in Nat : /\ i <= Len(w) /\ i <= Len(v)
                             /\ a[i] = NUL \/ b[i] = NUL \/ a[i] # b[i]}
<1>3. S # {} /\ S \subseteq Nat
  <2>1. CASE Len(w) <= Len(v)
    <3>1. Len(w) \in S
      BY <1>1, <1>2, <2>1
    <3> QED BY <3>1
  <2>2. CASE Len(v) <= Len(w)
    <3>1. Len(v) \in S
      BY <1>1, <1>2, <2>2
    <3> QED BY <3>1
  <2> QED BY <1>1, <1>2, <2>1, <2>2
<1>4. PICK d \in S : \A i \in S : d <= i
  BY <1>3, NatLeast
<1>5. d \in Nat /\ d <= Len(w) /\ d <= Len(v) /\ d \in 0 .. n - 1 /\ d \in 0 .. m - 1
  BY <1>1, <1>2, <1>4
<1>6. a[d] = NUL <=> d = Len(w)
  <2>1. d # Len(w) => d \in 0 .. Len(w) - 1
    BY <1>1, <1>5
  <2> QED BY <2>1, <1>1
<1>7. b[d] = NUL <=> d = Len(v)
  <2>1. d # Len(v) => d \in 0 .. Len(v) - 1
    BY <1>2, <1>5
  <2> QED BY <2>1, <1>2
<1>8. ASSUME NEW i \in Nat, i < d
      PROVE  a[i] = b[i] /\ a[i] # NUL /\ b[i] # NUL /\ w[i + 1] = v[i + 1]
  <2>1. i \notin S /\ i \in 0 .. Len(w) - 1 /\ i \in 0 .. Len(v) - 1
    BY <1>1, <1>2, <1>4, <1>5, <1>8
  <2>2. a[i] = b[i]
    BY <2>1, <1>1, <1>2
  <2> QED BY <2>1, <2>2, <1>1, <1>2
<1>9. a[d] = NUL \/ a[d] # b[d]
  BY <1>4
<1>10. a[d] \in Nat /\ b[d] \in Nat /\ d \in DOMAIN a \cap DOMAIN b
  <2>1. a[d] \in 0 .. 127 /\ b[d] \in 0 .. 127
    BY <1>1, <1>2, <1>5
  <2>2. \A x \in 0 .. 127 : x \in Nat
    OBVIOUS
  <2>3. d \in DOMAIN a \cap DOMAIN b
    BY <1>1, <1>2, <1>5
  <2> QED BY <2>1, <2>2, <2>3
<1>11. Stops(a, w, b, v, d)
  BY <1>5, <1>6, <1>7, <1>8, <1>9, <1>10 DEF Stops
<1> QED BY <1>5, <1>11

\* Strings that agree up to their ends are equal, others differ.
LEMMA SameText ==
    ASSUME NEW w \in Texts, NEW v \in Texts, Len(w) = Len(v),
           \A i \in Nat : i < Len(w) => w[i + 1] = v[i + 1]
    PROVE  w = v
<1>1. Len(w) \in Nat /\ w = [i \in 1 .. Len(w) |-> w[i]]
  BY TextFacts
<1>2. v = [i \in 1 .. Len(w) |-> v[i]]
  BY TextFacts
<1>3. ASSUME NEW i \in 1 .. Len(w) PROVE w[i] = v[i]
  <2>1. i - 1 \in Nat /\ i - 1 < Len(w) /\ (i - 1) + 1 = i
    BY <1>1
  <2> QED BY <2>1
<1> QED BY <1>1, <1>2, <1>3

\* str_compare() and strcmp() are 0 exactly for equal strings and otherwise
\* have the same sign; strncmp() is 0 exactly when the first k characters, or
\* the whole strings, are the same.
LEMMA Compare ==
    ASSUME NEW n \in Nat, NEW a \in Arrays(n), NEW w \in Texts, Holds(a, w),
           NEW m \in Nat, NEW b \in Arrays(m), NEW v \in Texts, Holds(b, v)
    PROVE  /\ str_compare(a, b) \in Int /\ strcmp(a, b) \in Int
           /\ str_compare(a, b) = 0 <=> w = v
           /\ str_compare(a, b) < 0 <=> strcmp(a, b) < 0
           /\ str_compare(a, b) > 0 <=> strcmp(a, b) > 0
           /\ \A k \in Nat : strncmp(a, b, k) = 0 <=>
                 \/ w = v
                 \/ k <= Len(w) /\ k <= Len(v) /\ \A i \in 1 .. k : w[i] = v[i]
<1>0. PICK d \in Nat : Stops(a, w, b, v, d)
  BY StopsAt
<1>1. /\ d <= Len(w) /\ d <= Len(v) /\ d \in DOMAIN a \cap DOMAIN b
      /\ a[d] \in Nat /\ b[d] \in Nat
      /\ a[d] = NUL \/ a[d] # b[d]
      /\ a[d] = NUL <=> d = Len(w)
      /\ b[d] = NUL <=> d = Len(v)
      /\ \A i \in Nat : i < d => a[i] = b[i] /\ a[i] # NUL /\ b[i] # NUL /\ w[i + 1] = v[i + 1]
  BY <1>0 DEF Stops
<1>2. DOMAIN a \subseteq Nat /\ DOMAIN b \subseteq Nat /\ Len(w) \in Nat /\ Len(v) \in Nat
  BY TextFacts DEF Arrays
<1> DEFINE S == {j \in DOMAIN a \cap DOMAIN b : NUL \in {a[j], b[j]} \/ a[j] # b[j]}
           T == {j \in DOMAIN a \cap DOMAIN b : a[j] # b[j] \/ a[j] = NUL}
           U(k) == {j \in DOMAIN a \cap DOMAIN b : j = k \/ a[j] # b[j] \/ a[j] = NUL}
<1>3. S \subseteq Nat /\ d \in S /\ \A j \in S : d <= j
  BY <1>1, <1>2
<1>4. T \subseteq Nat /\ d \in T /\ \A j \in T : d <= j
  BY <1>1, <1>2
<1>5. Min(S) = d /\ Min(T) = d
  BY <1>3, <1>4, MinIs
<1>6. str_compare(a, b) = IF NUL \notin {a[d], b[d]} THEN a[d] - b[d]
                          ELSE IF a[d] # NUL THEN 1 ELSE IF b[d] # NUL THEN -1 ELSE 0
  BY <1>5 DEF str_compare
<1>7. strcmp(a, b) = a[d] - b[d]
  BY <1>5 DEF strcmp
<1>8. a[d] = b[d] <=> w = v
  <2>1. ASSUME a[d] = b[d] PROVE w = v
    <3>1. d = Len(w) /\ d = Len(v)
      BY <1>1, <2>1
    <3> QED BY <3>1, <1>1, SameText
  <2>2. ASSUME w = v PROVE a[d] = b[d]
    <3>1. CASE d = Len(w)
      BY <1>1, <2>2, <3>1
    <3>2. CASE d # Len(w)
      <4>1. d \in 0 .. Len(w) - 1
        BY <1>1, <1>2, <3>2
      <4>2. a[d] = w[d + 1] /\ b[d] = v[d + 1]
        BY <4>1, <2>2 DEF Holds
      <4> QED BY <4>2, <2>2
    <3> QED BY <3>1, <3>2
  <2> QED BY <2>1, <2>2
<1>9. /\ str_compare(a, b) \in Int /\ strcmp(a, b) \in Int
      /\ str_compare(a, b) = 0 <=> a[d] = b[d]
      /\ str_compare(a, b) < 0 <=> strcmp(a, b) < 0
      /\ str_compare(a, b) > 0 <=> strcmp(a, b) > 0
  <2>1. a[d] \in Nat /\ b[d] \in Nat
    BY <1>1
  <2>2. CASE a[d] # 0 /\ b[d] # 0
    BY <2>1, <2>2, <1>6, <1>7 DEF NUL
  <2>3. CASE a[d] = 0 \/ b[d] = 0
    BY <2>1, <2>3, <1>6, <1>7 DEF NUL
  <2> QED BY <2>2, <2>3
<1>10. ASSUME NEW k \in Nat, k <= d
       PROVE  strncmp(a, b, k) = 0 /\ k <= Len(w) /\ k <= Len(v) /\ \A i \in 1 .. k : w[i] = v[i]
  <2>1. k \in DOMAIN a \cap DOMAIN b
    BY <1>1, <1>10 DEF Arrays
  <2>2. U(k) \subseteq Nat /\ k \in U(k) /\ \A j \in U(k) : k <= j
    BY <1>1, <1>2, <1>10, <2>1
  <2>3. Min(U(k)) = k
    BY <2>2, MinIs
  <2>4. strncmp(a, b, k) = 0
    BY <2>3 DEF strncmp
  <2>5. ASSUME NEW i \in 1 .. k PROVE w[i] = v[i]
    <3>1. i - 1 \in Nat /\ i - 1 < d /\ (i - 1) + 1 = i
      BY <1>10
    <3> QED BY <3>1, <1>1
  <2> QED BY <2>4, <2>5, <1>1, <1>2, <1>10
<1>11. ASSUME NEW k \in Nat, d < k
       PROVE  /\ strncmp(a, b, k) = 0 <=> w = v
              /\ k <= Len(w) /\ k <= Len(v) /\ (\A i \in 1 .. k : w[i] = v[i]) => w = v
  <2>1. U(k) \subseteq Nat /\ d \in U(k) /\ \A j \in U(k) : d <= j
    BY <1>1, <1>2, <1>11
  <2>2. Min(U(k)) = d
    BY <2>1, MinIs
  <2>3. strncmp(a, b, k) = a[d] - b[d]
    BY <2>2, <1>11 DEF strncmp
  <2>4. strncmp(a, b, k) = 0 <=> a[d] = b[d]
    <3>1. a[d] \in Int /\ b[d] \in Int
      BY <1>1
    <3> QED BY <3>1, <2>3
  <2>5. ASSUME k <= Len(w), k <= Len(v), \A i \in 1 .. k : w[i] = v[i] PROVE FALSE
    <3>1. d \in 0 .. Len(w) - 1 /\ d \in 0 .. Len(v) - 1 /\ d + 1 \in 1 .. k
      BY <1>2, <1>11, <2>5
    <3>2. a[d] = w[d + 1] /\ b[d] = v[d + 1]
      BY <3>1 DEF Holds
    <3> QED BY <3>1, <3>2, <2>5, <1>1, <1>2
  <2> QED BY <2>4, <2>5, <1>8
<1>12. ASSUME NEW k \in Nat
       PROVE  strncmp(a, b, k) = 0 <=>
                 \/ w = v
                 \/ k <= Len(w) /\ k <= Len(v) /\ \A i \in 1 .. k : w[i] = v[i]
  BY <1>10, <1>11
<1> QED BY <1>8, <1>9, <1>12

\* copy_mem() of the end of a string, from character k on to its NUL.
LEMMA CopyEnd ==
    ASSUME NEW n \in Nat, NEW a \in Arrays(n), NEW w \in Texts, Holds(a, w),
           NEW m \in Nat, NEW dst \in Arrays(m), NEW k \in 0 .. Len(w), Len(w) - k < m,
           NEW c, c = copy_mem(a, k, dst, Len(w) + 1 - k)
    PROVE  c \in Arrays(m) /\ Holds(c, SubSeq(w, k + 1, Len(w)))
<1> DEFINE s == SubSeq(w, k + 1, Len(w))
<1>1. /\ Len(w) \in Nat /\ Len(w) < n
      /\ \A i \in 0 .. Len(w) - 1 : a[i] = w[i + 1]
      /\ a[Len(w)] = NUL /\ \A i \in 0 .. n - 1 : a[i] \in 0 .. 127
  BY HoldsFacts
<1>2. /\ s \in Texts /\ Len(s) = Len(w) - k /\ Len(s) \in Nat
      /\ \A i \in 1 .. Len(s) : s[i] = w[k + i]
  <2> DEFINE C == 1 .. 127
  <2>1. w \in Seq(C)
    BY DEF Texts
  <2> HIDE DEF C
  <2>2. s \in Seq(C) /\ Len(s) = Len(w) - k
    BY <2>1, <1>1
  <2>3. ASSUME NEW i \in 1 .. Len(s) PROVE s[i] = w[k + i]
    <3>1. i \in 1 .. Len(w) - k
      BY <2>2
    <3>2. s[i] = w[(k + 1) + i - 1] /\ (k + 1) + i - 1 = k + i
      BY <2>1, <1>1, <3>1
    <3> QED BY <3>2
  <2> QED BY <2>2, <2>3, <1>1 DEF C, Texts
<1>3. dst \in [0 .. m - 1 -> 0 .. 127]
  BY DEF Arrays
<1>4. /\ c = [i \in 0 .. m - 1 |-> c[i]]
      /\ \A i \in 0 .. m - 1 : c[i] = IF i < Len(w) + 1 - k THEN a[k + i] ELSE dst[i]
  BY <1>3 DEF copy_mem
<1> HIDE DEF s
<1>5. ASSUME NEW i \in 0 .. m - 1 PROVE c[i] \in 0 .. 127
  <2>1. CASE i < Len(w) + 1 - k
    <3>1. c[i] = a[k + i] /\ k + i \in 0 .. n - 1
      BY <1>1, <1>4, <2>1
    <3> QED BY <3>1, <1>1
  <2>2. CASE ~(i < Len(w) + 1 - k)
    BY <2>2, <1>3, <1>4
  <2> QED BY <2>1, <2>2
<1>6. c \in Arrays(m) /\ DOMAIN c = 0 .. m - 1
  BY <1>4, <1>5 DEF Arrays
<1>7. Len(s) \in DOMAIN c /\ c[Len(s)] = NUL
  <2>1. Len(s) \in 0 .. m - 1 /\ Len(s) < Len(w) + 1 - k /\ k + Len(s) = Len(w)
    BY <1>1, <1>2
  <2>2. c[Len(s)] = a[k + Len(s)]
    BY <2>1, <1>4
  <2> QED BY <2>1, <2>2, <1>1, <1>6
<1>8. ASSUME NEW i \in 0 .. Len(s) - 1 PROVE i \in DOMAIN c /\ c[i] = s[i + 1]
  <2>1. /\ i \in 0 .. m - 1 /\ i < Len(w) + 1 - k /\ k + i \in 0 .. Len(w) - 1
        /\ i + 1 \in 1 .. Len(s) /\ k + (i + 1) = (k + i) + 1
    BY <1>1, <1>2
  <2>2. c[i] = a[k + i]
    BY <2>1, <1>4
  <2>3. a[k + i] = w[(k + i) + 1]
    BY <2>1, <1>1
  <2>4. s[i + 1] = w[k + (i + 1)]
    BY <2>1, <1>2
  <2> QED BY <2>1, <2>2, <2>3, <2>4, <1>6
<1>9. Holds(c, s)
  BY <1>7, <1>8 DEF Holds
<1> QED BY <1>6, <1>9 DEF s

\* copy_mem() of the first k characters of a string, and a NUL behind them.
LEMMA CopyStart ==
    ASSUME NEW n \in Nat, NEW a \in Arrays(n), NEW w \in Texts, Holds(a, w),
           NEW m \in Nat, NEW dst \in Arrays(m), NEW k \in 0 .. Len(w), k < m, NEW c,
           c = [i \in DOMAIN dst |-> IF i = k THEN NUL ELSE copy_mem(a, 0, dst, k)[i]]
    PROVE  c \in Arrays(m) /\ Holds(c, SubSeq(w, 1, k))
<1> DEFINE s == SubSeq(w, 1, k)
<1>1. /\ Len(w) \in Nat /\ Len(w) < n
      /\ \A i \in 0 .. Len(w) - 1 : a[i] = w[i + 1]
      /\ a[Len(w)] = NUL /\ \A i \in 0 .. n - 1 : a[i] \in 0 .. 127
  BY HoldsFacts
<1>2. /\ s \in Texts /\ Len(s) = k
      /\ \A i \in 1 .. k : s[i] = w[i]
  <2> DEFINE C == 1 .. 127
  <2>1. w \in Seq(C)
    BY DEF Texts
  <2> HIDE DEF C
  <2>2. s \in Seq(C) /\ Len(s) = k
    BY <2>1, <1>1
  <2>3. ASSUME NEW i \in 1 .. k PROVE s[i] = w[i]
    <3>1. s[i] = w[1 + i - 1] /\ 1 + i - 1 = i
      BY <2>1, <1>1
    <3> QED BY <3>1
  <2> QED BY <2>2, <2>3 DEF C, Texts
<1>3. dst \in [0 .. m - 1 -> 0 .. 127]
  BY DEF Arrays
<1>4. /\ c = [i \in 0 .. m - 1 |-> c[i]]
      /\ \A i \in 0 .. m - 1 : c[i] = IF i = k THEN NUL ELSE IF i < k THEN a[0 + i] ELSE dst[i]
  BY <1>3 DEF copy_mem
<1> HIDE DEF s
<1>5. ASSUME NEW i \in 0 .. k - 1 PROVE c[i] = a[i] /\ c[i] = w[i + 1] /\ i \in 0 .. n - 1
  <2>1. i \in 0 .. m - 1 /\ i # k /\ i < k /\ 0 + i = i /\ i \in 0 .. Len(w) - 1
    BY <1>1
  <2>2. c[i] = a[i]
    BY <2>1, <1>4
  <2> QED BY <2>1, <2>2, <1>1
<1>6. ASSUME NEW i \in 0 .. m - 1 PROVE c[i] \in 0 .. 127
  <2>1. CASE i < k
    <3>1. i \in 0 .. k - 1
      BY <2>1
    <3>2. c[i] = a[i] /\ i \in 0 .. n - 1
      BY <3>1, <1>5
    <3> QED BY <3>2, <1>1
  <2>2. CASE i = k
    <3>1. c[i] = NUL
      BY <2>2, <1>4
    <3> QED BY <3>1 DEF NUL
  <2>3. CASE i > k
    <3>1. c[i] = dst[i]
      BY <2>3, <1>4
    <3> QED BY <3>1, <1>3
  <2> QED BY <2>1, <2>2, <2>3
<1>7. c \in Arrays(m) /\ DOMAIN c = 0 .. m - 1
  BY <1>4, <1>6 DEF Arrays
<1>8. Len(s) \in DOMAIN c /\ c[Len(s)] = NUL
  BY <1>2, <1>4, <1>7
<1>9. ASSUME NEW i \in 0 .. Len(s) - 1 PROVE i \in DOMAIN c /\ c[i] = s[i + 1]
  <2>1. i \in 0 .. k - 1 /\ i \in 0 .. m - 1 /\ i + 1 \in 1 .. k
    BY <1>2
  <2> QED BY <2>1, <1>2, <1>5, <1>7
<1>10. Holds(c, s)
  BY <1>8, <1>9 DEF Holds
<1> QED BY <1>7, <1>10 DEF s

\* strcpy() copies the string and its NUL.
LEMMA StrCpy ==
    ASSUME NEW n \in Nat, NEW a \in Arrays(n), NEW w \in Texts, Holds(a, w),
           NEW m \in Nat, NEW dst \in Arrays(m), Len(w) < m
    PROVE  /\ StringOf(strcpy(dst, a).array) = w
           /\ strcpy(dst, a).result = Len(w) + 1
<1>1. Len(w) \in Nat /\ SubSeq(w, 1, Len(w)) = w
  BY TextFacts DEF Texts
<1>2. strcpy(dst, a).array = copy_mem(a, 0, dst, Len(w) + 1) /\ strcpy(dst, a).result = Len(w) + 1
  BY LenOf DEF strcpy
<1> DEFINE c == copy_mem(a, 0, dst, Len(w) + 1)
<1>3. 0 \in 0 .. Len(w) /\ Len(w) - 0 < m /\ Len(w) + 1 - 0 = Len(w) + 1 /\ 0 + 1 = 1
  BY <1>1
<1>4. c \in Arrays(m) /\ Holds(c, w)
  <2>1. c = copy_mem(a, 0, dst, Len(w) + 1 - 0)
    BY <1>3
  <2> HIDE DEF c
  <2>2. c \in Arrays(m) /\ Holds(c, SubSeq(w, 0 + 1, Len(w)))
    BY <2>1, <1>3, CopyEnd
  <2> QED BY <2>2, <1>1, <1>3
<1>5. StringOf(c) = w
  BY <1>4, StringIs
<1> QED BY <1>2, <1>5

----------------------------------------------------------------------------
(***************************************************************************)
(* Recursive functions of a number.                                        *)
(***************************************************************************)
\* f has the value a for 0 and, for each number, the value h gives for the one
\* before; FollowsTo is the same for the numbers up to n.
Follows(f, T, a, h) ==
    f \in [Nat -> T] /\ f[0] = a /\ \A n \in Nat : f[n + 1] = h[n][f[n]]

FollowsTo(f, T, a, h, n) ==
    f \in [0 .. n -> T] /\ f[0] = a /\ \A i \in 1 .. n : f[i] = h[i - 1][f[i - 1]]

\* There is a function that follows any such rule.
LEMMA NatRecursion ==
    ASSUME NEW T, NEW a \in T, NEW h \in [Nat -> [T -> T]]
    PROVE  \E f : Follows(f, T, a, h)
<1> DEFINE Part(g, n) == /\ g \in [0 .. n -> T] /\ g[0] = a
                         /\ \A i \in 0 .. n - 1 : g[i + 1] = h[i][g[i]]
           Good == {n \in Nat : \E g : Part(g, n)}
<1>1. 0 \in Good
  <2> DEFINE g == [i \in 0 .. 0 |-> a]
  <2>1. g \in [0 .. 0 -> T] /\ g[0] = a /\ 0 .. 0 - 1 = {}
    OBVIOUS
  <2> HIDE DEF g
  <2>2. Part(g, 0)
    BY <2>1
  <2> QED BY <2>2
<1>2. ASSUME NEW n \in Nat, n \in Good PROVE n + 1 \in Good
  <2>1. PICK g : Part(g, n)
    BY <1>2
  <2> DEFINE k == [i \in 0 .. n + 1 |-> IF i = n + 1 THEN h[n][g[n]] ELSE g[i]]
  <2>2. \A i \in 0 .. n : k[i] = g[i] /\ g[i] \in T
    BY <2>1
  <2>3. k[n + 1] = h[n][g[n]] /\ n \in 0 .. n
    OBVIOUS
  <2>4. k = [i \in 0 .. n + 1 |-> k[i]]
    OBVIOUS
  <2> HIDE DEF k
  <2>5. k[n + 1] \in T
    BY <2>2, <2>3
  <2>6. ASSUME NEW i \in 0 .. n + 1 PROVE k[i] \in T
    <3>1. i = n + 1 \/ i \in 0 .. n
      OBVIOUS
    <3> QED BY <3>1, <2>2, <2>5
  <2>7. ASSUME NEW i \in 0 .. (n + 1) - 1 PROVE k[i + 1] = h[i][k[i]]
    <3>1. CASE i = n
      BY <3>1, <2>2, <2>3
    <3>2. CASE i # n
      <4>1. i \in 0 .. n - 1 /\ i \in 0 .. n /\ i + 1 \in 0 .. n
        BY <3>2
      <4>2. g[i + 1] = h[i][g[i]]
        BY <4>1, <2>1
      <4> QED BY <4>1, <4>2, <2>2
    <3> QED BY <3>1, <3>2
  <2>8. k[0] = a
    <3>1. 0 \in 0 .. n
      OBVIOUS
    <3> QED BY <3>1, <2>1, <2>2
  <2>9. Part(k, n + 1)
    BY <2>4, <2>6, <2>7, <2>8
  <2> QED BY <2>9
<1>3. \A n \in Nat : \E g : Part(g, n)
  <2>1. \A n \in Nat : n \in Good
    <3> HIDE DEF Good
    <3> QED BY <1>1, <1>2, AllNat
  <2> QED BY <2>1
\* Two such parts agree where both are defined.
<1>4. ASSUME NEW n \in Nat, NEW m \in Nat, NEW g, Part(g, n), NEW k, Part(k, m)
      PROVE  \A i \in Nat : i <= n /\ i <= m => g[i] = k[i]
  <2> DEFINE S == {i \in Nat : i <= n /\ i <= m => g[i] = k[i]}
  <2>1. 0 \in S
    BY <1>4
  <2>2. ASSUME NEW i \in Nat, i \in S PROVE i + 1 \in S
    <3> SUFFICES ASSUME i + 1 <= n, i + 1 <= m PROVE g[i + 1] = k[i + 1]
      OBVIOUS
    <3>1. i \in 0 .. n - 1 /\ i \in 0 .. m - 1 /\ g[i] = k[i]
      BY <2>2
    <3> QED BY <3>1, <1>4
  <2>3. \A i \in Nat : i \in S
    <3> HIDE DEF S
    <3> QED BY <2>1, <2>2, AllNat
  <2> QED BY <2>3
<1> DEFINE P(n) == CHOOSE g : Part(g, n)
           f == [n \in Nat |-> P(n)[n]]
<1>5. \A n \in Nat : Part(P(n), n)
  BY <1>3
<1> HIDE DEF P
<1>6. ASSUME NEW n \in Nat PROVE f[n] = P(n)[n] /\ P(n)[n] \in T
  <2>1. P(n) \in [0 .. n -> T] /\ n \in 0 .. n
    BY <1>5
  <2> QED BY <2>1
<1>7. ASSUME NEW n \in Nat PROVE f[n + 1] = h[n][f[n]]
  <2>1. n \in 0 .. (n + 1) - 1 /\ n + 1 \in Nat /\ n <= n + 1 /\ n <= n
    OBVIOUS
  <2>2. Part(P(n + 1), n + 1) /\ Part(P(n), n)
    BY <1>5, <2>1
  <2>3. P(n + 1)[n + 1] = h[n][P(n + 1)[n]]
    BY <2>1, <2>2
  <2> HIDE DEF Part
  <2>4. P(n + 1)[n] = P(n)[n]
    BY <2>1, <2>2, <1>4
  <2>5. f[n + 1] = P(n + 1)[n + 1] /\ f[n] = P(n)[n]
    BY <2>1, <1>6
  <2> QED BY <2>3, <2>4, <2>5
<1>8. f[0] = a
  <2>1. P(0)[0] = a
    BY <1>5
  <2> QED BY <2>1, <1>6
<1>9. f \in [Nat -> T]
  BY <1>6
<1> HIDE DEF f
<1>10. Follows(f, T, a, h)
  BY <1>7, <1>8, <1>9 DEF Follows
<1> QED BY <1>10

\* The same for the numbers up to n.
LEMMA UpTo ==
    ASSUME NEW T, NEW a \in T, NEW h \in [Nat -> [T -> T]], NEW n \in Nat
    PROVE  \E f : FollowsTo(f, T, a, h, n)
<1>0. PICK g : Follows(g, T, a, h)
  BY NatRecursion
<1>1. g \in [Nat -> T] /\ g[0] = a /\ \A i \in Nat : g[i + 1] = h[i][g[i]]
  BY <1>0 DEF Follows
<1> DEFINE f == [i \in 0 .. n |-> g[i]]
<1>2. f \in [0 .. n -> T] /\ f[0] = a /\ \A i \in 0 .. n : f[i] = g[i]
  BY <1>1
<1> HIDE DEF f
<1>3. ASSUME NEW i \in 1 .. n PROVE f[i] = h[i - 1][f[i - 1]]
  <2>1. i - 1 \in Nat /\ (i - 1) + 1 = i /\ i \in 0 .. n /\ i - 1 \in 0 .. n
    OBVIOUS
  <2>2. g[(i - 1) + 1] = h[i - 1][g[i - 1]]
    BY <1>1, <2>1
  <2> QED BY <2>1, <2>2, <1>2
<1>4. FollowsTo(f, T, a, h, n)
  BY <1>2, <1>3 DEF FollowsTo
<1> QED BY <1>4

\* The code's pow() and the power without overflow.
LEMMA PowFacts ==
    ASSUME NEW num \in Nat, NEW mod \in Nat \ {0}
    PROVE  /\ pow(num, 0, mod) = 1
           /\ \A m \in Nat : /\ pow(num, m, mod) \in Nat
                             /\ pow(num, m + 1, mod) = (pow(num, m, mod) * num) % mod
<1> DEFINE Rec(g) == g = [m \in Nat |-> IF m = 0 THEN 1 ELSE (g[m - 1] * num) % mod]
           h == [i \in Nat |-> [v \in Nat |-> (v * num) % mod]]
<1>1. h \in [Nat -> [Nat -> Nat]]
  <2>1. \A v \in Nat : (v * num) % mod \in Nat
    OBVIOUS
  <2> QED BY <2>1
<1>2. \A i \in Nat, v \in Nat : h[i][v] = (v * num) % mod
  OBVIOUS
<1> HIDE DEF h
<1>3. PICK f : Follows(f, Nat, 1, h)
  BY <1>1, NatRecursion
<1>4. f \in [Nat -> Nat] /\ f[0] = 1 /\ \A m \in Nat : f[m + 1] = (f[m] * num) % mod
  BY <1>2, <1>3 DEF Follows
<1>5. Rec(f)
  <2>1. f = [m \in Nat |-> f[m]]
    BY <1>4
  <2>2. ASSUME NEW m \in Nat PROVE f[m] = IF m = 0 THEN 1 ELSE (f[m - 1] * num) % mod
    <3>1. m # 0 => m - 1 \in Nat /\ (m - 1) + 1 = m
      OBVIOUS
    <3> QED BY <3>1, <1>4
  <2> QED BY <2>1, <2>2
<1> DEFINE p == CHOOSE g : Rec(g)
<1>6. Rec(p)
  BY <1>5
<1>7. \A m : pow(num, m, mod) = p[m]
  BY DEF pow
<1> HIDE DEF p
<1>8. p[0] = 1
  BY <1>6
<1>9. ASSUME NEW m \in Nat PROVE p[m + 1] = (p[m] * num) % mod
  <2>1. m + 1 \in Nat /\ m + 1 # 0 /\ (m + 1) - 1 = m
    OBVIOUS
  <2>2. p[m + 1] = (p[(m + 1) - 1] * num) % mod
    BY <1>6, <2>1
  <2> QED BY <2>1, <2>2
<1>10. \A m \in Nat : p[m] \in Nat
  <2> DEFINE S == {m \in Nat : p[m] \in Nat}
  <2>1. 0 \in S /\ \A m \in Nat : m \in S => m + 1 \in S
    BY <1>8, <1>9
  <2> HIDE DEF S
  <2>2. \A m \in Nat : m \in S
    BY <2>1, AllNat
  <2> QED BY <2>2 DEF S
<1> QED BY <1>7, <1>8, <1>9, <1>10

\* Power is what its recursion says, and a number.
LEMMA PowerFacts ==
    ASSUME NEW num \in Nat
    PROVE  /\ Power(num, 0) = 1
           /\ \A m \in Nat : /\ Power(num, m) \in Nat
                             /\ Power(num, m + 1) = Power(num, m) * num
<1> DEFINE Rec(g) == g = [m \in Nat |-> IF m = 0 THEN 1 ELSE g[m - 1] * num]
           h == [i \in Nat |-> [v \in Nat |-> v * num]]
<1>1. h \in [Nat -> [Nat -> Nat]]
  <2>1. \A v \in Nat : v * num \in Nat
    OBVIOUS
  <2> QED BY <2>1
<1>2. \A i \in Nat, v \in Nat : h[i][v] = v * num
  OBVIOUS
<1> HIDE DEF h
<1>3. PICK f : Follows(f, Nat, 1, h)
  BY <1>1, NatRecursion
<1>4. f \in [Nat -> Nat] /\ f[0] = 1 /\ \A m \in Nat : f[m + 1] = f[m] * num
  BY <1>2, <1>3 DEF Follows
<1>5. Rec(f)
  <2>1. f = [m \in Nat |-> f[m]]
    BY <1>4
  <2>2. ASSUME NEW m \in Nat PROVE f[m] = IF m = 0 THEN 1 ELSE f[m - 1] * num
    <3>1. m # 0 => m - 1 \in Nat /\ (m - 1) + 1 = m
      OBVIOUS
    <3> QED BY <3>1, <1>4
  <2> QED BY <2>1, <2>2
<1> DEFINE p == CHOOSE g : Rec(g)
<1>6. Rec(p)
  BY <1>5
<1>7. \A m : Power(num, m) = p[m]
  BY DEF Power
<1> HIDE DEF p
<1>8. p[0] = 1
  BY <1>6
<1>9. ASSUME NEW m \in Nat PROVE p[m + 1] = p[m] * num
  <2>1. m + 1 \in Nat /\ m + 1 # 0 /\ (m + 1) - 1 = m
    OBVIOUS
  <2>2. p[m + 1] = p[(m + 1) - 1] * num
    BY <1>6, <2>1
  <2> QED BY <2>1, <2>2
<1>10. \A m \in Nat : p[m] \in Nat
  <2> DEFINE S == {m \in Nat : p[m] \in Nat}
  <2>1. 0 \in S /\ \A m \in Nat : m \in S => m + 1 \in S
    BY <1>8, <1>9
  <2> HIDE DEF S
  <2>2. \A m \in Nat : m \in S
    BY <2>1, AllNat
  <2> QED BY <2>2 DEF S
<1> QED BY <1>7, <1>8, <1>9, <1>10

----------------------------------------------------------------------------
(***************************************************************************)
(* Quotients and remainders.                                               *)
(***************************************************************************)
\* Quotient and remainder, and that nothing else is.
LEMMA DivMod ==
    ASSUME NEW m \in Nat \ {0}, NEW x \in Int
    PROVE  /\ x = m * (x \div m) + (x % m)
           /\ x \div m \in Int /\ x % m \in 0 .. m - 1
           /\ x \in Nat => x \div m \in Nat
  OBVIOUS

\* Quotient and remainder are the only numbers with that equation.
LEMMA DivModIs ==
    ASSUME NEW m \in Nat \ {0}, NEW q \in Int, NEW r \in 0 .. m - 1, NEW x \in Int, x = m * q + r
    PROVE  x % m = r /\ x \div m = q
<1>1. (m * q + r) % m = r /\ (m * q + r) \div m = q
  OBVIOUS
<1> QED BY <1>1

\* Adding a multiple of m changes no remainder.
Apart(m, x, z) == \E k \in Int : x = m * k + z

\* So numbers that are a multiple of m apart have one remainder.
LEMMA ModAdds ==
    ASSUME NEW m \in Nat \ {0}, NEW z \in Int, NEW x \in Int, Apart(m, x, z)
    PROVE  x % m = z % m
<1>0. PICK k \in Int : x = m * k + z
  BY DEF Apart
<1> DEFINE q == z \div m
           r == z % m
<1>1. z = m * q + r /\ q \in Int /\ r \in 0 .. m - 1
  BY DivMod
<1> HIDE DEF q, r
<1> DEFINE s == k + q
<1>2. x = m * s + r /\ s \in Int
  BY <1>0, <1>1
<1> HIDE DEF s
<1>3. x % m = r
  BY <1>1, <1>2, DivModIs, ZenonT(60)
<1>4. z % m = r
  BY <1>1, DivModIs, ZenonT(60)
<1> QED BY <1>3, <1>4

\* Sums and products of numbers with the same remainders have the same ones.
SameMod(m, x, u) == x % m = u % m

\* Sums of numbers with the same remainders have the same remainder.
LEMMA ModSum ==
    ASSUME NEW m \in Nat \ {0}, NEW x \in Int, NEW y \in Int, NEW u \in Int, NEW v \in Int,
           SameMod(m, x, u), SameMod(m, y, v)
    PROVE  SameMod(m, x + y, u + v)
<1>0. x % m = u % m /\ y % m = v % m
  BY DEF SameMod
<1> DEFINE a == x \div m
           b == y \div m
           c == u \div m
           d == v \div m
<1>1. x = m * a + (x % m) /\ a \in Int
  BY DivMod
<1>2. y = m * b + (y % m) /\ b \in Int
  BY DivMod
<1>3. u = m * c + (u % m) /\ c \in Int /\ u % m \in Int
  BY DivMod
<1>4. v = m * d + (v % m) /\ d \in Int /\ v % m \in Int
  BY DivMod
<1> HIDE DEF a, b, c, d
<1> DEFINE e == (a - c) + (b - d)
<1>5. e \in Int /\ m * e = (m * a - m * c) + (m * b - m * d)
  BY <1>1, <1>2, <1>3, <1>4
<1>6. m * a \in Int /\ m * b \in Int /\ m * c \in Int /\ m * d \in Int
  BY <1>1, <1>2, <1>3, <1>4
<1> HIDE DEF e
<1>7. x + y = m * e + (u + v) /\ x + y \in Int /\ u + v \in Int
  BY <1>0, <1>1, <1>2, <1>3, <1>4, <1>5, <1>6
<1> DEFINE X == x + y
           U == u + v
<1>8. X \in Int /\ U \in Int /\ X = m * e + U
  BY <1>7
<1> HIDE DEF X, U
<1>9. X % m = U % m
  <2>1. Apart(m, X, U)
    BY <1>5, <1>8 DEF Apart
  <2> QED BY <1>8, <2>1, ModAdds
<1> QED BY <1>9 DEF X, U, SameMod

\* And so have products.
LEMMA ModProduct ==
    ASSUME NEW m \in Nat \ {0}, NEW x \in Int, NEW y \in Int, NEW u \in Int, SameMod(m, x, u)
    PROVE  SameMod(m, x * y, u * y) /\ SameMod(m, y * x, y * u)
<1>0. x % m = u % m
  BY DEF SameMod
<1> DEFINE a == x \div m
           c == u \div m
<1>1. x = m * a + (x % m) /\ a \in Int
  BY DivMod
<1>2. u = m * c + (u % m) /\ c \in Int /\ u % m \in Int
  BY DivMod
<1> HIDE DEF a, c
<1> DEFINE e == a - c
<1>3. e \in Int /\ x = m * e + u
  <2>1. e \in Int /\ m * e = m * a - m * c /\ m * a \in Int /\ m * c \in Int
    BY <1>1, <1>2
  <2> HIDE DEF e
  <2> QED BY <1>0, <1>1, <1>2, <2>1
<1> HIDE DEF e
<1>4. x * y = m * (e * y) + u * y /\ e * y \in Int /\ u * y \in Int /\ x * y \in Int
  <2>1. x * y = (m * e + u) * y
    BY <1>3
  <2>2. (m * e + u) * y = (m * e) * y + u * y
    BY <1>3
  <2>3. (m * e) * y = m * (e * y)
    BY <1>3
  <2> QED BY <1>3, <2>1, <2>2, <2>3
<1>5. (x * y) % m = (u * y) % m
  <2> DEFINE X == x * y
             U == u * y
             E == e * y
  <2>1. X \in Int /\ U \in Int /\ E \in Int /\ X = m * E + U
    BY <1>4
  <2> HIDE DEF X, U, E
  <2>2. X % m = U % m
    <3>1. Apart(m, X, U)
      BY <2>1 DEF Apart
    <3> QED BY <2>1, <3>1, ModAdds
  <2> QED BY <2>2 DEF X, U
<1>6. y * x = x * y /\ y * u = u * y
  OBVIOUS
<1> QED BY <1>5, <1>6 DEF SameMod

\* A remainder is its own remainder.
LEMMA ModTwice ==
    ASSUME NEW m \in Nat \ {0}, NEW x \in Int
    PROVE  (x % m) % m = x % m
<1> DEFINE r == x % m
<1>1. r \in 0 .. m - 1 /\ r \in Int /\ r = m * 0 + r
  BY DivMod
<1> HIDE DEF r
<1>2. r % m = r
  BY <1>1, DivModIs
<1> QED BY <1>2 DEF r

\* Dividing twice, and cutting off high digits before or after low ones.
LEMMA DivTwice ==
    ASSUME NEW a \in Nat \ {0}, NEW b \in Nat \ {0}, NEW x \in Int
    PROVE  /\ (x \div a) \div b = x \div (a * b)
           /\ (x % (a * b)) \div a = (x \div a) % b
           /\ (x % (a * b)) % a = x % a
           /\ x % (a * b) = a * ((x \div a) % b) + (x % a)
<1> DEFINE q == x \div a
           r == x % a
           t == q \div b
           s == q % b
<1>1. x = a * q + r /\ q \in Int /\ r \in 0 .. a - 1
  BY DivMod
<1>2. q = b * t + s /\ t \in Int /\ s \in 0 .. b - 1
  BY <1>1, DivMod
<1> HIDE DEF q, r, s, t
<1>3. a * b \in Nat \ {0}
  OBVIOUS
<1>4. x = (a * b) * t + (a * s + r)
  <2>1. x = a * (b * t + s) + r
    BY <1>1, <1>2
  <2>2. a * (b * t + s) = a * (b * t) + a * s
    BY <1>2
  <2>3. a * (b * t) = (a * b) * t
    BY <1>2
  <2>4. a * s \in Int /\ (a * b) * t \in Int
    BY <1>2
  <2>5. x = ((a * b) * t + a * s) + r
    BY <2>1, <2>2, <2>3
  <2> HIDE DEF q
  <2>6. r \in Int
    BY <1>1
  <2> QED BY <2>4, <2>5, <2>6
<1>5. a * s + r \in 0 .. a * b - 1
  <2>1. a * s >= 0 /\ a * s \in Int
    BY <1>2
  <2>2. a * s <= a * (b - 1)
    BY <1>2
  <2>3. a * (b - 1) = a * b - a
    OBVIOUS
  <2> QED BY <1>1, <1>3, <2>1, <2>2, <2>3
<1>6. x \div (a * b) = t /\ x % (a * b) = a * s + r
  BY <1>2, <1>3, <1>4, <1>5, DivModIs
<1>7. (a * s + r) \div a = s /\ (a * s + r) % a = r
  <2>1. a * s + r \in Int /\ s \in Int
    BY <1>1, <1>2, <1>5
  <2> QED BY <1>1, <2>1, DivModIs
<1>8. q \div b = t /\ q % b = s
  BY <1>1, <1>2, DivModIs
<1>9. x % (a * b) = a * (q % b) + r /\ (x % (a * b)) \div a = q % b /\ (x % (a * b)) % a = r
  BY <1>6, <1>7, <1>8
<1> QED BY <1>6, <1>8, <1>9 DEF q, r

\* The powers of a number.
LEMMA PowerPositive ==
    ASSUME NEW num \in Nat \ {0}
    PROVE  \A m \in Nat : Power(num, m) \in Nat \ {0}
<1> DEFINE S == {m \in Nat : Power(num, m) \in Nat \ {0}}
<1>1. 0 \in S
  BY PowerFacts
<1>2. ASSUME NEW m \in Nat, m \in S PROVE m + 1 \in S
  <2>1. Power(num, m + 1) = Power(num, m) * num /\ Power(num, m) \in Nat \ {0}
    BY <1>2, PowerFacts
  <2> QED BY <2>1
<1> HIDE DEF S
<1>3. \A m \in Nat : m \in S
  BY <1>1, <1>2, AllNat
<1> QED BY <1>3 DEF S

\* Powers multiply by adding the exponents.
LEMMA PowerSum ==
    ASSUME NEW num \in Nat \ {0}, NEW k \in Nat
    PROVE  \A m \in Nat : Power(num, k + m) = Power(num, k) * Power(num, m)
<1> DEFINE S == {m \in Nat : Power(num, k + m) = Power(num, k) * Power(num, m)}
<1>1. 0 \in S
  BY PowerFacts
<1>2. ASSUME NEW m \in Nat, m \in S PROVE m + 1 \in S
  <2>1. Power(num, m + 1) = Power(num, m) * num /\ Power(num, m) \in Nat
    BY PowerFacts
  <2>2. Power(num, (k + m) + 1) = Power(num, k + m) * num /\ k + m \in Nat
    BY PowerFacts
  <2>3. k + (m + 1) = (k + m) + 1 /\ Power(num, k) \in Nat
    BY PowerFacts
  <2>4. Power(num, k + m) = Power(num, k) * Power(num, m)
    BY <1>2
  <2>5. (Power(num, k) * Power(num, m)) * num = Power(num, k) * (Power(num, m) * num)
    BY <2>1, <2>3
  <2> QED BY <2>1, <2>2, <2>3, <2>4, <2>5
<1> HIDE DEF S
<1>3. \A m \in Nat : m \in S
  BY <1>1, <1>2, AllNat
<1> QED BY <1>3 DEF S

\* pow() is the power, cut to an int.
LEMMA PowIsPower ==
    ASSUME NEW num \in Nat \ {0}, NEW mod \in Nat \ {0}
    PROVE  \A m \in Nat : pow(num, m, mod) % mod = Power(num, m) % mod
<1> DEFINE S == {m \in Nat : pow(num, m, mod) % mod = Power(num, m) % mod}
<1>1. 0 \in S
  BY PowFacts, PowerFacts
<1>2. ASSUME NEW m \in Nat, m \in S PROVE m + 1 \in S
  <2> DEFINE p == pow(num, m, mod)
             P == Power(num, m)
  <2>1. p \in Int /\ P \in Int /\ p % mod = P % mod
    BY <1>2, PowFacts, PowerFacts
  <2>2. pow(num, m + 1, mod) = (p * num) % mod /\ Power(num, m + 1) = P * num
    BY PowFacts, PowerFacts
  <2> HIDE DEF p, P
  <2>3. (p * num) % mod = (P * num) % mod /\ p * num \in Int
    <3>1. num \in Int /\ p * num \in Int
      BY <2>1
    <3>2. SameMod(mod, p * num, P * num)
      BY <2>1, <3>1, ModProduct, ZenonT(60) DEF SameMod
    <3> QED BY <3>1, <3>2 DEF SameMod
  <2>4. ((p * num) % mod) % mod = (p * num) % mod
    BY <2>3, ModTwice
  <2> QED BY <2>2, <2>3, <2>4
<1> HIDE DEF S
<1>3. \A m \in Nat : m \in S
  BY <1>1, <1>2, AllNat
<1> QED BY <1>3 DEF S

----------------------------------------------------------------------------
(***************************************************************************)
(* The digits of itoa() and itox().                                        *)
(***************************************************************************)
DigitChar(d) == IF d < 10 THEN Zero + d ELSE LowerA + d - 10

\* A quotient is smaller, so the loop ends.
LEMMA QuotientLess ==
    ASSUME NEW base \in Nat, base > 1, NEW k \in Nat, k >= base
    PROVE  k \div base \in Nat /\ k \div base < k /\ k \div base > 0
<1> DEFINE q == k \div base
           r == k % base
<1>1. k = base * q + r /\ q \in Nat /\ r \in 0 .. base - 1
  BY DivMod
<1> HIDE DEF q, r
<1>2. q > 0
  <2> SUFFICES ASSUME q = 0 PROVE FALSE
    BY <1>1
  <2>1. base * q = 0
    OBVIOUS
  <2> QED BY <1>1, <2>1
<1>3. base * q >= q + q
  <2>1. base * q = (base - 2) * q + (q + q) /\ (base - 2) * q >= 0
    <3>1. base - 2 \in Nat
      OBVIOUS
    <3> DEFINE c == base - 2
    <3>2. c \in Nat /\ base = c + 2
      BY <3>1
    <3> HIDE DEF c
    <3>3. (c + 2) * q = c * q + (q + q) /\ c * q >= 0
      BY <1>1, <3>2
    <3> QED BY <3>2, <3>3 DEF c
  <2>2. (base - 2) * q \in Int /\ base * q \in Int
    BY <1>1
  <2> QED BY <1>1, <2>1, <2>2
<1>4. base * q \in Int
  BY <1>1
<1>5. q < k
  BY <1>1, <1>2, <1>3, <1>4
<1> QED BY <1>1, <1>2, <1>5 DEF q

\* The digits of a number follow from those of its quotient by the base.
LEMMA DigitsFacts ==
    ASSUME NEW base \in Nat, base > 1
    PROVE  \A k \in Nat :
             /\ k < base => Digits(k, base) = <<DigitChar(k)>>
             /\ k >= base => Digits(k, base) = Append(Digits(k \div base, base), DigitChar(k % base))
<1> DEFINE D(k) == DigitChar(k)
           Rec(g) == g = [k \in Nat |-> IF k < base THEN <<D(k)>> ELSE Append(g[k \div base], D(k % base))]
           T == [Nat -> Seq(Int)]
           Phi(t) == [k \in Nat |-> IF k < base THEN <<D(k)>> ELSE Append(t[k \div base], D(k % base))]
           h == [i \in Nat |-> [t \in T |-> Phi(t)]]
           t0 == [k \in Nat |-> <<D(k)>>]
<1>0. \A k : Digits(k, base) = (CHOOSE g : Rec(g))[k]
  BY DEF Digits, DigitChar
<1>1. \A k \in Nat : D(k) \in Int
  BY DEF DigitChar, Zero, LowerA
<1>2. \A k \in Nat : k % base \in Nat
  <2> SUFFICES ASSUME NEW k \in Nat PROVE k % base \in Nat
    OBVIOUS
  <2>1. k % base \in 0 .. base - 1
    BY DivMod
  <2> QED BY <2>1
<1> HIDE DEF D
<1>3. t0 \in T
  <2>1. \A k \in Nat : <<D(k)>> \in Seq(Int)
    BY <1>1
  <2> QED BY <2>1
<1>4. ASSUME NEW t \in T PROVE Phi(t) \in T
  <2>1. ASSUME NEW k \in Nat
        PROVE  (IF k < base THEN <<D(k)>> ELSE Append(t[k \div base], D(k % base))) \in Seq(Int)
    <3>1. CASE k < base
      BY <3>1, <1>1
    <3>2. CASE ~(k < base)
      <4>1. k \div base \in Nat
        BY <3>2, QuotientLess
      <4>2. t[k \div base] \in Seq(Int) /\ D(k % base) \in Int
        BY <4>1, <1>1, <1>2
      <4> QED BY <3>2, <4>2
    <3> QED BY <3>1, <3>2
  <2> QED BY <2>1
<1>5. h \in [Nat -> [T -> T]] /\ \A i \in Nat, t \in T : h[i][t] = Phi(t)
  <2> HIDE DEF T, Phi
  <2> QED BY <1>4
<1> HIDE DEF h, T
<1>6. PICK f : Follows(f, T, t0, h)
  <2> HIDE DEF t0
  <2> QED BY <1>3, <1>5, NatRecursion
<1>7. f \in [Nat -> T] /\ f[0] = t0 /\ \A i \in Nat : f[i + 1] = Phi(f[i])
  <2> HIDE DEF t0, Phi
  <2> QED BY <1>5, <1>6 DEF Follows
<1>8. \A i \in Nat, k \in Nat : f[i + 1][k] = IF k < base THEN <<D(k)>>
                                             ELSE Append(f[i][k \div base], D(k % base))
  BY <1>7, ZenonT(60)
<1>9. \A k \in Nat : f[0][k] = <<D(k)>>
  BY <1>7
<1>10. \A i \in Nat, k \in Nat : k < base => f[i][k] = <<D(k)>>
  <2> SUFFICES ASSUME NEW i \in Nat, NEW k \in Nat, k < base PROVE f[i][k] = <<D(k)>>
    OBVIOUS
  <2>1. CASE i = 0
    BY <2>1, <1>9
  <2>2. CASE i # 0
    <3>1. i - 1 \in Nat /\ (i - 1) + 1 = i
      BY <2>2
    <3>2. f[(i - 1) + 1][k] = <<D(k)>>
      BY <3>1, <1>8
    <3> QED BY <3>1, <3>2
  <2> QED BY <2>1, <2>2
\* After n rounds the numbers up to n have all their digits.
<1> DEFINE S == {n \in Nat : \A k \in Nat : k <= n => f[n + 1][k] = f[n][k]}
<1>11. 0 \in S
  <2>1. ASSUME NEW k \in Nat, k <= 0 PROVE f[0 + 1][k] = f[0][k]
    <3>1. k < base
      BY <2>1
    <3> QED BY <3>1, <1>10
  <2> QED BY <2>1
<1>12. ASSUME NEW n \in Nat, n \in S PROVE n + 1 \in S
  <2>1. ASSUME NEW k \in Nat, k <= n + 1 PROVE f[(n + 1) + 1][k] = f[n + 1][k]
    <3>1. CASE k < base
      BY <3>1, <1>10
    <3>2. CASE ~(k < base)
      <4>1. k \div base \in Nat /\ k \div base < k
        BY <3>2, QuotientLess
      <4> DEFINE q == k \div base
      <4> HIDE DEF q
      <4>2. q \in Nat /\ q <= n
        BY <2>1, <4>1 DEF q
      <4>3. f[n + 1][q] = f[n][q]
        BY <4>2, <1>12
      <4>4. f[(n + 1) + 1][k] = Append(f[n + 1][q], D(k % base))
        <5>1. n + 1 \in Nat
          OBVIOUS
        <5> QED BY <3>2, <5>1, <1>8 DEF q
      <4>5. f[n + 1][k] = Append(f[n][q], D(k % base))
        BY <3>2, <1>8 DEF q
      <4> QED BY <4>3, <4>4, <4>5
    <3> QED BY <3>1, <3>2
  <2> QED BY <2>1
<1>13. \A n \in Nat : n \in S
  <2> HIDE DEF S
  <2> QED BY <1>11, <1>12, AllNat
<1>14. ASSUME NEW q \in Nat PROVE \A j \in Nat : f[q + j][q] = f[q][q]
  <2> DEFINE R == {j \in Nat : f[q + j][q] = f[q][q]}
  <2>1. 0 \in R
    OBVIOUS
  <2>2. ASSUME NEW j \in Nat, j \in R PROVE j + 1 \in R
    <3>1. q + j \in Nat /\ q <= q + j /\ q + (j + 1) = (q + j) + 1
      OBVIOUS
    <3>2. f[(q + j) + 1][q] = f[q + j][q]
      BY <3>1, <1>13
    <3> QED BY <2>2, <3>1, <3>2
  <2>3. \A j \in Nat : j \in R
    <3> HIDE DEF R
    <3> QED BY <2>1, <2>2, AllNat
  <2> QED BY <2>3
<1> DEFINE g == [k \in Nat |-> f[k][k]]
<1>15. ASSUME NEW k \in Nat PROVE g[k] = IF k < base THEN <<D(k)>> ELSE Append(g[k \div base], D(k % base))
  <2>1. CASE k < base
    BY <2>1, <1>10
  <2>2. CASE ~(k < base)
    <3> DEFINE q == k \div base
               j == k - q
    <3>1. q \in Nat /\ q < k
      BY <2>2, QuotientLess
    <3> HIDE DEF q
    <3>2. j \in Nat /\ q + j = k
      BY <3>1
    <3> HIDE DEF j
    <3>3. f[k][q] = f[q][q]
      BY <3>1, <3>2, <1>14
    <3>4. f[k + 1][k] = f[k][k]
      BY <1>13
    <3>5. f[k + 1][k] = Append(f[k][q], D(k % base))
      BY <2>2, <1>8 DEF q
    <3>6. g[k] = f[k][k] /\ g[q] = f[q][q]
      BY <3>1
    <3>7. g[k] = Append(g[q], D(k % base))
      BY <3>3, <3>4, <3>5, <3>6
    <3> QED BY <2>2, <3>7 DEF q
  <2> QED BY <2>1, <2>2
<1>16. Rec(g)
  <2>1. g = [k \in Nat |-> g[k]]
    OBVIOUS
  <2> HIDE DEF g
  <2> QED BY <1>15, <2>1
<1> DEFINE p == CHOOSE x : Rec(x)
<1>17. Rec(p)
  <2> HIDE DEF g
  <2> QED BY <1>16
<1>18. \A k : Digits(k, base) = p[k]
  BY <1>0
<1> HIDE DEF p
<1>19. \A k \in Nat : p[k] = IF k < base THEN <<D(k)>> ELSE Append(p[k \div base], D(k % base))
  BY <1>17
<1>20. \A k \in Nat : /\ k < base => Digits(k, base) = <<D(k)>>
                      /\ ~(k < base) => Digits(k, base) = Append(Digits(k \div base, base), D(k % base))
  BY <1>18, <1>19
<1>21. \A k \in Nat : k >= base <=> ~(k < base)
  OBVIOUS
<1> QED BY <1>20, <1>21 DEF D
=============================================================================
