-------------------------- MODULE CommandLineProofs --------------------------
(***************************************************************************)
(* The command line, for every value of its constants: texts of any length *)
(* and any number of arguments.                                            *)
(*                                                                         *)
(* The scans and the parser are recursive functions.  What such a function *)
(* returns is proved in two steps: that there is a function that satisfies *)
(* its equation, which is built place by place, so that the one it is      *)
(* defined to be satisfies it too; and, from the equation, the property,   *)
(* by induction over the places.  Both are inductions over numbers, and an *)
(* induction is a least counterexample.                                    *)
(***************************************************************************)
EXTENDS CommandLine, SequenceTheorems, WellFoundedInduction, TLAPS

(* Numbers.                                                                *)

\* The order of the natural numbers, as a set of pairs, is well founded.
Less == {p \in Nat \X Nat : p[1] < p[2]}

LEMMA LessWellFounded == IsWellFoundedOn(Less, Nat)
<1>1. Less = OpToRel(<, Nat)
  BY DEF Less, OpToRel
<1> QED
  BY <1>1, NatLessThanWellFounded

\* A set of numbers that is not empty has a least one.
LEMMA LeastNumber ==
  ASSUME NEW T \in SUBSET Nat, T # {}
  PROVE  \E m \in T : \A n \in T : m <= n
<1>1. \E m \in T : \A n \in T : ~ (<<n, m>> \in Less)
  BY WFMin, LessWellFounded
<1>2. PICK m \in T : \A n \in T : ~ (<<n, m>> \in Less)
  BY <1>1
<1>3. \A n \in T : m <= n
  <2>1. SUFFICES ASSUME NEW n \in T PROVE m <= n
    OBVIOUS
  <2>2. ~ (<<n, m>> \in Less) /\ n \in Nat /\ m \in Nat
    BY <1>2
  <2>3. ~ (n < m)
    BY <2>2 DEF Less
  <2> QED
    BY <2>2, <2>3
<1> QED
  BY <1>3

\* And a greatest one, if there is a bound.
LEMMA GreatestNumber ==
  ASSUME NEW top \in Nat, NEW T \in SUBSET (0..top), T # {}
  PROVE  \E m \in T : \A n \in T : n <= m
<1> DEFINE U == {k \in 0..top : top - k \in T}
<1>1. U \in SUBSET Nat
  OBVIOUS
<1>2. U # {}
  <2>1. PICK n \in T : TRUE
    OBVIOUS
  <2>2. top - n \in 0..top /\ top - (top - n) = n
    BY <2>1
  <2> QED
    BY <2>1, <2>2
<1>3. PICK k \in U : \A j \in U : k <= j
  <2> HIDE DEF U
  <2> QED
    BY <1>1, <1>2, LeastNumber
<1>4. ASSUME NEW n \in T PROVE n <= top - k
  <2>1. top - n \in 0..top /\ top - (top - n) = n
    OBVIOUS
  <2>2. k <= top - n
    BY <1>3, <2>1
  <2> QED
    BY <2>1, <2>2
<1> QED
  BY <1>3, <1>4

\* Upward, from any number to any other.
LEMMA Upward ==
  ASSUME NEW T, NEW lo \in Nat, NEW hi \in Nat, lo \in T,
         \A k \in lo..hi : k \in T /\ k < hi => k + 1 \in T
  PROVE  \A k \in lo..hi : k \in T
<1> DEFINE Bad == {k \in lo..hi : k \notin T}
<1>1. SUFFICES ASSUME Bad # {} PROVE FALSE
  OBVIOUS
<1>2. PICK m \in Bad : \A n \in Bad : m <= n
  <2>1. Bad \in SUBSET Nat
    OBVIOUS
  <2> HIDE DEF Bad
  <2> QED
    BY <1>1, <2>1, LeastNumber
<1>3. m # lo /\ m - 1 \in lo..hi /\ m - 1 < hi /\ (m - 1) + 1 = m
  BY <1>2
<1>4. m - 1 \in T
  BY <1>2, <1>3
<1> QED
  BY <1>2, <1>3, <1>4

\* Downward, when a number follows from all that are above it.
LEMMA Downward ==
  ASSUME NEW T, NEW lo \in Nat, NEW hi \in Nat,
         \A k \in lo..hi : (\A j \in (k + 1)..hi : j \in T) => k \in T
  PROVE  \A k \in lo..hi : k \in T
<1> DEFINE Bad == {k \in lo..hi : k \notin T}
<1>1. SUFFICES ASSUME Bad # {} PROVE FALSE
  OBVIOUS
<1>2. PICK m \in Bad : \A n \in Bad : n <= m
  <2>1. Bad \in SUBSET (0..hi)
    OBVIOUS
  <2> HIDE DEF Bad
  <2> QED
    BY <1>1, <2>1, GreatestNumber
<1>3. \A j \in (m + 1)..hi : j \in T
  BY <1>2
<1> QED
  BY <1>2, <1>3

-----------------------------------------------------------------------------
(* The equations of the recursive functions.                               *)

\* Modes, one character after another.
LEMMA ModesIs ==
  ASSUME NEW S, NEW s \in Seq(S)
  PROVE  /\ Modes(s)[0] = "code"
         /\ \A i \in 1..Len(s) : Modes(s)[i] = NextMode(Modes(s)[i - 1], s[i])
<1> DEFINE n == Len(s)
           Eq(f, k) == f = [i \in 0..k |-> IF i = 0 THEN "code" ELSE NextMode(f[i - 1], s[i])]
           T == {k \in Nat : \E f : Eq(f, k)}
<1>1. n \in Nat
  BY LenProperties
<1>2. 0 \in T
  <2>1. Eq([i \in 0..0 |-> "code"], 0)
    OBVIOUS
  <2> QED
    BY <2>1
<1>3. ASSUME NEW k \in T PROVE k + 1 \in T
  <2>1. PICK f : Eq(f, k)
    OBVIOUS
  <2> DEFINE g == [i \in 0..(k + 1) |-> IF i = k + 1 THEN NextMode(f[k], s[k + 1]) ELSE f[i]]
  <2>2. \A i \in 0..(k + 1) : g[i] = IF i = 0 THEN "code" ELSE NextMode(g[i - 1], s[i])
    <3>1. SUFFICES ASSUME NEW i \in 0..(k + 1)
                   PROVE  g[i] = IF i = 0 THEN "code" ELSE NextMode(g[i - 1], s[i])
      OBVIOUS
    <3>2. CASE i = k + 1
      BY <3>2
    <3>3. CASE i # k + 1
      <4>1. i \in 0..k /\ (i # 0 => i - 1 \in 0..k /\ i - 1 \in 0..(k + 1) /\ i - 1 # k + 1)
        BY <3>3
      <4> QED
        BY <2>1, <3>3, <4>1
    <3> QED
      BY <3>2, <3>3
  <2>3. Eq(g, k + 1)
    <3>1. g = [i \in 0..(k + 1) |-> g[i]]
      OBVIOUS
    <3> HIDE DEF g
    <3> QED
      BY <2>2, <3>1
  <2> HIDE DEF g, Eq
  <2> QED
    BY <2>3
<1>4. n \in T
  <2> HIDE DEF T, n
  <2>1. \A k \in 0..n : k \in T
    BY <1>1, <1>2, <1>3, Upward
  <2> QED
    BY <1>1, <2>1
<1> DEFINE m == CHOOSE f : Eq(f, n)
<1>5. Eq(m, n)
  <2>1. PICK f : Eq(f, n)
    BY <1>4
  <2> HIDE DEF Eq
  <2> QED
    BY <2>1
<1>6. Modes(s) = m
  BY DEF Modes
<1> HIDE DEF m
<1> QED
  BY <1>1, <1>5, <1>6

\* The first of some places.
LEMMA FirstPlace ==
  ASSUME NEW lo \in Nat, NEW hi \in Nat, NEW places \in SUBSET (lo..hi), places # {}
  PROVE  LET f == CHOOSE j \in places : \A k \in places : j <= k
         IN  f \in places /\ \A k \in places : f <= k
<1>1. places \in SUBSET Nat
  OBVIOUS
<1>2. \E j \in places : \A k \in places : j <= k
  BY <1>1, LeastNumber
<1> QED
  BY <1>2

\* The first token of a kind, or the end.
LEMMA FindIs ==
  ASSUME NEW S, NEW s \in Seq(S), NEW i \in 1..(Len(s) + 1), NEW token
  PROVE  /\ Find(s, i, token) \in i..(Len(s) + 1)
         /\ Find(s, i, token) <= Len(s) => s[Find(s, i, token)] = token
         /\ \A k \in i..Len(s) : k < Find(s, i, token) => s[k] # token
<1> DEFINE places == {j \in i..Len(s) : s[j] = token}
           f == CHOOSE j \in places : \A k \in places : j <= k
<1>1. Len(s) \in Nat /\ i \in Nat /\ i <= Len(s) + 1
  BY LenProperties
<1>2. Find(s, i, token) = IF places = {} THEN Len(s) + 1 ELSE f
  BY DEF Find, FirstFrom
<1>3. CASE places = {}
  BY <1>1, <1>2, <1>3
<1>4. CASE places # {}
  <2>1. f \in places /\ \A k \in places : f <= k
    <3>1. places \in SUBSET (i..Len(s))
      OBVIOUS
    <3> HIDE DEF places
    <3> QED
      BY <1>1, <1>4, <3>1, FirstPlace
  <2>2. Find(s, i, token) = f
    BY <1>2, <1>4
  <2> HIDE DEF f
  <2> QED
    BY <1>1, <2>1, <2>2
<1> QED
  BY <1>3, <1>4

\* Where a comment that opens at i closes.
Close(s, i) == FirstFrom(s, i + 2, LAMBDA j : s[j] = "*" /\ At(s, j + 1, "/"))

LEMMA CloseIs ==
  ASSUME NEW S, NEW s \in Seq(S), NEW i \in 1..Len(s), i + 1 <= Len(s)
  PROVE  /\ Close(s, i) \in (i + 2)..(Len(s) + 1)
         /\ Close(s, i) <= Len(s)
              => /\ Close(s, i) < Len(s)
                 /\ s[Close(s, i)] = "*" /\ s[Close(s, i) + 1] = "/"
         /\ \A k \in (i + 2)..Len(s) :
               k < Close(s, i) => ~ (s[k] = "*" /\ k < Len(s) /\ s[k + 1] = "/")
<1> DEFINE places == {j \in (i + 2)..Len(s) : s[j] = "*" /\ At(s, j + 1, "/")}
           f == CHOOSE j \in places : \A k \in places : j <= k
<1>1. Len(s) \in Nat /\ i \in Nat /\ i + 2 <= Len(s) + 1
  BY LenProperties
<1>2. Close(s, i) = IF places = {} THEN Len(s) + 1 ELSE f
  BY DEF Close, FirstFrom
<1>3. CASE places = {}
  <2>1. \A k \in (i + 2)..Len(s) : ~ (s[k] = "*" /\ At(s, k + 1, "/"))
    BY <1>3
  <2>2. Close(s, i) = Len(s) + 1
    BY <1>2, <1>3
  <2> HIDE DEF places, f
  <2> QED
    BY <1>1, <2>1, <2>2 DEF At
<1>4. CASE places # {}
  <2>1. f \in places /\ \A k \in places : f <= k
    <3>1. places \in SUBSET ((i + 2)..Len(s)) /\ i + 2 \in Nat
      BY <1>1
    <3> HIDE DEF places
    <3> QED
      BY <1>1, <1>4, <3>1, FirstPlace
  <2>2. Close(s, i) = f
    BY <1>2, <1>4
  <2> HIDE DEF f
  <2> QED
    BY <1>1, <2>1, <2>2 DEF At
<1> QED
  BY <1>3, <1>4

\* QuoteSkips, from the end of the text.
LEMMA QuoteSkipsIs ==
  ASSUME NEW S, NEW s \in Seq(S), NEW quote
  PROVE  \A j \in 1..(Len(s) + 1) :
            QuoteSkips(s, quote)[j]
               = IF j > Len(s) THEN Len(s) + 1
                 ELSE IF s[j] # quote THEN QuoteSkips(s, quote)[j + 1]
                 ELSE IF At(s, j + 1, quote) THEN QuoteSkips(s, quote)[j + 2]
                 ELSE j + 1
<1> DEFINE n == Len(s)
           Eq(f, k) == f = [j \in k..(n + 1) |->
                              IF j > n THEN n + 1
                              ELSE IF s[j] # quote THEN f[j + 1]
                              ELSE IF At(s, j + 1, quote) THEN f[j + 2]
                              ELSE j + 1]
           T == {k \in 1..(n + 1) : \E f : Eq(f, k)}
<1>1. n \in Nat
  BY LenProperties
<1>2. ASSUME NEW k \in 1..(n + 1), \A j \in (k + 1)..(n + 1) : j \in T
      PROVE  k \in T
  <2>1. CASE k = n + 1
    <3>1. Eq([j \in k..(n + 1) |-> n + 1], k)
      BY <1>1, <2>1
    <3> HIDE DEF Eq
    <3> QED
      BY <3>1
  <2>2. CASE k # n + 1
    <3>1. k <= n /\ k + 1 \in T
      <4> HIDE DEF T, n
      <4> QED
        BY <1>1, <1>2, <2>2
    <3>2. PICK f : Eq(f, k + 1)
      BY <3>1
    <3> DEFINE g == [j \in k..(n + 1) |->
                       IF j = k THEN IF s[j] # quote THEN f[j + 1]
                                     ELSE IF At(s, j + 1, quote) THEN f[j + 2]
                                     ELSE j + 1
                       ELSE f[j]]
    <3>3. \A j \in k..(n + 1) :
             g[j] = IF j > n THEN n + 1
                    ELSE IF s[j] # quote THEN g[j + 1]
                    ELSE IF At(s, j + 1, quote) THEN g[j + 2]
                    ELSE j + 1
      <4>1. SUFFICES ASSUME NEW j \in k..(n + 1)
                     PROVE  g[j] = IF j > n THEN n + 1
                                   ELSE IF s[j] # quote THEN g[j + 1]
                                   ELSE IF At(s, j + 1, quote) THEN g[j + 2]
                                   ELSE j + 1
        OBVIOUS
      <4>2. j <= n => g[j + 1] = f[j + 1]
        BY <1>1
      <4>3. j + 1 <= n => g[j + 2] = f[j + 2]
        BY <1>1
      <4>4. CASE j = k
        BY <1>1, <3>1, <4>2, <4>3, <4>4 DEF At
      <4>5. CASE j # k
        <5>1. j \in (k + 1)..(n + 1) /\ g[j] = f[j]
          BY <1>1, <4>5
        <5>2. f[j] = IF j > n THEN n + 1
                     ELSE IF s[j] # quote THEN f[j + 1]
                     ELSE IF At(s, j + 1, quote) THEN f[j + 2]
                     ELSE j + 1
          BY <3>2, <5>1
        <5> HIDE DEF g
        <5> QED
          BY <1>1, <4>2, <4>3, <5>1, <5>2 DEF At
      <4> QED
        BY <4>4, <4>5
    <3>4. Eq(g, k)
      <4>1. g = [j \in k..(n + 1) |-> g[j]]
        OBVIOUS
      <4> HIDE DEF g
      <4> QED
        BY <3>3, <4>1
    <3> HIDE DEF g, Eq
    <3> QED
      BY <3>4
  <2> QED
    BY <2>1, <2>2
<1>3. 1 \in T
  <2> HIDE DEF T, n
  <2>1. 1 \in Nat /\ n + 1 \in Nat
    BY <1>1
  <2>2. \A k \in 1..(n + 1) : (\A j \in (k + 1)..(n + 1) : j \in T) => k \in T
    BY <1>2
  <2>3. \A k \in 1..(n + 1) : k \in T
    BY <2>1, <2>2, Downward
  <2> QED
    BY <1>1, <2>3
<1> DEFINE m == CHOOSE f : Eq(f, 1)
<1>4. Eq(m, 1)
  <2>1. PICK f : Eq(f, 1)
    BY <1>3
  <2> HIDE DEF Eq
  <2> QED
    BY <2>1
<1>5. QuoteSkips(s, quote) = m
  BY DEF QuoteSkips
<1> HIDE DEF m
<1> QED
  BY <1>1, <1>4, <1>5

-----------------------------------------------------------------------------
(* The scan by leaps and the reader of one character after another.        *)

\* The reader is in code before i, as far as the scan can tell there: what looks
\* like the beginning of a comment does not go on as one.
Clean(s, i) ==
    LET mode == Modes(s)[i - 1]
    IN  \/ mode = "code"
        \/ mode = "-" /\ ~ At(s, i, "-")
        \/ mode = "/" /\ ~ At(s, i, "*")
        \/ mode = "line" /\ At(s, i, Newline)

\* What the scans look for.
Semicolon == ";"
Plain == {Semicolon, "(", ")"} \cup Starters
IsCode(s, k) == s[k] \in Plain /\ Modes(s)[k] = "code"

\* The scan can stop at a: the reader is in code, or a is the end, or the last
\* character, which is no word, where nothing can follow.
CanStop(s, a) ==
    \/ a > Len(s)
    \/ a = Len(s) /\ s[a] \notin Starters
    \/ Clean(s, a)

\* The leap of After from i to a passes over nothing that the scan looks for, and ends
\* where the scan can stop.
Leap(s, i, a) ==
    /\ a \in (i + 1)..(Len(s) + 1)
    /\ CanStop(s, a)
    /\ \A k \in (i + 1)..(a - 1) : ~ IsCode(s, k)

\* Nothing of it begins or ends what is skipped.
LEMMA PlainIs ==
  \A c \in Plain : c \notin Quotation \cup Backticks \cup {"[", "]", "-", "/", "*", Newline}
<1>1. Semicolon \notin Quotation \cup Backticks \cup {"[", "]", "-", "/", "*", Newline}
  BY DEF Semicolon, Quotation, Backticks, Fence, Newline
<1> QED
  BY <1>1 DEF Plain, Starters, Quotation, Backticks, Fence, Newline

\* The reader's table.
LEMMA QuotedMode ==
  ASSUME NEW quote \in Quotation, NEW c
  PROVE  NextMode(quote, c) = IF c = quote THEN "code" ELSE quote
  BY DEF NextMode, Quotation

\* In a name, a line comment, and a comment before and behind a star:
LEMMA SkippedMode ==
  ASSUME NEW c
  PROVE  /\ NextMode("[", c) = IF c = "]" THEN "code" ELSE "["
         /\ NextMode("line", c) = IF c = Newline THEN "code" ELSE "line"
         /\ NextMode("comment", c) = IF c = "*" THEN "star" ELSE "comment"
         /\ NextMode("star", c) = IF c = "/" THEN "code"
                                  ELSE IF c = "*" THEN "star" ELSE "comment"
  BY DEF NextMode, Quotation

\* In code, and behind what may begin a comment:
LEMMA CodeMode ==
  ASSUME NEW mode \in {"code", "-", "/"}, NEW c
  PROVE  NextMode(mode, c) =
            IF mode = "-" /\ c = "-" THEN "line"
            ELSE IF mode = "/" /\ c = "*" THEN "comment"
            ELSE IF c \in Backticks THEN "backtick"
            ELSE IF c \in Quotation \cup {"[", "-", "/"} THEN c ELSE "code"
  BY DEF NextMode, Quotation

\* Within quotes the reader stays in them until the quote that QuoteSkips finds.
LEMMA QuotedLeap ==
  ASSUME NEW S, NEW s \in Seq(S), NEW quote \in Quotation
  PROVE  \A j \in 1..(Len(s) + 1) :
            LET a == QuoteSkips(s, quote)[j]
            IN  /\ a \in j..(Len(s) + 1)
                /\ Modes(s)[j - 1] = quote =>
                      /\ a > Len(s) \/ Modes(s)[a - 1] = "code"
                      /\ \A k \in j..Len(s) : k < a => ~ IsCode(s, k)
<1> DEFINE n == Len(s)
           q == QuoteSkips(s, quote)
           m == Modes(s)
           Ends(j) == q[j] > n \/ m[q[j] - 1] = "code"
           Quiet(j) == \A k \in j..n : k < q[j] => ~ (s[k] \in Plain /\ m[k] = "code")
           P(j) == q[j] \in j..(n + 1) /\ (m[j - 1] = quote => Ends(j) /\ Quiet(j))
           T == {j \in 1..(n + 1) : P(j)}
<1>1. /\ n \in Nat
      /\ \A i \in 1..n : m[i] = NextMode(m[i - 1], s[i])
  BY LenProperties, ModesIs
<1>2. \A j \in 1..(n + 1) :
            q[j] = IF j > n THEN n + 1
                   ELSE IF s[j] # quote THEN q[j + 1]
                   ELSE IF At(s, j + 1, quote) THEN q[j + 2]
                   ELSE j + 1
  BY QuoteSkipsIs
<1>3. quote # "code" /\ quote \notin Plain /\ quote \notin Backticks
  <2>1. quote # "code" /\ quote \notin Backticks
    BY DEF Quotation, Backticks, Fence
  <2> QED
    BY <2>1, PlainIs
<1> HIDE DEF n, q, m
<1>4. ASSUME NEW j \in 1..(n + 1), \A i \in (j + 1)..(n + 1) : P(i)
      PROVE  P(j)
  <2>1. CASE j = n + 1
    <3>1. q[j] = n + 1
      BY <1>1, <1>2, <2>1
    <3>2. Quiet(j)
      <4>1. \A k \in j..n : FALSE
        BY <1>1, <2>1
      <4> QED
        BY <4>1
    <3> HIDE DEF Quiet
    <3> QED
      BY <1>1, <2>1, <3>1, <3>2
  <2>2. CASE j <= n /\ s[j] # quote
    <3>1. q[j] = q[j + 1] /\ P(j + 1) /\ (j + 1) - 1 = j
      <4> HIDE DEF P
      <4>1. j + 1 \in (j + 1)..(n + 1) /\ (j + 1) - 1 = j
        BY <1>1, <2>2
      <4>2. P(j + 1)
        BY <1>4, <4>1
      <4>3. q[j] = q[j + 1]
        BY <1>1, <1>2, <2>2
      <4> QED
        BY <4>1, <4>2, <4>3
    <3>2. q[j] \in j..(n + 1)
      <4>1. q[j] \in (j + 1)..(n + 1)
        <5> HIDE DEF Ends, Quiet
        <5> QED
          BY <3>1
      <4> QED
        BY <1>1, <4>1
    <3>3. ASSUME m[j - 1] = quote PROVE Ends(j) /\ Quiet(j)
      <4>1. m[j] = quote
        BY <1>1, <2>2, <3>3, QuotedMode
      <4>2. Ends(j + 1) /\ Quiet(j + 1)
        <5> HIDE DEF Ends, Quiet
        <5> QED
          BY <3>1, <4>1
      <4>3. Ends(j)
        BY <3>1, <4>2
      <4>4. \A k \in j..n : k = j \/ k \in (j + 1)..n
        BY <1>1
      <4>5. Quiet(j)
        BY <1>3, <3>1, <4>1, <4>2, <4>4
      <4> QED
        BY <4>3, <4>5
    <3> QED
      BY <3>2, <3>3
  <2>3. CASE j <= n /\ s[j] = quote /\ At(s, j + 1, quote)
    <3>1. j + 1 <= n /\ s[j + 1] = quote
      BY <2>3 DEF At, n
    <3>2. q[j] = q[j + 2] /\ P(j + 2) /\ (j + 2) - 1 = j + 1
      <4> HIDE DEF P
      <4>1. j + 2 \in (j + 1)..(n + 1) /\ (j + 2) - 1 = j + 1
        BY <1>1, <3>1
      <4>2. P(j + 2)
        BY <1>4, <4>1
      <4>3. q[j] = q[j + 2]
        BY <1>1, <1>2, <2>3
      <4> QED
        BY <4>1, <4>2, <4>3
    <3>3. q[j] \in j..(n + 1)
      <4>1. q[j] \in (j + 2)..(n + 1)
        <5> HIDE DEF Ends, Quiet
        <5> QED
          BY <3>2
      <4> QED
        BY <1>1, <4>1
    <3>4. ASSUME m[j - 1] = quote PROVE Ends(j) /\ Quiet(j)
      <4>1. m[j] = "code"
        BY <1>1, <2>3, <3>4, QuotedMode
      <4>2. m[j + 1] = NextMode(m[j], s[j + 1])
        <5>1. j + 1 \in 1..n /\ (j + 1) - 1 = j
          BY <1>1, <3>1
        <5> QED
          BY <1>1, <5>1
      <4>3. m[j + 1] = quote
        BY <1>3, <3>1, <4>1, <4>2, CodeMode
      <4>4. Ends(j + 2) /\ Quiet(j + 2)
        <5> HIDE DEF Ends, Quiet
        <5> QED
          BY <3>2, <4>3
      <4>5. Ends(j)
        BY <3>2, <4>4
      <4>6. \A k \in j..n : k = j \/ k = j + 1 \/ k \in (j + 2)..n
        BY <1>1
      <4>7. Quiet(j)
        BY <1>3, <2>3, <3>1, <3>2, <4>4, <4>6
      <4> QED
        BY <4>5, <4>7
    <3> QED
      BY <3>3, <3>4
  <2>4. CASE j <= n /\ s[j] = quote /\ ~ At(s, j + 1, quote)
    <3>1. q[j] = j + 1
      BY <1>1, <1>2, <2>4
    <3>2. q[j] \in j..(n + 1)
      BY <1>1, <2>4, <3>1
    <3>3. ASSUME m[j - 1] = quote PROVE Ends(j)
      <4>1. m[j] = "code" /\ (j + 1) - 1 = j
        BY <1>1, <2>4, <3>3, QuotedMode
      <4> QED
        BY <3>1, <4>1
    <3>4. Quiet(j)
      <4>1. \A k \in j..n : k < j + 1 => k = j
        BY <1>1
      <4> QED
        BY <1>3, <2>4, <3>1, <4>1
    <3> HIDE DEF Ends, Quiet
    <3> QED
      BY <3>2, <3>3, <3>4
  <2> HIDE DEF P
  <2>5. j = n + 1 \/ j <= n
    BY <1>1
  <2> QED
    BY <2>1, <2>2, <2>3, <2>4, <2>5
<1>5. \A j \in 1..(n + 1) : P(j)
  <2> HIDE DEF P
  <2>1. 1 \in Nat /\ n + 1 \in Nat
    BY <1>1
  <2>2. \A j \in 1..(n + 1) : (\A i \in (j + 1)..(n + 1) : i \in T) => j \in T
    BY <1>4
  <2> HIDE DEF T
  <2>3. \A j \in 1..(n + 1) : j \in T
    BY <2>1, <2>2, Downward
  <2> QED
    BY <2>3 DEF T
<1> QED
  BY <1>5 DEF IsCode, n, q, m

\* What the reader makes of a character at which the scan can stop.
LEMMA EnterMode ==
  ASSUME NEW S, NEW s \in Seq(S), NEW i \in 1..Len(s), Clean(s, i)
  PROVE  Modes(s)[i] = IF s[i] \in Backticks THEN "backtick"
                       ELSE IF s[i] \in Quotation \cup {"[", "-", "/"} THEN s[i] ELSE "code"
<1>1. Modes(s)[i] = NextMode(Modes(s)[i - 1], s[i]) /\ i <= Len(s)
  BY ModesIs, LenProperties
<1>2. CASE Modes(s)[i - 1] = "line"
  <2>1. s[i] = Newline
    BY <1>2 DEF Clean, At
  <2> QED
    BY <1>1, <1>2, <2>1, SkippedMode DEF Newline, Quotation, Backticks, Fence
<1>3. CASE Modes(s)[i - 1] # "line"
  <2>1. /\ Modes(s)[i - 1] \in {"code", "-", "/"}
        /\ ~ (Modes(s)[i - 1] = "-" /\ s[i] = "-")
        /\ ~ (Modes(s)[i - 1] = "/" /\ s[i] = "*")
    BY <1>1, <1>3 DEF Clean, At
  <2> QED
    BY <1>1, <2>1, CodeMode
<1> QED
  BY <1>2, <1>3

\* A bracketed name and a line comment last as long as their end does not come.
LEMMA Held ==
  ASSUME NEW S, NEW s \in Seq(S), NEW lo \in 1..Len(s), NEW hi \in 1..Len(s),
         NEW mode, NEW end,
         \/ mode = "[" /\ end = "]"
         \/ mode = "line" /\ end = Newline,
         Modes(s)[lo] = mode,
         \A k \in (lo + 1)..hi : s[k] # end
  PROVE  \A k \in lo..hi : Modes(s)[k] = mode
<1> DEFINE T == {k \in lo..hi : Modes(s)[k] = mode}
<1>1. SUFFICES ASSUME lo <= hi PROVE \A k \in lo..hi : k \in T
  OBVIOUS
<1>2. ASSUME NEW k \in lo..hi, k \in T, k < hi PROVE k + 1 \in T
  <2>1. k + 1 \in 1..Len(s) /\ (k + 1) - 1 = k /\ k + 1 \in (lo + 1)..hi
    BY <1>2, LenProperties
  <2>2. Modes(s)[k + 1] = NextMode(Modes(s)[k], s[k + 1])
    BY <2>1, ModesIs
  <2>3. Modes(s)[k + 1] = mode
    BY <1>2, <2>1, <2>2, SkippedMode
  <2> QED
    BY <2>1, <2>3
<1>3. lo \in T /\ lo \in Nat /\ hi \in Nat
  BY <1>1
<1> HIDE DEF T
<1> QED
  BY <1>2, <1>3, Upward

\* The leaps, one for each case of After.  Over a name in brackets:
LEMMA NameLeap ==
  ASSUME NEW S, NEW s \in Seq(S), NEW i \in 1..Len(s), Clean(s, i), s[i] = "["
  PROVE  Leap(s, i, SkipUntil(s, i + 1, "]"))
<1> DEFINE n == Len(s)
           f == Find(s, i + 1, "]")
           a == SkipUntil(s, i + 1, "]")
<1>1. /\ n \in Nat /\ i \in Nat /\ i <= n
      /\ Modes(s)[i] = "["
  BY LenProperties, EnterMode DEF Backticks, Fence
<1>2. /\ f \in (i + 1)..(n + 1)
      /\ f <= n => s[f] = "]"
      /\ \A k \in (i + 1)..n : k < f => s[k] # "]"
  <2>1. i + 1 \in 1..(n + 1)
    BY <1>1
  <2> QED
    BY <2>1, FindIs
<1>3. a = IF f + 1 <= n + 1 THEN f + 1 ELSE n + 1
  BY DEF SkipUntil, Smaller
<1> HIDE DEF f, a, n
<1>4. \A k \in i..(f - 1) : Modes(s)[k] = "["
  <2>1. f - 1 \in 1..n
    BY <1>1, <1>2
  <2>2. \A k \in (i + 1)..(f - 1) : s[k] # "]"
    BY <1>1, <1>2
  <2> DEFINE hi == f - 1
  <2>3. hi \in 1..Len(s) /\ Modes(s)[i] = "[" /\ \A k \in (i + 1)..hi : s[k] # "]"
    BY <1>1, <2>1, <2>2 DEF n
  <2> HIDE DEF hi
  <2>4. \A k \in i..hi : Modes(s)[k] = "["
    BY <2>3, Held
  <2> QED
    BY <2>4 DEF hi
<1>5. CASE f <= n
  <2>1. a = f + 1 /\ f \in 1..n /\ f - 1 \in i..(f - 1)
    BY <1>1, <1>2, <1>3, <1>5
  <2>2. Modes(s)[f] = NextMode(Modes(s)[f - 1], s[f])
    BY <2>1, ModesIs DEF n
  <2>3. Modes(s)[f] = "code"
    BY <1>2, <1>4, <1>5, <2>1, <2>2, SkippedMode
  <2>4. Clean(s, a)
    <3>1. a - 1 = f
      BY <1>1, <1>2, <2>1
    <3> QED
      BY <2>3, <3>1 DEF Clean
  <2>5. ASSUME NEW k \in (i + 1)..(a - 1) PROVE ~ IsCode(s, k)
    <3>1. k = f \/ k \in i..(f - 1)
      BY <1>1, <1>2, <2>1
    <3>2. "]" \notin Plain
      BY PlainIs
    <3> QED
      BY <1>2, <1>4, <1>5, <3>1, <3>2 DEF IsCode
  <2>6. a \in (i + 1)..(n + 1)
    BY <1>1, <1>2, <1>5, <2>1
  <2> QED
    BY <2>4, <2>5, <2>6 DEF Leap, CanStop, n, a
<1>6. CASE f = n + 1
  <2>1. a = n + 1
    BY <1>1, <1>3, <1>6
  <2>2. \A k \in (i + 1)..(a - 1) : ~ IsCode(s, k)
    <3>1. \A k \in (i + 1)..(a - 1) : k \in i..(f - 1)
      BY <1>1, <1>6, <2>1
    <3> QED
      BY <1>4, <3>1 DEF IsCode
  <2>3. a \in (i + 1)..(n + 1) /\ a > n
    BY <1>1, <2>1
  <2> QED
    BY <2>2, <2>3 DEF Leap, CanStop, n, a
<1> QED
  BY <1>1, <1>2, <1>5, <1>6

\* Over a line comment, to the newline that ends it.
LEMMA LineLeap ==
  ASSUME NEW S, NEW s \in Seq(S), NEW i \in 1..Len(s), Clean(s, i), s[i] = "-",
         At(s, i + 1, "-")
  PROVE  Leap(s, i, SkipLine(s, i))
<1> DEFINE n == Len(s)
           a == SkipLine(s, i)
<1>1. /\ n \in Nat /\ i \in Nat /\ i + 1 <= n /\ s[i + 1] = "-"
      /\ Modes(s)[i] = "-"
  BY LenProperties, EnterMode DEF At, Backticks, Fence
<1>2. /\ a \in i..(n + 1)
      /\ a <= n => s[a] = Newline
      /\ \A k \in i..n : k < a => s[k] # Newline
  <2>1. i \in 1..(n + 1)
    BY <1>1
  <2> QED
    BY <2>1, FindIs DEF SkipLine
<1>3. Modes(s)[i + 1] = "line"
  <2>1. i + 1 \in 1..Len(s) /\ (i + 1) - 1 = i
    BY <1>1
  <2>2. Modes(s)[i + 1] = NextMode(Modes(s)[i], s[i + 1])
    BY <2>1, ModesIs
  <2> QED
    BY <1>1, <2>2, CodeMode
<1> HIDE DEF a, n
<1>4. a >= i + 2
  <2>1. a # i /\ a # i + 1
    BY <1>1, <1>2 DEF Newline
  <2> QED
    BY <1>1, <1>2, <2>1
<1>5. \A k \in (i + 1)..(a - 1) : Modes(s)[k] = "line"
  <2>1. i + 1 \in 1..n /\ a - 1 \in 1..n
    BY <1>1, <1>2, <1>4
  <2>2. \A k \in ((i + 1) + 1)..(a - 1) : s[k] # Newline
    BY <1>1, <1>2
  <2> QED
    BY <1>3, <2>1, <2>2, Held DEF n
<1>6. \A k \in (i + 1)..(a - 1) : ~ IsCode(s, k)
  BY <1>5 DEF IsCode
<1>7. a > n \/ Clean(s, a)
  <2>1. SUFFICES ASSUME a <= n PROVE Clean(s, a)
    BY <1>1, <1>2
  <2>2. a - 1 \in (i + 1)..(a - 1)
    BY <1>1, <1>2, <1>4
  <2> QED
    BY <1>2, <1>5, <2>1, <2>2 DEF Clean, At, n
<1>8. a \in (i + 1)..(n + 1)
  BY <1>1, <1>2, <1>4
<1> QED
  BY <1>6, <1>7, <1>8 DEF Leap, CanStop, a, n

\* Over a comment, to what follows its end, or to the last character.
LEMMA CommentLeap ==
  ASSUME NEW S, NEW s \in Seq(S), NEW i \in 1..Len(s), Clean(s, i), s[i] = "/",
         At(s, i + 1, "*")
  PROVE  Leap(s, i, SkipComment(s, i))
<1> DEFINE n == Len(s)
           f == Close(s, i)
           m == Modes(s)
           a == SkipComment(s, i)
           Inside(k) == m[k] \in {"comment", "star"} /\ (m[k] = "star" => k > i + 1 /\ s[k] = "*")
           T == {k \in (i + 1)..n : Inside(k)}
<1>1. /\ n \in Nat /\ i \in Nat /\ i + 1 <= n /\ s[i + 1] = "*"
      /\ m[i] = "/"
  BY LenProperties, EnterMode DEF At, Backticks, Fence
<1>2. /\ f \in (i + 2)..(n + 1)
      /\ f <= n => f < n /\ s[f] = "*" /\ s[f + 1] = "/"
      /\ \A k \in (i + 2)..n : k < f => ~ (s[k] = "*" /\ k < n /\ s[k + 1] = "/")
  BY <1>1, CloseIs
<1>3. a = IF f <= n THEN f + 2
          ELSE IF i + 2 <= n /\ s[n] \notin Starters THEN n ELSE n + 1
  BY DEF SkipComment, Close
<1>4. \A k \in 1..n : m[k] = NextMode(m[k - 1], s[k])
  BY ModesIs
<1> HIDE DEF n, f, m, a
<1>5. m[i + 1] = "comment"
  <2>1. i + 1 \in 1..n /\ (i + 1) - 1 = i
    BY <1>1
  <2>2. m[i + 1] = NextMode(m[i], s[i + 1])
    BY <1>4, <2>1
  <2> QED
    BY <1>1, <2>2, CodeMode
\* The reader stays inside: a slash after a star would have closed the comment.
<1>6. \A k \in (i + 1)..n : k <= f => k \in T
  <2> DEFINE hi == IF f <= n THEN f ELSE n
  <2>1. hi \in Nat /\ hi <= n /\ hi <= f /\ i + 1 \in Nat
    BY <1>1, <1>2
  <2>2. i + 1 \in T
    BY <1>1, <1>5
  <2>3. ASSUME NEW k \in (i + 1)..hi, k \in T, k < hi PROVE k + 1 \in T
    <3>1. /\ k + 1 \in 1..n /\ (k + 1) - 1 = k /\ k + 1 \in (i + 1)..n /\ k + 1 > i + 1
          /\ k < f /\ k < n
      <4> HIDE DEF T
      <4>1. /\ k \in Nat /\ i + 1 <= k /\ k <= hi /\ k < hi
        <5> HIDE DEF hi
        <5> QED
          BY <1>1, <2>1, <2>3
      <4>2. k < f /\ k < n
        BY <1>1, <1>2, <2>1, <4>1
      <4> QED
        BY <1>1, <4>1, <4>2
    <3>2. m[k + 1] = NextMode(m[k], s[k + 1])
      BY <1>4, <3>1
    <3>3. CASE m[k] = "comment"
      BY <3>1, <3>2, <3>3, SkippedMode
    <3>4. CASE m[k] = "star"
      <4>1. s[k] = "*" /\ k \in (i + 2)..n
        BY <1>1, <2>3, <3>1, <3>4
      <4>2. s[k + 1] # "/"
        BY <1>2, <3>1, <4>1
      <4> QED
        BY <3>1, <3>2, <3>4, <4>2, SkippedMode
    <3> QED
      BY <2>3, <3>3, <3>4
  <2>4. \A k \in (i + 1)..hi : k \in T
    <3> HIDE DEF T, hi
    <3> QED
      BY <2>1, <2>2, <2>3, Upward
  <2>5. \A k \in (i + 1)..n : k <= f => k \in (i + 1)..hi
    BY <1>1, <1>2
  <2> HIDE DEF T, hi
  <2> QED
    BY <2>4, <2>5
<1>7. \A k \in (i + 1)..n : k <= f => ~ IsCode(s, k)
  BY <1>6 DEF IsCode, m
<1>8. CASE f <= n
  <2>1. a = f + 2 /\ f + 1 \in 1..n /\ (f + 1) - 1 = f /\ f \in (i + 1)..n
        /\ f \in 1..n /\ f - 1 \in (i + 1)..n /\ f - 1 <= f
    BY <1>1, <1>2, <1>3, <1>8
  <2>2. m[f] = NextMode(m[f - 1], s[f]) /\ m[f + 1] = NextMode(m[f], s[f + 1])
    BY <1>4, <2>1
  <2>3. m[f - 1] \in {"comment", "star"}
    BY <1>6, <2>1
  <2>4. m[f] = "star"
    BY <1>2, <1>8, <2>2, <2>3, SkippedMode
  <2>5. m[f + 1] = "code"
    BY <1>2, <1>8, <2>2, <2>4, SkippedMode
  <2>6. Clean(s, a)
    <3>1. a - 1 = f + 1
      BY <1>1, <1>2, <2>1
    <3> QED
      BY <2>5, <3>1 DEF Clean, m
  <2>7. ASSUME NEW k \in (i + 1)..(a - 1) PROVE ~ IsCode(s, k)
    <3>1. k = f + 1 \/ (k \in (i + 1)..n /\ k <= f)
      BY <1>1, <1>2, <2>1
    <3>2. "/" \notin Plain
      BY PlainIs
    <3> QED
      BY <1>2, <1>7, <1>8, <3>1, <3>2 DEF IsCode
  <2>8. a \in (i + 1)..(n + 1)
    BY <1>1, <1>2, <1>8, <2>1
  <2> QED
    BY <2>6, <2>7, <2>8 DEF Leap, CanStop, n, a
<1>9. CASE f = n + 1
  <2>1. a \in (i + 1)..(n + 1) /\ (a > n \/ (a = n /\ s[a] \notin Starters))
    <3>1. ~ (f <= n)
      BY <1>1, <1>9
    <3>2. a = n + 1 \/ (a = n /\ i + 2 <= n /\ s[n] \notin Starters)
      BY <1>3, <3>1
    <3>3. CASE a = n + 1
      BY <1>1, <3>3
    <3>4. CASE a = n /\ i + 2 <= n /\ s[n] \notin Starters
      <4>1. a \in (i + 1)..(n + 1)
        BY <1>1, <3>4
      <4> QED
        BY <3>4, <4>1
    <3> QED
      BY <3>2, <3>3, <3>4
  <2>2. ASSUME NEW k \in (i + 1)..(a - 1) PROVE ~ IsCode(s, k)
    <3>1. k \in (i + 1)..n /\ k <= f
      BY <1>1, <1>9, <2>1
    <3> QED
      BY <1>7, <3>1
  <2> QED
    BY <2>1, <2>2 DEF Leap, CanStop, n, a
<1> QED
  BY <1>1, <1>2, <1>8, <1>9

\* Over a quotation.
LEMMA QuoteLeap ==
  ASSUME NEW S, NEW s \in Seq(S), NEW i \in 1..Len(s), s[i] \in Quotation
  PROVE  /\ SkipQuoted(s, i + 1, s[i]) \in (i + 1)..(Len(s) + 1)
         /\ Clean(s, i) => Leap(s, i, SkipQuoted(s, i + 1, s[i]))
<1> DEFINE n == Len(s)
           a == SkipQuoted(s, i + 1, s[i])
<1>1. /\ n \in Nat /\ i \in Nat /\ i + 1 \in 1..(n + 1) /\ (i + 1) - 1 = i
  BY LenProperties
<1>2. /\ a \in (i + 1)..(n + 1)
      /\ Modes(s)[i] = s[i] =>
            /\ a > n \/ Modes(s)[a - 1] = "code"
            /\ \A k \in (i + 1)..n : k < a => ~ IsCode(s, k)
  BY <1>1, QuotedLeap DEF SkipQuoted
<1> HIDE DEF n, a
<1>3. ASSUME Clean(s, i) PROVE Leap(s, i, a)
  <2>1. Modes(s)[i] = s[i]
    BY <1>3, EnterMode DEF Quotation, Backticks, Fence
  <2>2. a > n \/ Clean(s, a)
    BY <1>1, <1>2, <2>1 DEF Clean
  <2>3. \A k \in (i + 1)..(a - 1) : ~ IsCode(s, k)
    <3>1. \A k \in (i + 1)..(a - 1) : k \in (i + 1)..n /\ k < a
      BY <1>1, <1>2
    <3> QED
      BY <1>2, <2>1, <3>1
  <2> QED
    BY <1>2, <2>2, <2>3 DEF Leap, CanStop, n
<1> QED
  BY <1>2, <1>3 DEF n, a

\* Whatever After finds but a backtick: it goes on, within the text, and by a leap.
LEMMA AfterLeap ==
  ASSUME NEW S, NEW s \in Seq(S), NEW i \in 1..Len(s)
  PROVE  /\ After(s, i) \in (i + 1)..(Len(s) + 1)
         /\ Clean(s, i) /\ Modes(s)[i] # "backtick" => Leap(s, i, After(s, i))
<1> DEFINE n == Len(s)
<1>1. n \in Nat /\ i \in Nat /\ i <= n
  BY LenProperties
<1>2. CASE s[i] \in Quotation
  <2>1. After(s, i) = SkipQuoted(s, i + 1, s[i])
    BY <1>2 DEF After, Quotation
  <2> QED
    BY <1>2, <2>1, QuoteLeap
<1>3. CASE s[i] = "["
  <2>1. After(s, i) = SkipUntil(s, i + 1, "]")
    BY <1>3 DEF After, Quotation
  <2>2. SkipUntil(s, i + 1, "]") \in (i + 1)..(n + 1)
    <3>1. i + 1 \in 1..(n + 1)
      BY <1>1
    <3>2. Find(s, i + 1, "]") \in (i + 1)..(n + 1)
      BY <3>1, FindIs
    <3> QED
      BY <1>1, <3>2 DEF SkipUntil, Smaller
  <2> QED
    BY <1>3, <2>1, <2>2, NameLeap
<1>4. CASE s[i] = "-" /\ At(s, i + 1, "-")
  <2>1. After(s, i) = SkipLine(s, i)
    BY <1>4 DEF After, Quotation
  <2>2. SkipLine(s, i) \in (i + 1)..(n + 1)
    <3>1. i \in 1..(n + 1)
      BY <1>1
    <3>2. /\ Find(s, i, Newline) \in i..(n + 1)
          /\ Find(s, i, Newline) <= n => s[Find(s, i, Newline)] = Newline
      BY <3>1, FindIs
    <3>3. Find(s, i, Newline) # i
      BY <1>1, <1>4, <3>2 DEF Newline
    <3> QED
      BY <1>1, <3>2, <3>3 DEF SkipLine
  <2> QED
    BY <1>4, <2>1, <2>2, LineLeap
<1>5. CASE s[i] = "/" /\ At(s, i + 1, "*")
  <2>1. After(s, i) = SkipComment(s, i)
    BY <1>5 DEF After, Quotation
  <2>2. i + 1 <= n
    BY <1>5 DEF At
  <2>3. Close(s, i) \in (i + 2)..(n + 1) /\ (Close(s, i) <= n => Close(s, i) < n)
    BY <2>2, CloseIs
  <2>4. SkipComment(s, i)
           = IF Close(s, i) <= n THEN Close(s, i) + 2
             ELSE IF i + 2 <= n /\ s[n] \notin Starters THEN n ELSE n + 1
    BY DEF SkipComment, Close
  <2>5. SkipComment(s, i) \in (i + 1)..(n + 1)
    <3> HIDE DEF n
    <3> QED
      BY <1>1, <2>2, <2>3, <2>4
  <2> QED
    BY <1>5, <2>1, <2>5, CommentLeap
<1>6. CASE /\ s[i] \notin Quotation /\ s[i] # "["
           /\ ~ (s[i] = "-" /\ At(s, i + 1, "-"))
           /\ ~ (s[i] = "/" /\ At(s, i + 1, "*"))
  <2>1. After(s, i) = i + 1
    BY <1>6 DEF After
  <2>2. ASSUME Clean(s, i), Modes(s)[i] # "backtick" PROVE Clean(s, i + 1)
    <3>1. (i + 1) - 1 = i
      BY <1>1
    <3>2. Modes(s)[i] = IF s[i] \in {"-", "/"} THEN s[i] ELSE "code"
      BY <1>6, <2>2, EnterMode
    <3> QED
      BY <1>6, <3>1, <3>2 DEF Clean
  <2>3. i + 1 \in (i + 1)..(n + 1) /\ \A k \in (i + 1)..((i + 1) - 1) : FALSE
    BY <1>1
  <2> QED
    BY <2>1, <2>2, <2>3 DEF Leap, CanStop
<1> QED
  BY <1>2, <1>3, <1>4, <1>5, <1>6

\* What the scan finds where the reader is in code is code for the reader too.
LEMMA FoundIsCode ==
  ASSUME NEW S, NEW s \in Seq(S), NEW i \in 1..Len(s), Clean(s, i), s[i] \in Plain
  PROVE  IsCode(s, i)
  BY EnterMode, PlainIs DEF IsCode

\* StopsFrom, from the end of the text.
LEMMA StopsFromIs ==
  ASSUME NEW S, NEW s \in Seq(S)
  PROVE  \A i \in 1..(Len(s) + 1) :
            StopsFrom(s)[i] = IF i > Len(s) THEN {} ELSE {i} \cup StopsFrom(s)[After(s, i)]
<1> DEFINE n == Len(s)
           Eq(f, k) == f = [i \in k..(n + 1) |->
                              IF i > n THEN {} ELSE {i} \cup f[After(s, i)]]
           T == {k \in 1..(n + 1) : \E f : Eq(f, k)}
<1>1. n \in Nat
  BY LenProperties
<1>2. \A i \in 1..n : After(s, i) \in (i + 1)..(n + 1)
  BY AfterLeap
<1> HIDE DEF n
<1>3. ASSUME NEW k \in 1..(n + 1), \A j \in (k + 1)..(n + 1) : j \in T
      PROVE  k \in T
  <2>1. CASE k = n + 1
    <3>1. Eq([i \in k..(n + 1) |-> {}], k)
      BY <1>1, <2>1
    <3> HIDE DEF Eq
    <3> QED
      BY <3>1
  <2>2. CASE k # n + 1
    <3>1. k <= n /\ k + 1 \in T
      <4> HIDE DEF T
      <4> QED
        BY <1>1, <1>3, <2>2
    <3>2. PICK f : Eq(f, k + 1)
      BY <3>1
    <3> DEFINE g == [i \in k..(n + 1) |-> IF i = k THEN {i} \cup f[After(s, i)] ELSE f[i]]
    <3>3. ASSUME NEW i \in k..(n + 1)
          PROVE  g[i] = IF i > n THEN {} ELSE {i} \cup g[After(s, i)]
      <4>1. i <= n => /\ After(s, i) \in k..(n + 1) /\ After(s, i) # k
                      /\ g[After(s, i)] = f[After(s, i)]
        <5>1. SUFFICES ASSUME i <= n
                       PROVE  After(s, i) \in k..(n + 1) /\ After(s, i) # k
          OBVIOUS
        <5>2. i \in 1..n
          BY <1>1, <5>1
        <5>3. After(s, i) \in (i + 1)..(n + 1)
          BY <1>2, <5>2
        <5> QED
          BY <1>1, <5>2, <5>3
      <4>2. CASE i = k
        BY <1>1, <3>1, <4>1, <4>2
      <4>3. CASE i # k
        <5>1. i \in (k + 1)..(n + 1) /\ g[i] = f[i]
          BY <1>1, <4>3
        <5>2. f[i] = IF i > n THEN {} ELSE {i} \cup f[After(s, i)]
          BY <3>2, <5>1
        <5> HIDE DEF g
        <5>3. i <= n \/ i > n
          BY <1>1, <3>3
        <5> QED
          BY <4>1, <5>1, <5>2, <5>3
      <4> QED
        BY <4>2, <4>3
    <3>4. Eq(g, k)
      <4>1. g = [i \in k..(n + 1) |-> g[i]]
        OBVIOUS
      <4> HIDE DEF g
      <4> QED
        BY <3>3, <4>1
    <3> HIDE DEF g, Eq
    <3> QED
      BY <3>4
  <2> QED
    BY <2>1, <2>2
<1>4. 1 \in T
  <2> HIDE DEF T
  <2>1. 1 \in Nat /\ n + 1 \in Nat
    BY <1>1
  <2>2. \A k \in 1..(n + 1) : (\A j \in (k + 1)..(n + 1) : j \in T) => k \in T
    BY <1>3
  <2>3. \A k \in 1..(n + 1) : k \in T
    BY <2>1, <2>2, Downward
  <2> QED
    BY <1>1, <2>3
<1> DEFINE m == CHOOSE f : Eq(f, 1)
<1>5. Eq(m, 1)
  <2>1. PICK f : Eq(f, 1)
    BY <1>4
  <2> HIDE DEF Eq
  <2> QED
    BY <2>1
<1>6. StopsFrom(s) = m
  BY DEF StopsFrom, n
<1> HIDE DEF m
<1> QED
  BY <1>1, <1>5, <1>6 DEF n

\* The scan from i stops at i and behind it.
LEMMA StopsRange ==
  ASSUME NEW S, NEW s \in Seq(S)
  PROVE  \A i \in 1..(Len(s) + 1) : StopsFrom(s)[i] \subseteq i..Len(s)
<1> DEFINE n == Len(s)
           from == StopsFrom(s)
           T == {i \in 1..(n + 1) : from[i] \subseteq i..n}
<1>1. /\ n \in Nat
      /\ \A i \in 1..(n + 1) : from[i] = IF i > n THEN {} ELSE {i} \cup from[After(s, i)]
      /\ \A i \in 1..n : After(s, i) \in (i + 1)..(n + 1)
  BY LenProperties, StopsFromIs, AfterLeap
<1> HIDE DEF n, from
<1>2. ASSUME NEW i \in 1..(n + 1), \A j \in (i + 1)..(n + 1) : j \in T
      PROVE  i \in T
  <2>1. CASE i > n
    BY <1>1, <2>1
  <2>2. CASE i <= n
    <3>1. i \in 1..n /\ After(s, i) \in (i + 1)..(n + 1) /\ After(s, i) \in T
      BY <1>1, <1>2, <2>2
    <3>2. from[After(s, i)] \subseteq After(s, i)..n
      BY <3>1
    <3>3. After(s, i)..n \subseteq i..n
      BY <1>1, <3>1
    <3>4. from[i] = {i} \cup from[After(s, i)]
      <4>1. ~ (i > n)
        BY <1>1, <2>2
      <4> QED
        BY <1>1, <4>1
    <3>5. from[i] \subseteq i..n
      BY <3>1, <3>2, <3>3, <3>4
    <3> QED
      BY <3>5
  <2> QED
    BY <1>1, <2>1, <2>2
<1>3. \A i \in 1..(n + 1) : i \in T
  <2> HIDE DEF T
  <2>1. 1 \in Nat /\ n + 1 \in Nat
    BY <1>1
  <2>2. \A i \in 1..(n + 1) : (\A j \in (i + 1)..(n + 1) : j \in T) => i \in T
    BY <1>2
  <2> QED
    BY <2>1, <2>2, Downward
<1> QED
  BY <1>3 DEF n, from

\* From where the scan can stop, it stops at what it looks for exactly where that is
\* code for the reader; of the last character this is shown of words only.
LEMMA StopsExact ==
  ASSUME NEW S, NEW s \in Seq(S), WithoutBackticks(s)
  PROVE  \A i \in 1..(Len(s) + 1) :
            CanStop(s, i)
               => \A k \in i..Len(s) : s[k] \in Plain /\ (k < Len(s) \/ s[k] \in Starters)
                     => (k \in StopsFrom(s)[i] <=> IsCode(s, k))
<1> DEFINE n == Len(s)
           from == StopsFrom(s)
           Shown(k) == s[k] \in Plain /\ (k < n \/ s[k] \in Starters)
           P(i) == CanStop(s, i)
                      => \A k \in i..n : Shown(k) => (k \in from[i] <=> IsCode(s, k))
           T == {i \in 1..(n + 1) : P(i)}
<1>1. /\ n \in Nat
      /\ \A i \in 1..(n + 1) : from[i] = IF i > n THEN {} ELSE {i} \cup from[After(s, i)]
      /\ \A i \in 1..(n + 1) : from[i] \subseteq i..n
  BY LenProperties, StopsFromIs, StopsRange
<1>2. \A i \in 1..n : Clean(s, i) => Leap(s, i, After(s, i))
  <2>1. \A i \in 1..n : Modes(s)[i] # "backtick"
    BY LenProperties DEF WithoutBackticks
  <2> QED
    BY <2>1, AfterLeap
<1>3. \A i \in 1..n : Clean(s, i) /\ s[i] \in Plain => IsCode(s, i)
  BY FoundIsCode
<1> HIDE DEF n, from
<1>4. ASSUME NEW i \in 1..(n + 1), \A j \in (i + 1)..(n + 1) : P(j)
      PROVE  P(i)
  <2>3. n \in Nat /\ i \in Nat /\ 1 <= i /\ i <= n + 1
    BY <1>1
  <2>1. CASE ~ Clean(s, i)
    <3>1. SUFFICES ASSUME CanStop(s, i), NEW k \in i..n, Shown(k) PROVE FALSE
      BY DEF P
    <3>2. i > n \/ (i = n /\ s[i] \notin Starters)
      BY <2>1, <3>1 DEF CanStop, n
    <3>3. k = n /\ i = n
      BY <2>3, <3>2
    <3> QED
      BY <2>3, <3>1, <3>2, <3>3
  <2>2. CASE Clean(s, i)
    <3>1. SUFFICES ASSUME NEW k \in i..n, Shown(k)
                   PROVE  k \in from[i] <=> IsCode(s, k)
      OBVIOUS
    <3> DEFINE a == After(s, i)
    <3>2. i \in 1..n /\ from[i] = {i} \cup from[a]
      <4>1. i \in 1..n /\ ~ (i > n)
        BY <1>1, <2>3, <3>1
      <4> QED
        BY <1>1, <4>1
    <3>3. Leap(s, i, a)
      BY <1>2, <2>2, <3>2
    <3> HIDE DEF a
    <3>4. /\ a \in (i + 1)..(n + 1)
          /\ CanStop(s, a)
          /\ \A j \in (i + 1)..(a - 1) : ~ IsCode(s, j)
      BY <3>3 DEF Leap, n
    <3>9. /\ n \in Nat /\ i \in Nat /\ 1 <= i
          /\ k \in Nat /\ i <= k /\ k <= n
          /\ a \in Nat /\ i + 1 <= a /\ a <= n + 1
      <4>1. k \in Nat /\ i <= k /\ k <= n
        BY <2>3, <3>1
      <4>2. a \in Nat /\ i + 1 <= a /\ a <= n + 1
        BY <2>3, <3>4
      <4> QED
        BY <2>3, <4>1, <4>2
    <3>5. from[a] \subseteq a..n
      BY <1>1, <3>4
    <3>6. CASE k = i
      BY <1>3, <2>2, <3>1, <3>2, <3>6
    <3>7. CASE k # i /\ k < a
      <4>1. k \in (i + 1)..(a - 1)
        BY <3>7, <3>9
      <4>2. k \notin from[a]
        BY <3>4, <3>5, <3>7
      <4> QED
        BY <3>1, <3>2, <3>4, <3>7, <4>1, <4>2
    <3>8. CASE k >= a
      <4>1. P(a)
        <5> HIDE DEF P
        <5> QED
          BY <1>4, <3>4
      <4>2. k \in a..n /\ k # i
        BY <3>8, <3>9
      <4>3. k \in from[a] <=> IsCode(s, k)
        BY <3>1, <3>4, <4>1, <4>2
      <4> QED
        BY <3>2, <4>2, <4>3
    <3> QED
      BY <3>6, <3>7, <3>8, <3>9
  <2> HIDE DEF P
  <2> QED
    BY <2>1, <2>2
<1>5. \A i \in 1..(n + 1) : P(i)
  <2> HIDE DEF P
  <2>1. 1 \in Nat /\ n + 1 \in Nat
    BY <1>1
  <2>2. \A i \in 1..(n + 1) : (\A j \in (i + 1)..(n + 1) : j \in T) => i \in T
    BY <1>4
  <2> HIDE DEF T
  <2>3. \A i \in 1..(n + 1) : i \in T
    BY <2>1, <2>2, Downward
  <2> QED
    BY <2>3 DEF T
<1> QED
  BY <1>5 DEF n, from

\* The same of the scan of the whole text.
LEMMA StopsAre ==
  ASSUME NEW S, NEW s \in Seq(S), WithoutBackticks(s)
  PROVE  /\ Stops(s) \subseteq 1..Len(s)
         /\ \A k \in 1..Len(s) : s[k] \in Plain /\ (k < Len(s) \/ s[k] \in Starters)
               => (k \in Stops(s) <=> Modes(s)[k] = "code")
<1>1. 1 \in 1..(Len(s) + 1) /\ 1 - 1 = 0
  BY LenProperties
<1>2. CanStop(s, 1)
  BY <1>1, ModesIs DEF CanStop, Clean
<1>3. Stops(s) \subseteq 1..Len(s)
  BY <1>1, StopsRange DEF Stops
<1>4. \A k \in 1..Len(s) : s[k] \in Plain /\ (k < Len(s) \/ s[k] \in Starters)
         => (k \in StopsFrom(s)[1] <=> IsCode(s, k))
  BY <1>1, <1>2, StopsExact
<1> QED
  BY <1>3, <1>4 DEF Stops, IsCode

-----------------------------------------------------------------------------
(* Parts of a text.                                                        *)

\* A part of a text, and what is at each of its places.
LEMMA Piece ==
  ASSUME NEW S, NEW s \in Seq(S), NEW lo \in 1..(Len(s) + 1), NEW hi \in 0..Len(s)
  PROVE  /\ SubSeq(s, lo, hi) \in Seq(S)
         /\ Len(SubSeq(s, lo, hi)) = IF lo <= hi THEN hi - lo + 1 ELSE 0
         /\ \A i \in 1..(hi - lo + 1) : SubSeq(s, lo, hi)[i] = s[lo + i - 1]
<1>1. Len(s) \in Nat
  BY LenProperties
<1>2. lo \in Int /\ hi \in Int
  BY <1>1
<1>3. \A i \in lo..hi : s[i] \in S
  <2>1. \A i \in lo..hi : i \in 1..Len(s)
    BY <1>1
  <2> QED
    BY <2>1, ElementOfSeq
<1> QED
  BY <1>2, <1>3, SubSeqProperties

\* Not empty, and what is first in a text.
LEMMA HasFirst ==
  ASSUME NEW S, NEW s \in Seq(S)
  PROVE  s # <<>> <=> 1 \in DOMAIN s
<1>1. Len(s) \in Nat /\ DOMAIN s = 1..Len(s) /\ (s = <<>> <=> Len(s) = 0)
  BY LenProperties, EmptySeq
<1> QED
  BY <1>1

\* What is left of the blanks, and that it is something when not all is blank.
LEMMA Trimmed ==
  ASSUME NEW S, NEW s \in Seq(S)
  PROVE  /\ TrimSpace(s) \in Seq(S)
         /\ TrimSpace(s) # <<>> <=> \E i \in DOMAIN s : s[i] # Newline
         /\ s # <<>> /\ s[1] # Newline => TrimSpace(s) # <<>> /\ TrimSpace(s)[1] = s[1]
<1> DEFINE solid == {i \in DOMAIN s : s[i] # Newline}
           first == CHOOSE i \in solid : \A j \in solid : i <= j
           last == CHOOSE i \in solid : \A j \in solid : j <= i
<1>1. Len(s) \in Nat /\ DOMAIN s = 1..Len(s)
  BY LenProperties
<1>2. CASE solid = {}
  <2>1. TrimSpace(s) = <<>>
    BY <1>2 DEF TrimSpace
  <2>2. \A i \in DOMAIN s : s[i] = Newline
    BY <1>2
  <2> HIDE DEF solid
  <2> QED
    BY <2>1, <2>2, HasFirst, EmptySeq
<1>3. CASE solid # {}
  <2>1. TrimSpace(s) = SubSeq(s, first, last)
    BY <1>3 DEF TrimSpace
  <2>2. solid \in SUBSET Nat /\ solid \in SUBSET (0..Len(s))
    BY <1>1
  <2>3. \E i \in DOMAIN s : s[i] # Newline
    BY <1>3
  <2> HIDE DEF solid
  <2>4. first \in solid /\ \A j \in solid : first <= j
    <3>1. \E i \in solid : \A j \in solid : i <= j
      BY <1>3, <2>2, LeastNumber
    <3> QED
      BY <3>1
  <2>5. last \in solid /\ \A j \in solid : j <= last
    <3>1. \E i \in solid : \A j \in solid : j <= i
      BY <1>1, <1>3, <2>2, GreatestNumber
    <3> QED
      BY <3>1
  <2> HIDE DEF first, last
  <2>6. first \in 1..Len(s) /\ last \in 1..Len(s) /\ first <= last
    BY <1>1, <2>4, <2>5 DEF solid
  <2>7. /\ TrimSpace(s) \in Seq(S)
        /\ Len(TrimSpace(s)) = last - first + 1
        /\ \A i \in 1..(last - first + 1) : TrimSpace(s)[i] = s[first + i - 1]
    <3>1. first \in 1..(Len(s) + 1) /\ last \in 0..Len(s)
      BY <1>1, <2>6
    <3> QED
      BY <2>1, <2>6, <3>1, Piece
  <2>8. TrimSpace(s) # <<>>
    <3>1. last - first + 1 # 0
      BY <1>1, <2>6
    <3> QED
      BY <2>7, <3>1, EmptySeq
  <2>9. ASSUME s # <<>>, s[1] # Newline PROVE TrimSpace(s)[1] = s[1]
    <3>1. 1 \in solid
      BY <2>9, HasFirst DEF solid
    <3>2. first = 1
      BY <1>1, <2>4, <2>6, <3>1
    <3>3. 1 \in 1..(last - first + 1) /\ first + 1 - 1 = 1
      BY <1>1, <2>6, <3>2
    <3> QED
      BY <2>7, <3>3
  <2> QED
    BY <2>3, <2>7, <2>8, <2>9
<1> QED
  BY <1>2, <1>3

\* The rest of a text from a place on.
LEMMA FromIs ==
  ASSUME NEW S, NEW s \in Seq(S), NEW i \in 1..(Len(s) + 1)
  PROVE  /\ From(s, i) \in Seq(S)
         /\ Len(From(s, i)) = Len(s) + 1 - i
         /\ \A j \in 1..(Len(s) + 1 - i) : From(s, i)[j] = s[i + j - 1]
<1>1. Len(s) \in Nat /\ i \in Nat /\ i <= Len(s) + 1 /\ Len(s) \in 0..Len(s)
  BY LenProperties
<1>2. /\ SubSeq(s, i, Len(s)) \in Seq(S)
      /\ Len(SubSeq(s, i, Len(s))) = IF i <= Len(s) THEN Len(s) - i + 1 ELSE 0
      /\ \A j \in 1..(Len(s) - i + 1) : SubSeq(s, i, Len(s))[j] = s[i + j - 1]
  BY <1>1, Piece
<1>3. /\ Len(s) - i + 1 = Len(s) + 1 - i
      /\ (IF i <= Len(s) THEN Len(s) - i + 1 ELSE 0) = Len(s) + 1 - i
  BY <1>1
<1> QED
  BY <1>2, <1>3 DEF From

\* A text up to a place.
LEMMA BeforeIs ==
  ASSUME NEW S, NEW s \in Seq(S), NEW i \in 1..(Len(s) + 1)
  PROVE  /\ Before(s, i) \in Seq(S)
         /\ Len(Before(s, i)) = i - 1
         /\ \A j \in 1..(i - 1) : Before(s, i)[j] = s[j]
<1>1. /\ Len(s) \in Nat /\ i \in Nat /\ i <= Len(s) + 1
      /\ 1 \in 1..(Len(s) + 1) /\ i - 1 \in 0..Len(s)
  BY LenProperties
<1>2. /\ SubSeq(s, 1, i - 1) \in Seq(S)
      /\ Len(SubSeq(s, 1, i - 1)) = IF 1 <= i - 1 THEN (i - 1) - 1 + 1 ELSE 0
      /\ \A j \in 1..((i - 1) - 1 + 1) : SubSeq(s, 1, i - 1)[j] = s[1 + j - 1]
  BY <1>1, Piece
<1>3. /\ (i - 1) - 1 + 1 = i - 1
      /\ (IF 1 <= i - 1 THEN (i - 1) - 1 + 1 ELSE 0) = i - 1
      /\ \A j \in 1..(i - 1) : 1 + j - 1 = j
  BY <1>1
<1> QED
  BY <1>2, <1>3 DEF Before

-----------------------------------------------------------------------------
(* hasMultipleStatements.                                                  *)

\* A separator, for the reader.
IsSeparator(s, k) == s[k] = Semicolon /\ Modes(s)[k] = "code"

\* The walk by leaps of hasMultipleStatements finds a second statement in exactly the
\* texts in which a reader of one character after another does: in texts of any
\* length, however their quotations, bracketed names and comments lie, and whether
\* or not they are closed, as long as no backtick quotes anything.
THEOREM Exact ==
  ASSUME NEW S, NEW s \in Seq(S), WithoutBackticks(s)
  PROVE  HasMultipleStatements(s) <=> SecondStatement(s)
<1> DEFINE n == Len(s)
<1>1. n \in Nat /\ DOMAIN s = 1..n
  BY LenProperties
<1>2. Stops(s) \subseteq 1..n
  BY StopsAre
<1>3. \A k \in 1..n : k < n /\ s[k] = Semicolon => (k \in Stops(s) <=> IsSeparator(s, k))
  BY StopsAre DEF Plain, IsSeparator
<1>4. ASSUME NEW k \in 1..n
      PROVE  TrimSpace(From(s, k + 1)) # <<>> <=> \E j \in 1..n : k < j /\ s[j] # Newline
  <2>1. /\ From(s, k + 1) \in Seq(S)
        /\ Len(From(s, k + 1)) = n - k
        /\ \A j \in 1..(n - k) : From(s, k + 1)[j] = s[k + j]
    <3>1. k + 1 \in 1..(n + 1) /\ n + 1 - (k + 1) = n - k
          /\ \A j \in 1..(n - k) : (k + 1) + j - 1 = k + j
      <4> HIDE DEF n
      <4>1. k \in Nat /\ 1 <= k /\ k <= n
        BY <1>1
      <4>2. \A j \in 1..(n - k) : j \in Int
        BY <1>1, <4>1
      <4> QED
        BY <1>1, <4>1, <4>2
    <3>2. /\ From(s, k + 1) \in Seq(S)
          /\ Len(From(s, k + 1)) = n + 1 - (k + 1)
          /\ \A j \in 1..(n + 1 - (k + 1)) : From(s, k + 1)[j] = s[(k + 1) + j - 1]
      BY <3>1, FromIs
    <3> HIDE DEF n
    <3> QED
      BY <3>1, <3>2
  <2>2. DOMAIN From(s, k + 1) = 1..(n - k)
    BY <2>1, LenProperties
  <2>3. TrimSpace(From(s, k + 1)) # <<>>
           <=> \E j \in 1..(n - k) : s[k + j] # Newline
    BY <2>1, <2>2, Trimmed
  <2>4. \A j \in 1..(n - k) : k + j \in 1..n /\ k < k + j
    BY <1>1
  <2>5. \A j \in 1..n : k < j => j - k \in 1..(n - k) /\ k + (j - k) = j
    BY <1>1
  <2> HIDE DEF n
  <2>6. ASSUME NEW j \in 1..(n - k), s[k + j] # Newline
        PROVE  \E i \in 1..n : k < i /\ s[i] # Newline
    BY <2>4, <2>6
  <2>7. ASSUME NEW i \in 1..n, k < i, s[i] # Newline
        PROVE  \E j \in 1..(n - k) : s[k + j] # Newline
    BY <2>5, <2>7
  <2> QED
    BY <2>3, <2>6, <2>7
<1>5. HasMultipleStatements(s)
         <=> \E k \in Stops(s) : s[k] = Semicolon /\ TrimSpace(From(s, k + 1)) # <<>>
  BY DEF HasMultipleStatements, Separators, Semicolon
<1>6. SecondStatement(s)
         <=> \E k \in 1..n, j \in 1..n : IsSeparator(s, k) /\ k < j /\ s[j] # Newline
  BY <1>1 DEF SecondStatement, IsSeparator, Semicolon
<1> HIDE DEF n
<1>7. \A k \in 1..n, j \in 1..n : k < j => k < n
  BY <1>1
<1>8. ASSUME NEW k \in Stops(s), s[k] = Semicolon, TrimSpace(From(s, k + 1)) # <<>>
      PROVE  \E j \in 1..n : IsSeparator(s, k) /\ k < j /\ s[j] # Newline
  <2>1. k \in 1..n
    BY <1>2
  <2>2. PICK j \in 1..n : k < j /\ s[j] # Newline
    BY <1>4, <1>8, <2>1
  <2> QED
    BY <1>3, <1>7, <1>8, <2>1, <2>2
<1>9. ASSUME NEW k \in 1..n, NEW j \in 1..n, IsSeparator(s, k), k < j, s[j] # Newline
      PROVE  k \in Stops(s) /\ s[k] = Semicolon /\ TrimSpace(From(s, k + 1)) # <<>>
  <2>1. s[k] = Semicolon
    BY <1>9 DEF IsSeparator
  <2> QED
    BY <1>3, <1>4, <1>7, <1>9, <2>1
<1> QED
  BY <1>2, <1>5, <1>6, <1>8, <1>9

-----------------------------------------------------------------------------
(* ExtractSQL.                                                             *)

\* The text is empty, or its first word is one of the two that ExtractSQL looks for.
Leading == {"select", "with"}
Leads(s) == s # <<>> => s[1] \in Leading

\* Trimming keeps the first word: no blank is before it.
LEMMA TrimLeads ==
  ASSUME NEW S, NEW s \in Seq(S), Leads(s)
  PROVE  TrimSpace(s) \in Seq(S) /\ Leads(TrimSpace(s))
<1>1. TrimSpace(s) \in Seq(S)
  BY Trimmed
<1>2. CASE s = <<>>
  <2>1. DOMAIN s = {}
    BY <1>2
  <2>2. TrimSpace(s) = <<>>
    BY <2>1, Trimmed
  <2> QED
    BY <1>1, <2>2 DEF Leads
<1>3. CASE s # <<>>
  <2>1. s[1] \in Leading /\ s[1] # Newline
    BY <1>3 DEF Leads, Leading, Newline
  <2>2. TrimSpace(s)[1] = s[1]
    BY <1>3, <2>1, Trimmed
  <2> QED
    BY <1>1, <2>1, <2>2 DEF Leads
<1> QED
  BY <1>2, <1>3

\* So does the cut of a last token.
LEMMA SuffixLeads ==
  ASSUME NEW S, NEW s \in Seq(S), NEW token, Leads(s)
  PROVE  TrimSuffix(s, token) \in Seq(S) /\ Leads(TrimSuffix(s, token))
<1>1. CASE s # <<>> /\ s[Len(s)] = token
  <2>1. TrimSuffix(s, token) = Before(s, Len(s))
    BY <1>1 DEF TrimSuffix
  <2>2. Len(s) \in Nat /\ Len(s) # 0
    BY <1>1, LenProperties, EmptySeq
  <2>3. /\ Before(s, Len(s)) \in Seq(S)
        /\ Len(Before(s, Len(s))) = Len(s) - 1
        /\ \A j \in 1..(Len(s) - 1) : Before(s, Len(s))[j] = s[j]
    <3>1. Len(s) \in 1..(Len(s) + 1)
      BY <2>2
    <3> QED
      BY <3>1, BeforeIs
  <2>4. ASSUME Before(s, Len(s)) # <<>> PROVE Before(s, Len(s))[1] = s[1]
    <3>1. Len(Before(s, Len(s))) # 0
      BY <2>3, <2>4, EmptySeq
    <3>2. 1 \in 1..(Len(s) - 1)
      BY <2>2, <2>3, <3>1
    <3> QED
      BY <2>3, <3>2
  <2> QED
    BY <1>1, <2>1, <2>3, <2>4 DEF Leads
<1>2. CASE ~ (s # <<>> /\ s[Len(s)] = token)
  BY <1>2 DEF TrimSuffix
<1> QED
  BY <1>1, <1>2

\* From the first of the two words on, if there is one.
Opening(s) == FirstFrom(s, 1, LAMBDA i : s[i] \in {"select", "with"})

LEMMA FromLeads ==
  ASSUME NEW S, NEW s \in Seq(S)
  PROVE  From(s, Opening(s)) \in Seq(S) /\ Leads(From(s, Opening(s)))
<1> DEFINE n == Len(s)
           places == {j \in 1..n : s[j] \in {"select", "with"}}
           f == CHOOSE j \in places : \A k \in places : j <= k
           start == Opening(s)
<1>1. n \in Nat
  BY LenProperties
<1>2. start = IF places = {} THEN n + 1 ELSE f
  BY DEF Opening, FirstFrom
<1>3. start \in 1..(n + 1) /\ (start <= n => s[start] \in Leading)
  <2>1. CASE places = {}
    BY <1>1, <1>2, <2>1
  <2>2. CASE places # {}
    <3>1. f \in places
      <4>1. places \in SUBSET (1..n) /\ 1 \in Nat
        OBVIOUS
      <4> HIDE DEF places
      <4> QED
        BY <1>1, <2>2, <4>1, FirstPlace
    <3> HIDE DEF f
    <3>2. start = f
      BY <1>2, <2>2
    <3>3. f \in 1..(n + 1) /\ s[f] \in Leading
      BY <1>1, <3>1 DEF Leading
    <3> QED
      BY <3>2, <3>3
  <2> QED
    BY <2>1, <2>2
<1> HIDE DEF start
<1>4. /\ From(s, start) \in Seq(S)
      /\ Len(From(s, start)) = n + 1 - start
      /\ \A j \in 1..(n + 1 - start) : From(s, start)[j] = s[start + j - 1]
  BY <1>3, FromIs
<1>5. ASSUME From(s, start) # <<>> PROVE From(s, start)[1] \in Leading
  <2>1. n + 1 - start # 0
    BY <1>4, <1>5, EmptySeq
  <2>2. 1 \in 1..(n + 1 - start) /\ start + 1 - 1 = start /\ start <= n
    <3> HIDE DEF n
    <3> QED
      BY <1>1, <1>3, <2>1
  <2> QED
    BY <1>3, <1>4, <2>2
<1> QED
  BY <1>4, <1>5 DEF Leads, start

\* What is between the fences is part of the text.
LEMMA FencedType ==
  ASSUME NEW S, NEW s \in Seq(S)
  PROVE  Fenced(s) \in Seq(S)
<1> DEFINE open == Find(s, 1, Fence)
           rest == From(s, open + 1)
           tagged == Find(rest, 1, Newline)
           tag == TrimSpace(Before(rest, tagged))
           body == IF tagged <= Len(rest) /\ tag \in {<<>>, <<"sql">>}
                   THEN From(rest, tagged + 1) ELSE rest
           close == Find(body, 1, Fence)
<1>1. Fenced(s) = IF open <= Len(s) /\ close <= Len(body)
                  THEN TrimSpace(Before(body, close)) ELSE s
  BY DEF Fenced
<1>2. SUFFICES ASSUME open <= Len(s), close <= Len(body)
               PROVE  TrimSpace(Before(body, close)) \in Seq(S)
  <2> HIDE DEF open, body, close
  <2> QED
    BY <1>1
<1>3. \A t \in Seq(S) : Len(t) \in Nat /\ 1 \in 1..(Len(t) + 1)
  BY LenProperties
<1>4. open \in 1..(Len(s) + 1)
  BY <1>3, FindIs
<1>5. rest \in Seq(S)
  <2> HIDE DEF open
  <2>1. open + 1 \in 1..(Len(s) + 1)
    BY <1>2, <1>3, <1>4
  <2> QED
    BY <2>1, FromIs
<1>6. body \in Seq(S)
  <2> HIDE DEF rest
  <2>1. tagged \in 1..(Len(rest) + 1)
    BY <1>3, <1>5, FindIs
  <2> HIDE DEF tagged, tag
  <2>2. ASSUME tagged <= Len(rest) PROVE From(rest, tagged + 1) \in Seq(S)
    <3>1. tagged + 1 \in 1..(Len(rest) + 1)
      BY <1>3, <1>5, <2>1, <2>2
    <3> QED
      BY <1>5, <3>1, FromIs
  <2> QED
    BY <1>5, <2>2
<1> HIDE DEF body
<1>7. close \in 1..(Len(body) + 1)
  BY <1>3, <1>6, FindIs
<1> HIDE DEF close
<1>8. Before(body, close) \in Seq(S)
  BY <1>6, <1>7, BeforeIs
<1> QED
  BY <1>8, Trimmed

\* ScanDepths, one place after another.
LEMMA ScanDepthsIs ==
  ASSUME NEW S, NEW s \in Seq(S)
  PROVE  LET d == ScanDepths(s)
         IN  /\ d[0] = 0
             /\ \A i \in 1..Len(s) : d[i] =
                   IF i \notin Stops(s) THEN d[i - 1]
                   ELSE IF s[i] = "(" THEN d[i - 1] + 1
                   ELSE IF s[i] = ")" /\ d[i - 1] > 0 THEN d[i - 1] - 1
                   ELSE d[i - 1]
<1> DEFINE n == Len(s)
           Step(d, i) ==
               IF i \notin Stops(s) THEN d
               ELSE IF s[i] = "(" THEN d + 1
               ELSE IF s[i] = ")" /\ d > 0 THEN d - 1
               ELSE d
           Eq(f, k) == f = [i \in 0..k |-> IF i = 0 THEN 0 ELSE Step(f[i - 1], i)]
           T == {k \in Nat : \E f : Eq(f, k)}
<1>1. n \in Nat
  BY LenProperties
<1>6. ScanDepths(s) = CHOOSE f : Eq(f, n)
  BY DEF ScanDepths
<1> HIDE DEF Step
<1>2. 0 \in T
  <2>1. Eq([i \in 0..0 |-> 0], 0)
    OBVIOUS
  <2> QED
    BY <2>1
<1>3. ASSUME NEW k \in T PROVE k + 1 \in T
  <2>1. PICK f : Eq(f, k)
    OBVIOUS
  <2> DEFINE g == [i \in 0..(k + 1) |-> IF i = k + 1 THEN Step(f[k], k + 1) ELSE f[i]]
  <2>2. \A i \in 0..(k + 1) : g[i] = IF i = 0 THEN 0 ELSE Step(g[i - 1], i)
    <3>1. SUFFICES ASSUME NEW i \in 0..(k + 1)
                   PROVE  g[i] = IF i = 0 THEN 0 ELSE Step(g[i - 1], i)
      OBVIOUS
    <3>2. CASE i = k + 1
      <4>1. g[k + 1] = Step(f[k], k + 1) /\ g[k] = f[k] /\ k + 1 # 0 /\ (k + 1) - 1 = k
        OBVIOUS
      <4> HIDE DEF g
      <4> QED
        BY <3>2, <4>1
    <3>3. CASE i # k + 1
      <4>1. i \in 0..k /\ (i # 0 => i - 1 \in 0..k /\ i - 1 \in 0..(k + 1) /\ i - 1 # k + 1)
        BY <3>3
      <4> QED
        BY <2>1, <3>3, <4>1
    <3> QED
      BY <3>2, <3>3
  <2>3. Eq(g, k + 1)
    <3>1. g = [i \in 0..(k + 1) |-> g[i]]
      OBVIOUS
    <3> HIDE DEF g
    <3> QED
      BY <2>2, <3>1
  <2> HIDE DEF g, Eq
  <2> QED
    BY <2>3
<1>4. n \in T
  <2> HIDE DEF T, n
  <2>1. \A k \in 0..n : k \in T
    BY <1>1, <1>2, <1>3, Upward
  <2> QED
    BY <1>1, <2>1
<1> DEFINE m == CHOOSE f : Eq(f, n)
<1>5. Eq(m, n)
  <2>1. PICK f : Eq(f, n)
    BY <1>4
  <2> HIDE DEF Eq
  <2> QED
    BY <2>1
<1>7. m[0] = 0 /\ \A i \in 1..n : m[i] = Step(m[i - 1], i)
  <2> HIDE DEF m
  <2> QED
    BY <1>1, <1>5
<1> HIDE DEF m
<1> QED
  BY <1>6, <1>7 DEF Step, m

\* Depths, one character after another.
LEMMA DepthsIs ==
  ASSUME NEW S, NEW s \in Seq(S)
  PROVE  LET d == Depths(s)
         IN  /\ d[0] = 0
             /\ \A i \in 1..Len(s) : d[i] =
                   IF Modes(s)[i] = "code" /\ s[i] = "(" THEN d[i - 1] + 1
                   ELSE IF Modes(s)[i] = "code" /\ s[i] = ")" /\ d[i - 1] > 0 THEN d[i - 1] - 1
                   ELSE d[i - 1]
<1> DEFINE n == Len(s)
           Step(d, i) ==
               IF Modes(s)[i] = "code" /\ s[i] = "(" THEN d + 1
               ELSE IF Modes(s)[i] = "code" /\ s[i] = ")" /\ d > 0 THEN d - 1
               ELSE d
           Eq(f, k) == f = [i \in 0..k |-> IF i = 0 THEN 0 ELSE Step(f[i - 1], i)]
           T == {k \in Nat : \E f : Eq(f, k)}
<1>1. n \in Nat
  BY LenProperties
<1>6. Depths(s) = CHOOSE f : Eq(f, n)
  BY DEF Depths
<1> HIDE DEF Step
<1>2. 0 \in T
  <2>1. Eq([i \in 0..0 |-> 0], 0)
    OBVIOUS
  <2> QED
    BY <2>1
<1>3. ASSUME NEW k \in T PROVE k + 1 \in T
  <2>1. PICK f : Eq(f, k)
    OBVIOUS
  <2> DEFINE g == [i \in 0..(k + 1) |-> IF i = k + 1 THEN Step(f[k], k + 1) ELSE f[i]]
  <2>2. \A i \in 0..(k + 1) : g[i] = IF i = 0 THEN 0 ELSE Step(g[i - 1], i)
    <3>1. SUFFICES ASSUME NEW i \in 0..(k + 1)
                   PROVE  g[i] = IF i = 0 THEN 0 ELSE Step(g[i - 1], i)
      OBVIOUS
    <3>2. CASE i = k + 1
      <4>1. g[k + 1] = Step(f[k], k + 1) /\ g[k] = f[k] /\ k + 1 # 0 /\ (k + 1) - 1 = k
        OBVIOUS
      <4> HIDE DEF g
      <4> QED
        BY <3>2, <4>1
    <3>3. CASE i # k + 1
      <4>1. i \in 0..k /\ (i # 0 => i - 1 \in 0..k /\ i - 1 \in 0..(k + 1) /\ i - 1 # k + 1)
        BY <3>3
      <4> QED
        BY <2>1, <3>3, <4>1
    <3> QED
      BY <3>2, <3>3
  <2>3. Eq(g, k + 1)
    <3>1. g = [i \in 0..(k + 1) |-> g[i]]
      OBVIOUS
    <3> HIDE DEF g
    <3> QED
      BY <2>2, <3>1
  <2> HIDE DEF g, Eq
  <2> QED
    BY <2>3
<1>4. n \in T
  <2> HIDE DEF T, n
  <2>1. \A k \in 0..n : k \in T
    BY <1>1, <1>2, <1>3, Upward
  <2> QED
    BY <1>1, <2>1
<1> DEFINE m == CHOOSE f : Eq(f, n)
<1>5. Eq(m, n)
  <2>1. PICK f : Eq(f, n)
    BY <1>4
  <2> HIDE DEF Eq
  <2> QED
    BY <2>1
<1>7. m[0] = 0 /\ \A i \in 1..n : m[i] = Step(m[i - 1], i)
  <2> HIDE DEF m
  <2> QED
    BY <1>1, <1>5
<1> HIDE DEF m
<1> QED
  BY <1>6, <1>7 DEF Step, m

\* The scan and the reader find the same statements.
LEMMA StatementsAre ==
  ASSUME NEW S, NEW s \in Seq(S), WithoutBackticks(s)
  PROVE  TopLevel(s) = Statements(s)
<1> DEFINE n == Len(s)
           scan == ScanDepths(s)
           read == Depths(s)
           T == {i \in 0..n : i < n => scan[i] = read[i]}
<1>1. n \in Nat /\ DOMAIN s = 1..n
  BY LenProperties
<1>2. /\ Stops(s) \subseteq 1..n
      /\ \A k \in 1..n : s[k] \in {"(", ")"} \cup Starters /\ (k < n \/ s[k] \in Starters)
            => (k \in Stops(s) <=> Modes(s)[k] = "code")
  BY StopsAre DEF Plain
<1>3. /\ scan[0] = 0
      /\ \A i \in 1..n : scan[i] =
            IF i \notin Stops(s) THEN scan[i - 1]
            ELSE IF s[i] = "(" THEN scan[i - 1] + 1
            ELSE IF s[i] = ")" /\ scan[i - 1] > 0 THEN scan[i - 1] - 1
            ELSE scan[i - 1]
  BY ScanDepthsIs
<1>4. /\ read[0] = 0
      /\ \A i \in 1..n : read[i] =
            IF Modes(s)[i] = "code" /\ s[i] = "(" THEN read[i - 1] + 1
            ELSE IF Modes(s)[i] = "code" /\ s[i] = ")" /\ read[i - 1] > 0 THEN read[i - 1] - 1
            ELSE read[i - 1]
  BY DepthsIs
<1>5. /\ TopLevel(s) = {i \in Stops(s) : s[i] \in Starters /\ scan[i - 1] = 0}
      /\ Statements(s) =
            {i \in 1..n : s[i] \in Starters /\ Modes(s)[i] = "code" /\ read[i] = 0}
  BY <1>1 DEF TopLevel, Statements
<1> HIDE DEF n, scan, read
<1>6. \A i \in 0..n : i \in T
  <2>1. 0 \in T
    BY <1>1, <1>3, <1>4
  <2>2. ASSUME NEW k \in 0..n, k \in T, k < n PROVE k + 1 \in T
    <3>1. SUFFICES ASSUME k + 1 < n PROVE scan[k + 1] = read[k + 1]
      BY <1>1, <2>2
    <3>2. k + 1 \in 1..n /\ (k + 1) - 1 = k /\ scan[k] = read[k]
      BY <1>1, <2>2
    <3>3. s[k + 1] \in {"(", ")"} => (k + 1 \in Stops(s) <=> Modes(s)[k + 1] = "code")
      BY <1>2, <3>1, <3>2
    <3>4. scan[k + 1] =
             IF k + 1 \notin Stops(s) THEN scan[k]
             ELSE IF s[k + 1] = "(" THEN scan[k] + 1
             ELSE IF s[k + 1] = ")" /\ scan[k] > 0 THEN scan[k] - 1
             ELSE scan[k]
      BY <1>3, <3>2
    <3>5. read[k + 1] =
             IF Modes(s)[k + 1] = "code" /\ s[k + 1] = "(" THEN read[k] + 1
             ELSE IF Modes(s)[k + 1] = "code" /\ s[k + 1] = ")" /\ read[k] > 0 THEN read[k] - 1
             ELSE read[k]
      BY <1>4, <3>2
    <3> QED
      BY <3>2, <3>3, <3>4, <3>5
  <2> HIDE DEF T
  <2> QED
    BY <1>1, <2>1, <2>2, Upward
<1>7. ASSUME NEW i \in 1..n, s[i] \in Starters
      PROVE  i \in TopLevel(s) <=> i \in Statements(s)
  <2>1. i \in Stops(s) <=> Modes(s)[i] = "code"
    BY <1>2, <1>7
  <2>2. scan[i - 1] = read[i - 1]
    <3>1. i - 1 \in 0..n /\ i - 1 < n
      BY <1>1
    <3> QED
      BY <1>6, <3>1
  <2>3. read[i] = read[i - 1]
    <3>1. s[i] # "(" /\ s[i] # ")"
      BY <1>7 DEF Starters
    <3> QED
      BY <1>4, <3>1
  <2> QED
    BY <1>5, <1>7, <2>1, <2>2, <2>3
<1>8. \A i \in TopLevel(s) \cup Statements(s) : i \in 1..n /\ s[i] \in Starters
  BY <1>2, <1>5
<1> QED
  BY <1>7, <1>8

\* What ExtractSQL lets through: a single statement, a SELECT or a WITH that leads
\* to one.
LEMMA Extracted ==
  ASSUME NEW S, NEW out \in Seq(S), NEW s \in ExtractSQL(out)
  PROVE  /\ s \in Seq(S)
         /\ s # <<>>
         /\ WithoutBackticks(s) => ~ SecondStatement(s) /\ IsSelect(s)
<1> DEFINE t == Fenced(TrimSpace(out))
           start == Opening(t)
<1>1. s = Statement(t) /\ s # <<>> /\ ValidateReadOnlySQL(s)
  BY DEF ExtractSQL
<1>2. t \in Seq(S)
  BY Trimmed, FencedType
<1>3. s \in Seq(S) /\ Leads(s)
  <2> HIDE DEF t
  <2>1. From(t, start) \in Seq(S) /\ Leads(From(t, start))
    BY <1>2, FromLeads
  <2>2. Statement(t) = TrimSpace(TrimSuffix(TrimSpace(TrimSuffix(TrimSpace(From(t, start)),
                                                                 Fence)), Semicolon))
    BY DEF Statement, Semicolon, Opening
  <2> HIDE DEF start
  <2> DEFINE a == TrimSpace(From(t, start))
             b == TrimSuffix(a, Fence)
             c == TrimSpace(b)
             d == TrimSuffix(c, Semicolon)
  <2>3. a \in Seq(S) /\ Leads(a)
    BY <2>1, TrimLeads
  <2>4. b \in Seq(S) /\ Leads(b)
    <3> HIDE DEF a
    <3> QED
      BY <2>3, SuffixLeads
  <2>5. c \in Seq(S) /\ Leads(c)
    <3> HIDE DEF b
    <3> QED
      BY <2>4, TrimLeads
  <2>6. d \in Seq(S) /\ Leads(d)
    <3> HIDE DEF c
    <3> QED
      BY <2>5, SuffixLeads
  <2>7. TrimSpace(d) \in Seq(S) /\ Leads(TrimSpace(d))
    <3> HIDE DEF d
    <3> QED
      BY <2>6, TrimLeads
  <2> QED
    BY <1>1, <2>2, <2>7
<1> HIDE DEF t
<1>4. ASSUME WithoutBackticks(s) PROVE ~ SecondStatement(s)
  <2>1. Separators(s) = {}
    BY <1>1 DEF ValidateReadOnlySQL
  <2>2. ~ HasMultipleStatements(s)
    BY <2>1 DEF HasMultipleStatements
  <2> QED
    BY <1>3, <1>4, <2>2, Exact
<1>5. s[1] = "select" \/ s[1] = "with"
  BY <1>1, <1>3 DEF Leads, Leading
<1>6. ASSUME WithoutBackticks(s) PROVE IsSelect(s)
  <2>1. SUFFICES ASSUME s[1] = "with" PROVE IsSelect(s)
    BY <1>5 DEF IsSelect
  <2>2. \E i \in TopLevel(s) : s[i] = "select" /\ \A j \in TopLevel(s) : i <= j
    BY <1>1, <2>1 DEF ValidateReadOnlySQL
  <2>3. TopLevel(s) = Statements(s)
    BY <1>3, <1>6, StatementsAre
  <2> QED
    BY <2>1, <2>2, <2>3 DEF IsSelect
<1> QED
  BY <1>1, <1>3, <1>4, <1>6

-----------------------------------------------------------------------------
(* The parser of the global flags.                                         *)

\* The texts that daemonArgs writes, and all texts.
Words == {"--db", "--pidfile", "--ignore-path", "daemon", "--foreground"}

Values == Texts \cup STRING \cup Words \cup {Flags[t].value : t \in DOMAIN Flags}
                \cup {DefaultDB, DefaultPidFile}

Configs == [db : Values, pidfile : Values, ignore : Seq(Values)]

PathsIn(paths) == {paths[i] : i \in DOMAIN paths}

\* Every configuration the parser comes by ignores the default paths.
Complete(cfg) == cfg \in Configs /\ PathsIn(DefaultPaths) \subseteq PathsIn(cfg.ignore)

\* ParseLoop, one iteration after another.
LEMMA ParseLoopIs ==
  ASSUME NEW S, NEW a \in Seq(S), NEW cfg
  PROVE  /\ ParseLoop(a, cfg)[0] = [ok |-> TRUE, at |-> 1, cfg |-> cfg]
         /\ \A i \in 1..Len(a) : ParseLoop(a, cfg)[i] = ParseFlag(a, ParseLoop(a, cfg)[i - 1])
<1> DEFINE n == Len(a)
           start == [ok |-> TRUE, at |-> 1, cfg |-> cfg]
           Eq(f, k) == f = [i \in 0..k |-> IF i = 0 THEN start ELSE ParseFlag(a, f[i - 1])]
           T == {k \in Nat : \E f : Eq(f, k)}
<1>1. n \in Nat
  BY LenProperties
<1>2. 0 \in T
  <2>1. Eq([i \in 0..0 |-> start], 0)
    OBVIOUS
  <2> HIDE DEF Eq
  <2> QED
    BY <2>1
<1>3. ASSUME NEW k \in T PROVE k + 1 \in T
  <2>1. PICK f : Eq(f, k)
    OBVIOUS
  <2> HIDE DEF start
  <2> DEFINE g == [i \in 0..(k + 1) |-> IF i = k + 1 THEN ParseFlag(a, f[k]) ELSE f[i]]
  <2>2. \A i \in 0..(k + 1) : g[i] = IF i = 0 THEN start ELSE ParseFlag(a, g[i - 1])
    <3>1. SUFFICES ASSUME NEW i \in 0..(k + 1)
                   PROVE  g[i] = IF i = 0 THEN start ELSE ParseFlag(a, g[i - 1])
      OBVIOUS
    <3>2. CASE i = k + 1
      BY <3>2
    <3>3. CASE i # k + 1
      <4>1. i \in 0..k /\ (i # 0 => i - 1 \in 0..k /\ i - 1 \in 0..(k + 1) /\ i - 1 # k + 1)
        BY <3>3
      <4> QED
        BY <2>1, <3>3, <4>1
    <3> QED
      BY <3>2, <3>3
  <2>3. Eq(g, k + 1)
    <3>1. g = [i \in 0..(k + 1) |-> g[i]]
      OBVIOUS
    <3> HIDE DEF g
    <3> QED
      BY <2>2, <3>1
  <2> HIDE DEF g, Eq
  <2> QED
    BY <2>3
<1>4. n \in T
  <2> HIDE DEF T, n
  <2>1. \A k \in 0..n : k \in T
    BY <1>1, <1>2, <1>3, Upward
  <2> QED
    BY <1>1, <2>1
<1> DEFINE m == CHOOSE f : Eq(f, n)
<1>5. Eq(m, n)
  <2>1. PICK f : Eq(f, n)
    BY <1>4
  <2> HIDE DEF Eq
  <2> QED
    BY <2>1
<1>6. ParseLoop(a, cfg) = m
  BY DEF ParseLoop
<1> HIDE DEF m, start
<1>7. /\ m[0] = start
      /\ \A i \in 1..n : m[i] = ParseFlag(a, m[i - 1])
  BY <1>1, <1>5
<1> QED
  BY <1>6, <1>7 DEF start

\* Another path to ignore.
LEMMA AnotherPath ==
  ASSUME NEW S, NEW paths \in Seq(S), NEW path \in S
  PROVE  /\ Append(paths, path) \in Seq(S)
         /\ PathsIn(Append(paths, path)) = PathsIn(paths) \cup {path}
<1>1. /\ Append(paths, path) \in Seq(S)
      /\ Len(Append(paths, path)) = Len(paths) + 1
      /\ \A i \in 1..Len(paths) : Append(paths, path)[i] = paths[i]
      /\ Append(paths, path)[Len(paths) + 1] = path
  BY AppendProperties
<1>2. /\ Len(paths) \in Nat /\ DOMAIN paths = 1..Len(paths)
      /\ DOMAIN Append(paths, path) = 1..(Len(paths) + 1)
  BY <1>1, LenProperties
<1>3. 1..(Len(paths) + 1) = 1..Len(paths) \cup {Len(paths) + 1}
  BY <1>2
<1> QED
  BY <1>1, <1>2, <1>3 DEF PathsIn

\* A setting keeps a configuration complete.
LEMMA SetIs ==
  ASSUME NEW cfg, Complete(cfg), NEW name \in Valued, NEW value \in Values
  PROVE  Complete(Set(cfg, name, value))
<1>1. cfg \in Configs /\ PathsIn(DefaultPaths) \subseteq PathsIn(cfg.ignore)
  BY DEF Complete
<1>2. CASE name = "db"
  <2>1. Set(cfg, name, value) = [cfg EXCEPT !.db = value]
    BY <1>2 DEF Set
  <2> QED
    BY <1>1, <2>1 DEF Complete, Configs
<1>3. CASE name = "pidfile"
  <2>1. Set(cfg, name, value) = [cfg EXCEPT !.pidfile = value]
    BY <1>3 DEF Set
  <2> QED
    BY <1>1, <2>1 DEF Complete, Configs
<1>4. CASE name = "ignore-path"
  <2>1. Set(cfg, name, value) = [cfg EXCEPT !.ignore = Append(cfg.ignore, value)]
    BY <1>4 DEF Set
  <2>2. /\ cfg.ignore \in Seq(Values)
        /\ Append(cfg.ignore, value) \in Seq(Values)
        /\ PathsIn(cfg.ignore) \subseteq PathsIn(Append(cfg.ignore, value))
    BY <1>1, AnotherPath DEF Configs
  <2>3. [cfg EXCEPT !.ignore = Append(cfg.ignore, value)] \in Configs
    BY <1>1, <2>2 DEF Configs
  <2>4. [cfg EXCEPT !.ignore = Append(cfg.ignore, value)].ignore = Append(cfg.ignore, value)
    BY <1>1 DEF Configs
  <2> QED
    BY <1>1, <2>1, <2>2, <2>3, <2>4 DEF Complete
<1> QED
  BY <1>2, <1>3, <1>4 DEF Valued

\* What the loop is between two iterations.
Parsing(a, p) ==
    \E ok, cfg : \E at \in 1..(Len(a) + 1) :
        Complete(cfg) /\ p = [ok |-> ok, at |-> at, cfg |-> cfg]

\* One iteration stays within the arguments and keeps the configuration complete.
LEMMA ParseFlagType ==
  ASSUME NEW a \in Seq(Values), NEW p, Parsing(a, p)
  PROVE  Parsing(a, ParseFlag(a, p))
<1> DEFINE flag == splitFlag(a[p.at])
           isLast == p.at = Len(a)
<1>0. PICK ok, cfg : \E at \in 1..(Len(a) + 1) :
         Complete(cfg) /\ p = [ok |-> ok, at |-> at, cfg |-> cfg]
  BY DEF Parsing
<1>1. PICK at \in 1..(Len(a) + 1) :
         Complete(cfg) /\ p = [ok |-> ok, at |-> at, cfg |-> cfg]
  BY <1>0
<1>2. Len(a) \in Nat /\ p.at = at /\ p.cfg = cfg /\ p.ok = ok
  BY <1>1, LenProperties
<1>3. CASE ~ p.ok \/ p.at > Len(a) \/ flag.name \notin Valued \cup {"json"}
  <2>1. ParseFlag(a, p) = p
    BY <1>3 DEF ParseFlag
  <2> QED
    BY <2>1
<1>4. CASE p.ok /\ p.at <= Len(a) /\ flag.name = "json"
  <2>1. ParseFlag(a, p) = [p EXCEPT !.ok = flag.hasValue => flag.value \in TruthValues,
                                    !.at = @ + 1]
    BY <1>2, <1>4 DEF ParseFlag
  <2>2. ParseFlag(a, p) = [ok |-> (flag.hasValue => flag.value \in TruthValues),
                           at |-> at + 1, cfg |-> cfg]
    <3> HIDE DEF flag
    <3> QED
      BY <1>1, <2>1
  <2>3. at + 1 \in 1..(Len(a) + 1)
    BY <1>2, <1>4
  <2> QED
    BY <1>1, <2>2, <2>3 DEF Parsing
<1>5. CASE p.ok /\ p.at <= Len(a) /\ flag.name \in Valued
  <2>1. at \in 1..Len(a) /\ a[at] \in Values /\ flag.name # "json"
    BY <1>2, <1>5, ElementOfSeq DEF Valued
  <2>2. CASE flag.hasValue
    <3>1. ParseFlag(a, p) = [p EXCEPT !.cfg = Set(@, flag.name, flag.value), !.at = @ + 1]
      BY <1>2, <1>5, <2>1, <2>2 DEF ParseFlag
    <3>2. flag.value \in Values
      <4>1. a[at] \in DOMAIN Flags
        BY <1>2, <1>5 DEF splitFlag, Valued
      <4>2. flag = Flags[a[at]]
        BY <1>2, <4>1 DEF splitFlag
      <4> QED
        BY <4>1, <4>2 DEF Values
    <3>3. Complete(Set(cfg, flag.name, flag.value))
      BY <1>1, <1>5, <3>2, SetIs
    <3>4. at + 1 \in 1..(Len(a) + 1)
      BY <1>2, <2>1
    <3> HIDE DEF flag
    <3>5. ParseFlag(a, p) = [ok |-> ok, at |-> at + 1, cfg |-> Set(cfg, flag.name, flag.value)]
      BY <1>1, <3>1
    <3> QED
      BY <3>3, <3>4, <3>5 DEF Parsing
  <2>3. CASE ~ flag.hasValue /\ isLast
    <3>1. ParseFlag(a, p) = [p EXCEPT !.ok = FALSE]
      BY <1>2, <1>5, <2>1, <2>3 DEF ParseFlag
    <3>2. ParseFlag(a, p) = [ok |-> FALSE, at |-> at, cfg |-> cfg]
      BY <1>1, <3>1
    <3> QED
      BY <1>1, <3>2 DEF Parsing
  <2>4. CASE ~ flag.hasValue /\ ~ isLast
    <3>1. ParseFlag(a, p) = [p EXCEPT !.cfg = Set(@, flag.name, a[p.at + 1]), !.at = @ + 2]
      BY <1>2, <1>5, <2>1, <2>4 DEF ParseFlag
    <3>2. at + 1 \in 1..Len(a) /\ at + 2 \in 1..(Len(a) + 1)
      BY <1>2, <2>1, <2>4
    <3>3. Complete(Set(cfg, flag.name, a[at + 1]))
      <4>1. a[at + 1] \in Values
        BY <3>2, ElementOfSeq
      <4> QED
        BY <1>1, <1>5, <4>1, SetIs
    <3> HIDE DEF flag
    <3>4. ParseFlag(a, p) = [ok |-> ok, at |-> at + 2, cfg |-> Set(cfg, flag.name, a[at + 1])]
      BY <1>1, <3>1
    <3> QED
      BY <3>2, <3>3, <3>4 DEF Parsing
  <2> QED
    BY <2>2, <2>3, <2>4
<1>6. p.at > Len(a) \/ p.at <= Len(a)
  BY <1>2
<1> QED
  BY <1>3, <1>4, <1>5, <1>6

\* What the parser returns.
LEMMA ParsedType ==
  ASSUME NEW a \in Seq(Values), NEW cfg, Complete(cfg)
  PROVE  /\ Complete(parseGlobalFlags(a, cfg).cfg)
         /\ parseGlobalFlags(a, cfg).rest \in Seq(Values)
<1> DEFINE n == Len(a)
           loop == ParseLoop(a, cfg)
           T == {k \in 0..n : Parsing(a, loop[k])}
<1>1. /\ n \in Nat
      /\ loop[0] = [ok |-> TRUE, at |-> 1, cfg |-> cfg]
      /\ \A i \in 1..n : loop[i] = ParseFlag(a, loop[i - 1])
  BY LenProperties, ParseLoopIs
<1> HIDE DEF loop
<1>2. 0 \in T
  <2>1. 1 \in 1..(n + 1) /\ 0 \in 0..n
    BY <1>1
  <2> QED
    BY <1>1, <2>1 DEF Parsing
<1> HIDE DEF n
<1>3. ASSUME NEW k \in 0..n, k \in T, k < n PROVE k + 1 \in T
  <2>1. k + 1 \in 1..n /\ (k + 1) - 1 = k /\ k + 1 \in 0..n
    BY <1>1, <1>3
  <2>2. loop[k + 1] = ParseFlag(a, loop[k])
    BY <1>1, <2>1
  <2> QED
    BY <1>3, <2>1, <2>2, ParseFlagType
<1>4. n \in T
  <2> HIDE DEF T
  <2>1. \A k \in 0..n : k \in T
    BY <1>1, <1>2, <1>3, Upward
  <2> QED
    BY <1>1, <2>1
<1>5. PICK ok, end : \E at \in 1..(n + 1) :
         Complete(end) /\ loop[n] = [ok |-> ok, at |-> at, cfg |-> end]
  BY <1>4 DEF Parsing, n
<1>6. PICK at \in 1..(n + 1) :
         Complete(end) /\ loop[n] = [ok |-> ok, at |-> at, cfg |-> end]
  BY <1>5
<1>7. parseGlobalFlags(a, cfg) = [ok |-> ok, cfg |-> end, rest |-> SubSeq(a, at, Len(a))]
  BY <1>6 DEF parseGlobalFlags, n, loop
<1>8. SubSeq(a, at, Len(a)) \in Seq(Values)
  <2>1. Len(a) \in 0..Len(a)
    BY LenProperties
  <2> QED
    BY <1>6, <2>1, Piece DEF n
<1> QED
  BY <1>6, <1>7, <1>8

\* The configuration that the parser begins with.
LEMMA DefaultsComplete == Complete(defaultConfig)
<1>1. DefaultPaths \in Seq(Values)
  BY FlagsAssumption, SeqMonotonic DEF Values
<1> QED
  BY <1>1 DEF Complete, Configs, defaultConfig, Values

\* The configuration of a command, however its arguments look.
LEMMA ExecuteType ==
  ASSUME NEW a \in Seq(Texts)
  PROVE  Complete(Execute(a).cfg)
<1> DEFINE first == parseGlobalFlags(a, defaultConfig)
           second == parseGlobalFlags(Tail(first.rest), first.cfg)
<1>1. a \in Seq(Values)
  BY SeqMonotonic DEF Values
<1>2. Complete(first.cfg) /\ first.rest \in Seq(Values)
  BY <1>1, DefaultsComplete, ParsedType
<1>3. CASE ~ first.ok \/ first.rest = <<>>
  <2>1. Execute(a).cfg = defaultConfig
    BY <1>3 DEF Execute
  <2> QED
    BY <2>1, DefaultsComplete
<1>4. CASE first.ok /\ first.rest # <<>>
  <2>1. Execute(a).cfg = second.cfg
    BY <1>4 DEF Execute
  <2> HIDE DEF first
  <2>2. Tail(first.rest) \in Seq(Values)
    BY <1>2, <1>4, HeadTailProperties
  <2>3. Complete(second.cfg)
    BY <1>2, <2>2, ParsedType
  <2> QED
    BY <2>1, <2>3
<1> QED
  BY <1>3, <1>4

-----------------------------------------------------------------------------
(* The arguments of the daemon.                                            *)

\* CustomPaths, one path after another.
LEMMA CustomPathsIs ==
  ASSUME NEW S, NEW paths \in Seq(S)
  PROVE  /\ CustomPaths(paths)[0] = <<>>
         /\ \A i \in 1..Len(paths) :
               CustomPaths(paths)[i] = IF IsDefault(paths[i]) THEN CustomPaths(paths)[i - 1]
                                       ELSE Append(CustomPaths(paths)[i - 1], paths[i])
<1> DEFINE n == Len(paths)
           Longer(c, i) == IF IsDefault(paths[i]) THEN c ELSE Append(c, paths[i])
           Eq(f, k) == f = [i \in 0..k |-> IF i = 0 THEN <<>>
                                           ELSE IF IsDefault(paths[i]) THEN f[i - 1]
                                           ELSE Append(f[i - 1], paths[i])]
           T == {k \in Nat : \E f : Eq(f, k)}
<1>1. n \in Nat
  BY LenProperties
<1>2. 0 \in T
  <2>1. Eq([i \in 0..0 |-> <<>>], 0)
    OBVIOUS
  <2> HIDE DEF Eq
  <2> QED
    BY <2>1
<1>3. ASSUME NEW k \in T PROVE k + 1 \in T
  <2>1. PICK f : Eq(f, k)
    OBVIOUS
  <2> DEFINE g == [i \in 0..(k + 1) |-> IF i = k + 1 THEN Longer(f[k], k + 1) ELSE f[i]]
  <2>2. \A i \in 0..(k + 1) : g[i] = IF i = 0 THEN <<>> ELSE Longer(g[i - 1], i)
    <3> HIDE DEF Longer
    <3>1. SUFFICES ASSUME NEW i \in 0..(k + 1)
                   PROVE  g[i] = IF i = 0 THEN <<>> ELSE Longer(g[i - 1], i)
      OBVIOUS
    <3>2. CASE i = k + 1
      BY <3>2
    <3>3. CASE i # k + 1
      <4>1. i \in 0..k /\ (i # 0 => i - 1 \in 0..k /\ i - 1 \in 0..(k + 1) /\ i - 1 # k + 1)
        BY <3>3
      <4>2. f[i] = IF i = 0 THEN <<>> ELSE Longer(f[i - 1], i)
        BY <2>1, <4>1 DEF Longer
      <4> QED
        BY <3>3, <4>1, <4>2
    <3> QED
      BY <3>2, <3>3
  <2>3. Eq(g, k + 1)
    <3>1. g = [i \in 0..(k + 1) |-> g[i]]
      OBVIOUS
    <3> HIDE DEF g
    <3> QED
      BY <2>2, <3>1
  <2> HIDE DEF g, Eq
  <2> QED
    BY <2>3
<1>4. n \in T
  <2> HIDE DEF T, n
  <2>1. \A k \in 0..n : k \in T
    BY <1>1, <1>2, <1>3, Upward
  <2> QED
    BY <1>1, <2>1
<1> DEFINE m == CHOOSE f : Eq(f, n)
<1>5. Eq(m, n)
  <2>1. PICK f : Eq(f, n)
    BY <1>4
  <2> HIDE DEF Eq
  <2> QED
    BY <2>1
<1>6. CustomPaths(paths) = m
  BY DEF CustomPaths
<1> HIDE DEF m
<1>7. /\ m[0] = <<>>
      /\ \A i \in 1..n : m[i] = IF IsDefault(paths[i]) THEN m[i - 1]
                                ELSE Append(m[i - 1], paths[i])
  <2>1. m = [i \in 0..n |-> IF i = 0 THEN <<>> ELSE Longer(m[i - 1], i)]
    BY <1>5
  <2> HIDE DEF Longer
  <2>2. m[0] = <<>> /\ \A i \in 1..n : m[i] = Longer(m[i - 1], i)
    BY <1>1, <2>1
  <2> QED
    BY <2>2 DEF Longer
<1> QED
  BY <1>6, <1>7

\* The paths that the daemon is given are those that are no defaults.
LEMMA CustomIs ==
  ASSUME NEW S, NEW paths \in Seq(S)
  PROVE  /\ customIgnorePaths(paths) \in Seq(S)
         /\ PathsIn(customIgnorePaths(paths)) = PathsIn(paths) \ PathsIn(DefaultPaths)
<1> DEFINE n == Len(paths)
           c == CustomPaths(paths)
           T == {k \in 0..n : /\ c[k] \in Seq(S)
                              /\ PathsIn(c[k]) = {paths[i] : i \in 1..k} \ PathsIn(DefaultPaths)}
<1>1. n \in Nat /\ DOMAIN paths = 1..n
  BY LenProperties
<1>2. /\ c[0] = <<>>
      /\ \A i \in 1..n : c[i] = IF IsDefault(paths[i]) THEN c[i - 1]
                                ELSE Append(c[i - 1], paths[i])
  BY CustomPathsIs
<1> HIDE DEF n, c
<1>3. 0 \in T
  <2>1. c[0] \in Seq(S) /\ PathsIn(c[0]) = {}
    BY <1>2, EmptySeq DEF PathsIn
  <2>2. 1..0 = {} /\ 0 \in 0..n
    BY <1>1
  <2> QED
    BY <2>1, <2>2
<1>4. ASSUME NEW k \in 0..n, k \in T, k < n PROVE k + 1 \in T
  <2>1. /\ k + 1 \in 1..n /\ (k + 1) - 1 = k /\ k + 1 \in 0..n
        /\ 1..(k + 1) = 1..k \cup {k + 1}
    BY <1>1, <1>4
  <2>2. /\ c[k] \in Seq(S) /\ paths[k + 1] \in S
        /\ PathsIn(c[k]) = {paths[i] : i \in 1..k} \ PathsIn(DefaultPaths)
    BY <1>4, <2>1, ElementOfSeq DEF n
  <2>3. {paths[i] : i \in 1..(k + 1)} = {paths[i] : i \in 1..k} \cup {paths[k + 1]}
    BY <2>1
  <2>4. IsDefault(paths[k + 1]) <=> paths[k + 1] \in PathsIn(DefaultPaths)
    BY DEF IsDefault, PathsIn
  <2>5. CASE IsDefault(paths[k + 1])
    <3>1. c[k + 1] = c[k]
      BY <1>2, <2>1, <2>5
    <3> QED
      BY <2>1, <2>2, <2>3, <2>4, <2>5, <3>1
  <2>6. CASE ~ IsDefault(paths[k + 1])
    <3>1. c[k + 1] = Append(c[k], paths[k + 1])
      BY <1>2, <2>1, <2>6
    <3>2. c[k + 1] \in Seq(S) /\ PathsIn(c[k + 1]) = PathsIn(c[k]) \cup {paths[k + 1]}
      BY <2>2, <3>1, AnotherPath
    <3> QED
      BY <2>1, <2>2, <2>3, <2>4, <2>6, <3>2
  <2> QED
    BY <2>5, <2>6
<1>5. n \in T
  <2> HIDE DEF T
  <2>1. \A k \in 0..n : k \in T
    BY <1>1, <1>3, <1>4, Upward
  <2> QED
    BY <1>1, <2>1
<1>6. {paths[i] : i \in 1..n} = PathsIn(paths)
  BY <1>1 DEF PathsIn
<1> QED
  BY <1>5, <1>6 DEF customIgnorePaths, n, c

\* The texts that daemonArgs writes are values.
LEMMA WordsAreValues ==
  /\ "--db" \in Values /\ "--pidfile" \in Values /\ "--ignore-path" \in Values
  /\ "daemon" \in Values /\ "--foreground" \in Values
<1>1. \A w \in Words : w \in Values
  BY DEF Values
<1> QED
  BY <1>1 DEF Words

\* Each path to ignore behind a flag of its own.
LEMMA IgnoreArgsIs ==
  ASSUME NEW paths \in Seq(Values)
  PROVE  /\ IgnoreArgs(paths) \in Seq(Values)
         /\ Len(IgnoreArgs(paths)) = 2 * Len(paths)
         /\ \A j \in 1..Len(paths) : /\ IgnoreArgs(paths)[2 * j - 1] = "--ignore-path"
                                     /\ IgnoreArgs(paths)[2 * j] = paths[j]
<1> DEFINE n == Len(paths)
           g == IgnoreArgs(paths)
<1>1. n \in Nat /\ 2 * n \in Nat
  BY LenProperties
<1>2. g = [i \in 1..(2 * n) |-> IF i % 2 = 1 THEN "--ignore-path" ELSE paths[i \div 2]]
  BY DEF IgnoreArgs
<1>3. \A i \in 1..n : paths[i] \in Values
  BY ElementOfSeq
<1> HIDE DEF n, g
<1>4. ASSUME NEW i \in 1..(2 * n) PROVE g[i] \in Values
  <2>1. CASE i % 2 = 1
    <3>1. "--ignore-path" \in Values
      BY WordsAreValues
    <3> QED
      BY <1>2, <2>1, <3>1
  <2>2. CASE i % 2 # 1
    <3>1. i \div 2 \in 1..n
      BY <1>1, <2>2
    <3> QED
      BY <1>2, <1>3, <2>2, <3>1
  <2> QED
    BY <2>1, <2>2
<1>5. g \in [1..(2 * n) -> Values]
  BY <1>2, <1>4
<1>6. g \in Seq(Values)
  BY <1>1, <1>5, SeqDef
<1>7. Len(g) = 2 * n
  <2>1. Len(g) \in Nat /\ DOMAIN g = 1..Len(g) /\ DOMAIN g = 1..(2 * n)
    BY <1>5, <1>6, LenProperties
  <2>2. /\ Len(g) # 0 => Len(g) \in 1..(2 * n)
        /\ 2 * n # 0 => 2 * n \in 1..Len(g)
    <3>1. /\ Len(g) # 0 => Len(g) \in 1..Len(g)
          /\ 2 * n # 0 => 2 * n \in 1..(2 * n)
      BY <1>1, <2>1
    <3> QED
      BY <2>1, <3>1
  <2>3. Len(g) \in Nat
    BY <2>1
  <2> QED
    BY <1>1, <2>2, <2>3
<1>8. ASSUME NEW j \in 1..n
      PROVE  g[2 * j - 1] = "--ignore-path" /\ g[2 * j] = paths[j]
  <2>1. /\ 2 * j - 1 \in 1..(2 * n) /\ (2 * j - 1) % 2 = 1
        /\ 2 * j \in 1..(2 * n) /\ (2 * j) % 2 # 1 /\ (2 * j) \div 2 = j
    BY <1>1
  <2> QED
    BY <1>2, <2>1
<1> QED
  BY <1>6, <1>7, <1>8 DEF n, g

\* The arguments of the daemon, place by place.
LEMMA DaemonArgsIs ==
  ASSUME NEW cfg \in Configs
  PROVE  LET c == customIgnorePaths(cfg.ignore)
             k == Len(c)
             a == daemonArgs(cfg)
         IN  /\ a \in Seq(Values)
             /\ Len(a) = 2 * k + 6
             /\ a[1] = "--db" /\ a[2] = cfg.db
             /\ a[3] = "--pidfile" /\ a[4] = cfg.pidfile
             /\ \A j \in 1..k : a[2 * j + 3] = "--ignore-path" /\ a[2 * j + 4] = c[j]
             /\ a[2 * k + 5] = "daemon" /\ a[2 * k + 6] = "--foreground"
<1> DEFINE c == customIgnorePaths(cfg.ignore)
           k == Len(c)
           x == <<"--db", cfg.db, "--pidfile", cfg.pidfile>>
           y == IgnoreArgs(c)
           z == <<"daemon", "--foreground">>
           a == daemonArgs(cfg)
<1>1. /\ cfg.db \in Values /\ cfg.pidfile \in Values
      /\ c \in Seq(Values)
      /\ "--db" \in Values /\ "--pidfile" \in Values /\ "daemon" \in Values
      /\ "--foreground" \in Values
  <2>1. cfg.db \in Values /\ cfg.pidfile \in Values /\ cfg.ignore \in Seq(Values)
    BY DEF Configs
  <2> QED
    <3>1. c \in Seq(Values)
      BY <2>1, CustomIs
    <3> QED
      BY <2>1, <3>1, WordsAreValues
<1>2. k \in Nat /\ y \in Seq(Values) /\ Len(y) = 2 * k
      /\ \A j \in 1..k : y[2 * j - 1] = "--ignore-path" /\ y[2 * j] = c[j]
  BY <1>1, LenProperties, IgnoreArgsIs
<1>3. x \in Seq(Values) /\ Len(x) = 4 /\ z \in Seq(Values) /\ Len(z) = 2
  BY <1>1
<1>4. x[1] = "--db" /\ x[2] = cfg.db /\ x[3] = "--pidfile" /\ x[4] = cfg.pidfile
      /\ z[1] = "daemon" /\ z[2] = "--foreground"
  OBVIOUS
<1>5. a = (x \o y) \o z
  BY DEF daemonArgs
<1> HIDE DEF c, k, x, y, z, a
<1>6. /\ x \o y \in Seq(Values) /\ Len(x \o y) = 2 * k + 4
      /\ \A i \in 1..(2 * k + 4) : (x \o y)[i] = IF i <= 4 THEN x[i] ELSE y[i - 4]
  <2>1. /\ x \o y \in Seq(Values) /\ Len(x \o y) = Len(x) + Len(y)
        /\ \A i \in 1..(Len(x) + Len(y)) : (x \o y)[i] = IF i <= Len(x) THEN x[i] ELSE y[i - Len(x)]
    BY <1>2, <1>3, ConcatProperties
  <2>2. Len(x) + Len(y) = 2 * k + 4
    BY <1>2, <1>3
  <2> QED
    BY <1>3, <2>1, <2>2
<1>7. /\ a \in Seq(Values) /\ Len(a) = 2 * k + 6
      /\ \A i \in 1..(2 * k + 6) :
            a[i] = IF i <= 2 * k + 4 THEN (x \o y)[i] ELSE z[i - (2 * k + 4)]
  <2> DEFINE w == x \o y
  <2>1. w \in Seq(Values) /\ Len(w) = 2 * k + 4 /\ a = w \o z
    BY <1>5, <1>6
  <2> HIDE DEF w
  <2>2. /\ w \o z \in Seq(Values) /\ Len(w \o z) = Len(w) + Len(z)
        /\ \A i \in 1..(Len(w) + Len(z)) : (w \o z)[i] = IF i <= Len(w) THEN w[i] ELSE z[i - Len(w)]
    <3>1. w \in Seq(Values) /\ z \in Seq(Values)
      BY <1>3, <2>1
    <3> QED
      BY <3>1, ConcatProperties
  <2>3. Len(w) + Len(z) = 2 * k + 6
    BY <1>2, <1>3, <2>1
  <2>4. /\ a \in Seq(Values) /\ Len(a) = 2 * k + 6
        /\ \A i \in 1..(2 * k + 6) : a[i] = IF i <= 2 * k + 4 THEN w[i] ELSE z[i - (2 * k + 4)]
    BY <2>1, <2>2, <2>3
  <2> QED
    BY <2>4 DEF w
<1>8. ASSUME NEW i \in 1..4 PROVE a[i] = x[i]
  <2>1. i \in 1..(2 * k + 6) /\ i \in 1..(2 * k + 4) /\ i <= 2 * k + 4 /\ i <= 4
    BY <1>2
  <2> QED
    BY <1>6, <1>7, <2>1
<1>9. ASSUME NEW j \in 1..k
      PROVE  a[2 * j + 3] = "--ignore-path" /\ a[2 * j + 4] = c[j]
  <2>1. /\ 2 * j + 3 \in 1..(2 * k + 6) /\ 2 * j + 3 \in 1..(2 * k + 4)
        /\ 2 * j + 3 <= 2 * k + 4 /\ ~ (2 * j + 3 <= 4) /\ (2 * j + 3) - 4 = 2 * j - 1
        /\ 2 * j + 4 \in 1..(2 * k + 6) /\ 2 * j + 4 \in 1..(2 * k + 4)
        /\ 2 * j + 4 <= 2 * k + 4 /\ ~ (2 * j + 4 <= 4) /\ (2 * j + 4) - 4 = 2 * j
    BY <1>2
  <2>2. a[2 * j + 3] = y[2 * j - 1] /\ a[2 * j + 4] = y[2 * j]
    BY <1>6, <1>7, <2>1
  <2> QED
    BY <1>2, <2>2
<1>10. a[2 * k + 5] = z[1] /\ a[2 * k + 6] = z[2]
  <2>1. /\ 2 * k + 5 \in 1..(2 * k + 6) /\ ~ (2 * k + 5 <= 2 * k + 4)
        /\ (2 * k + 5) - (2 * k + 4) = 1
        /\ 2 * k + 6 \in 1..(2 * k + 6) /\ ~ (2 * k + 6 <= 2 * k + 4)
        /\ (2 * k + 6) - (2 * k + 4) = 2
    BY <1>2
  <2> QED
    BY <1>7, <2>1
<1>11. a[1] = "--db" /\ a[2] = cfg.db /\ a[3] = "--pidfile" /\ a[4] = cfg.pidfile
  BY <1>4, <1>8
<1> QED
  BY <1>4, <1>7, <1>9, <1>10, <1>11 DEF c, k, a

\* A flag of daemonArgs takes what follows it.
LEMMA TakesNext ==
  ASSUME NEW a \in Seq(Values), NEW at \in Nat, 1 <= at, at < Len(a), NEW cfg,
         a[at] \in {"--db", "--pidfile", "--ignore-path"}
  PROVE  ParseFlag(a, [ok |-> TRUE, at |-> at, cfg |-> cfg])
            = [ok |-> TRUE, at |-> at + 2, cfg |-> Set(cfg, Flags[a[at]].name, a[at + 1])]
<1> DEFINE p == [ok |-> TRUE, at |-> at, cfg |-> cfg]
           flag == splitFlag(a[p.at])
           isLast == p.at = Len(a)
<1>1. Len(a) \in Nat /\ p.at = at /\ p.ok = TRUE /\ p.cfg = cfg
  BY LenProperties
<1>2. flag = Flags[a[at]] /\ flag.name \in Valued /\ ~ flag.hasValue
  BY FlagsAssumption DEF splitFlag, Valued
<1>3. flag.name # "json" /\ ~ isLast /\ ~ (p.at > Len(a))
  BY <1>1, <1>2 DEF Valued
<1>4. ParseFlag(a, p) = [p EXCEPT !.cfg = Set(@, flag.name, a[p.at + 1]), !.at = @ + 2]
  BY <1>1, <1>2, <1>3 DEF ParseFlag
<1> HIDE DEF flag
<1>5. ParseFlag(a, p) = [ok |-> TRUE, at |-> at + 2, cfg |-> Set(cfg, flag.name, a[at + 1])]
  BY <1>4
<1> QED
  BY <1>2, <1>5

\* The daemon comes by the configuration that its arguments were made of.
LEMMA DaemonReads ==
  ASSUME NEW cfg, Complete(cfg)
  PROVE  LET daemon == Execute(daemonArgs(cfg))
         IN  /\ daemon.ok /\ daemon.command = "daemon" /\ daemon.rest = <<"--foreground">>
             /\ daemon.cfg.db = cfg.db /\ daemon.cfg.pidfile = cfg.pidfile
             /\ PathsIn(daemon.cfg.ignore) = PathsIn(cfg.ignore)
<1> DEFINE c == customIgnorePaths(cfg.ignore)
           k == Len(c)
           a == daemonArgs(cfg)
           loop == ParseLoop(a, defaultConfig)
           read(ig) == [db |-> cfg.db, pidfile |-> cfg.pidfile, ignore |-> ig]
           Read(j, ig) == /\ ig \in Seq(Values)
                          /\ PathsIn(ig) = PathsIn(DefaultPaths) \cup {c[i] : i \in 1..j}
                          /\ loop[j + 2] = [ok |-> TRUE, at |-> 2 * j + 5, cfg |-> read(ig)]
           T == {j \in 0..k : \E ig : Read(j, ig)}
           b == <<"--foreground">>
<1>1. /\ cfg \in Configs /\ cfg.ignore \in Seq(Values)
      /\ PathsIn(DefaultPaths) \subseteq PathsIn(cfg.ignore)
  BY DEF Complete, Configs
<1>2. /\ a \in Seq(Values) /\ Len(a) = 2 * k + 6
      /\ a[1] = "--db" /\ a[2] = cfg.db
      /\ a[3] = "--pidfile" /\ a[4] = cfg.pidfile
      /\ \A j \in 1..k : a[2 * j + 3] = "--ignore-path" /\ a[2 * j + 4] = c[j]
      /\ a[2 * k + 5] = "daemon" /\ a[2 * k + 6] = "--foreground"
  BY <1>1, DaemonArgsIs
<1>3. /\ c \in Seq(Values) /\ k \in Nat /\ DOMAIN c = 1..k
      /\ PathsIn(c) = PathsIn(cfg.ignore) \ PathsIn(DefaultPaths)
      /\ \A j \in 1..k : c[j] \in Values
  BY <1>1, CustomIs, LenProperties, ElementOfSeq
<1> HIDE DEF c, k, a
<1>4. /\ loop[0] = [ok |-> TRUE, at |-> 1, cfg |-> defaultConfig]
      /\ \A i \in 1..(2 * k + 6) : loop[i] = ParseFlag(a, loop[i - 1])
  BY <1>2, ParseLoopIs
<1> HIDE DEF loop
\* Two iterations for the database and the pid file.
<1>5. 0 \in T
  <2>1. loop[1] = [ok |-> TRUE, at |-> 3, cfg |-> Set(defaultConfig, "db", cfg.db)]
    <3>1. 1 \in 1..(2 * k + 6) /\ 1 - 1 = 0 /\ 1 < Len(a) /\ 1 + 2 = 3 /\ 1 + 1 = 2
      BY <1>2, <1>3
    <3>2. loop[1] = ParseFlag(a, [ok |-> TRUE, at |-> 1, cfg |-> defaultConfig])
      BY <1>4, <3>1
    <3>3. ParseFlag(a, [ok |-> TRUE, at |-> 1, cfg |-> defaultConfig])
             = [ok |-> TRUE, at |-> 1 + 2,
                cfg |-> Set(defaultConfig, Flags[a[1]].name, a[1 + 1])]
      BY <1>2, <3>1, TakesNext
    <3>4. Flags[a[1]].name = "db"
      BY <1>2, FlagsAssumption
    <3> QED
      BY <1>2, <3>1, <3>2, <3>3, <3>4
  <2> DEFINE one == Set(defaultConfig, "db", cfg.db)
  <2>2. loop[2] = [ok |-> TRUE, at |-> 5, cfg |-> Set(one, "pidfile", cfg.pidfile)]
    <3> HIDE DEF one
    <3>1. 2 \in 1..(2 * k + 6) /\ 2 - 1 = 1 /\ 3 < Len(a) /\ 3 + 2 = 5 /\ 3 + 1 = 4
          /\ 3 \in Nat
      BY <1>2, <1>3
    <3>2. loop[2] = ParseFlag(a, [ok |-> TRUE, at |-> 3, cfg |-> one])
      BY <1>4, <2>1, <3>1 DEF one
    <3>3. ParseFlag(a, [ok |-> TRUE, at |-> 3, cfg |-> one])
             = [ok |-> TRUE, at |-> 3 + 2, cfg |-> Set(one, Flags[a[3]].name, a[3 + 1])]
      BY <1>2, <3>1, TakesNext
    <3>4. Flags[a[3]].name = "pidfile"
      BY <1>2, FlagsAssumption
    <3> QED
      BY <1>2, <3>1, <3>2, <3>3, <3>4
  <2>3. Set(one, "pidfile", cfg.pidfile) = read(DefaultPaths)
    BY DEF Set, defaultConfig
  <2>4. DefaultPaths \in Seq(Values)
    BY DefaultsComplete DEF Complete, Configs, defaultConfig
  <2>5. 0 \in 0..k /\ 1..0 = {} /\ 0 + 2 = 2 /\ 2 * 0 + 5 = 5
    BY <1>3
  <2> HIDE DEF one, read
  <2>6. Read(0, DefaultPaths)
    BY <2>2, <2>3, <2>4, <2>5
  <2> HIDE DEF Read
  <2> QED
    BY <2>5, <2>6
\* One for each path.
<1>6. ASSUME NEW j \in 0..k, j \in T, j < k PROVE j + 1 \in T
  <2>1. PICK ig : Read(j, ig)
    BY <1>6
  <2> DEFINE longer == Append(ig, c[j + 1])
             at == 2 * j + 5
  <2>2. /\ j + 1 \in 1..k /\ j + 1 \in 0..k /\ 1..(j + 1) = 1..j \cup {j + 1}
        /\ 2 * (j + 1) + 3 = at /\ 2 * (j + 1) + 4 = at + 1 /\ 2 * (j + 1) + 5 = at + 2
        /\ at \in Nat /\ 1 <= at /\ at < 2 * k + 6
        /\ j + 3 \in 1..(2 * k + 6) /\ (j + 3) - 1 = j + 2 /\ (j + 1) + 2 = j + 3
    BY <1>3, <1>6
  <2> HIDE DEF at
  <2>3. a[at] = "--ignore-path" /\ a[at + 1] = c[j + 1]
    BY <1>2, <2>2
  <2>4. loop[j + 3] = ParseFlag(a, [ok |-> TRUE, at |-> at, cfg |-> read(ig)])
    BY <1>4, <2>1, <2>2 DEF at
  <2>5. ParseFlag(a, [ok |-> TRUE, at |-> at, cfg |-> read(ig)])
           = [ok |-> TRUE, at |-> at + 2, cfg |-> Set(read(ig), Flags[a[at]].name, a[at + 1])]
    <3>1. a \in Seq(Values) /\ at \in Nat /\ 1 <= at
      BY <1>2, <2>2
    <3>2. at < Len(a)
      BY <1>2, <2>2
    <3>3. a[at] \in {"--db", "--pidfile", "--ignore-path"}
      BY <2>3
    <3> HIDE DEF read
    <3> QED
      BY <3>1, <3>2, <3>3, TakesNext
  <2>6. Flags[a[at]].name = "ignore-path"
    BY <2>3, FlagsAssumption
  <2>7. Set(read(ig), "ignore-path", c[j + 1]) = read(longer)
    BY DEF Set
  <2>8. loop[j + 3] = [ok |-> TRUE, at |-> at + 2, cfg |-> read(longer)]
    <3> HIDE DEF read, longer
    <3> QED
      BY <2>3, <2>4, <2>5, <2>6, <2>7
  <2>9. /\ longer \in Seq(Values)
        /\ PathsIn(longer) = PathsIn(DefaultPaths) \cup {c[i] : i \in 1..(j + 1)}
    <3>1. ig \in Seq(Values) /\ PathsIn(ig) = PathsIn(DefaultPaths) \cup {c[i] : i \in 1..j}
      BY <2>1
    <3>2. longer \in Seq(Values) /\ PathsIn(longer) = PathsIn(ig) \cup {c[j + 1]}
      <4>1. c[j + 1] \in Values /\ ig \in Seq(Values)
        BY <1>3, <2>2, <3>1
      <4> QED
        BY <4>1, AnotherPath
    <3>3. {c[i] : i \in 1..(j + 1)} = {c[i] : i \in 1..j} \cup {c[j + 1]}
      BY <2>2
    <3> QED
      BY <3>1, <3>2, <3>3
  <2>10. Read(j + 1, longer)
    <3> HIDE DEF read, longer
    <3> QED
      BY <2>2, <2>8, <2>9
  <2> HIDE DEF Read, longer
  <2> QED
    BY <2>2, <2>10
<1>7. k \in T
  <2> HIDE DEF T
  <2>1. \A j \in 0..k : j \in T
    BY <1>3, <1>5, <1>6, Upward
  <2> QED
    BY <1>3, <2>1
<1>8. PICK ig : Read(k, ig)
  BY <1>7
<1> DEFINE end == [ok |-> TRUE, at |-> 2 * k + 5, cfg |-> read(ig)]
\* At the command the loop stays where it is.
<1>9. loop[2 * k + 6] = end
  <2> DEFINE U == {i \in (k + 2)..(2 * k + 6) : loop[i] = end}
  <2>1. k + 2 \in U
    BY <1>3, <1>8
  <2>2. ParseFlag(a, end) = end
    <3>1. a[end.at] = "daemon"
      BY <1>2
    <3>2. splitFlag(a[end.at]).name = ""
      BY <3>1, FlagsAssumption DEF splitFlag
    <3>3. splitFlag(a[end.at]).name \notin Valued \cup {"json"}
      BY <3>2 DEF Valued
    <3> HIDE DEF end
    <3> QED
      BY <3>3 DEF ParseFlag
  <2>3. ASSUME NEW i \in (k + 2)..(2 * k + 6), i \in U, i < 2 * k + 6 PROVE i + 1 \in U
    <3>1. i + 1 \in (k + 2)..(2 * k + 6) /\ i + 1 \in 1..(2 * k + 6) /\ (i + 1) - 1 = i
      BY <1>3, <2>3
    <3> HIDE DEF end
    <3>2. loop[i + 1] = ParseFlag(a, loop[i])
      BY <1>4, <3>1
    <3> QED
      BY <2>2, <2>3, <3>1, <3>2
  <2>4. k + 2 \in Nat /\ 2 * k + 6 \in Nat /\ 2 * k + 6 \in (k + 2)..(2 * k + 6)
    BY <1>3
  <2> HIDE DEF U
  <2>5. \A i \in (k + 2)..(2 * k + 6) : i \in U
    <3>1. \A i \in (k + 2)..(2 * k + 6) : i \in U /\ i < 2 * k + 6 => i + 1 \in U
      BY <2>3
    <3> DEFINE lo == k + 2
               hi == 2 * k + 6
    <3>2. lo \in Nat /\ hi \in Nat /\ lo \in U
          /\ \A i \in lo..hi : i \in U /\ i < hi => i + 1 \in U
      BY <2>1, <2>4, <3>1
    <3> HIDE DEF lo, hi
    <3>3. \A i \in lo..hi : i \in U
      BY <3>2, Upward
    <3> QED
      BY <3>3 DEF lo, hi
  <2> QED
    BY <2>4, <2>5 DEF U
<1> DEFINE first == parseGlobalFlags(a, defaultConfig)
           second == parseGlobalFlags(Tail(first.rest), first.cfg)
<1>10. first.ok /\ first.cfg = read(ig) /\ first.rest = <<"daemon", "--foreground">>
  <2>1. first = [ok |-> TRUE, cfg |-> read(ig), rest |-> SubSeq(a, 2 * k + 5, Len(a))]
    <3> HIDE DEF read
    <3> QED
      BY <1>2, <1>9 DEF parseGlobalFlags, loop
  <2>2. SubSeq(a, 2 * k + 5, Len(a)) = <<"daemon", "--foreground">>
    <3> DEFINE rest == SubSeq(a, 2 * k + 5, Len(a))
               two == <<"daemon", "--foreground">>
    <3>1. /\ rest \in Seq(Values) /\ Len(rest) = 2
          /\ \A i \in 1..2 : rest[i] = a[2 * k + 5 + i - 1]
      <4>1. /\ 2 * k + 5 \in 1..(Len(a) + 1) /\ Len(a) \in 0..Len(a)
            /\ 2 * k + 5 <= Len(a) /\ Len(a) - (2 * k + 5) + 1 = 2
        BY <1>2, <1>3
      <4> QED
        BY <1>2, <4>1, Piece
    <3> HIDE DEF rest
    <3>2. rest[1] = "daemon" /\ rest[2] = "--foreground"
      <4>1. 2 * k + 5 + 1 - 1 = 2 * k + 5 /\ 2 * k + 5 + 2 - 1 = 2 * k + 6
        BY <1>3
      <4> QED
        BY <1>2, <3>1, <4>1
    <3>3. two \in Seq(Values) /\ Len(two) = 2 /\ two[1] = "daemon" /\ two[2] = "--foreground"
      BY WordsAreValues
    <3> HIDE DEF two
    <3>4. \A i \in 1..2 : rest[i] = two[i]
      BY <3>2, <3>3
    <3>5. rest = two
      BY <3>1, <3>3, <3>4, SeqEqual
    <3> QED
      BY <3>5 DEF rest, two
  <2> HIDE DEF read
  <2> QED
    BY <2>1, <2>2
\* And once more behind the command.
<1>11. second.ok /\ second.cfg = read(ig) /\ second.rest = b
  <2> DEFINE start == [ok |-> TRUE, at |-> 1, cfg |-> read(ig)]
  <2> HIDE DEF read, first
  <2>1. Tail(first.rest) = b
    BY <1>10
  <2>2. b \in Seq(Values) /\ Len(b) = 1 /\ b[1] = "--foreground"
    BY WordsAreValues
  <2>3. ParseLoop(b, read(ig))[0] = start
        /\ ParseLoop(b, read(ig))[1] = ParseFlag(b, ParseLoop(b, read(ig))[0])
    <3>1. 1 \in 1..Len(b) /\ 1 - 1 = 0 /\ b \in Seq(Values)
      BY <2>2
    <3> HIDE DEF b
    <3>2. /\ ParseLoop(b, read(ig))[0] = start
          /\ \A i \in 1..Len(b) :
                ParseLoop(b, read(ig))[i] = ParseFlag(b, ParseLoop(b, read(ig))[i - 1])
      BY <3>1, ParseLoopIs
    <3> QED
      BY <3>1, <3>2
  <2>4. ParseFlag(b, start) = start
    <3>1. splitFlag(b[start.at]).name \in {"", "foreground"}
      BY <2>2, FlagsAssumption DEF splitFlag
    <3>2. splitFlag(b[start.at]).name \notin Valued \cup {"json"}
      BY <3>1 DEF Valued
    <3> HIDE DEF start
    <3> QED
      BY <3>2 DEF ParseFlag
  <2>5. second = parseGlobalFlags(b, read(ig))
    BY <1>10, <2>1
  <2>6. ParseLoop(b, read(ig))[Len(b)] = start
    <3> HIDE DEF start, b
    <3> QED
      BY <2>2, <2>3, <2>4
  <2>7. parseGlobalFlags(b, read(ig))
           = [ok |-> TRUE, cfg |-> read(ig), rest |-> SubSeq(b, 1, Len(b))]
    <3> HIDE DEF b
    <3> QED
      BY <2>6 DEF parseGlobalFlags
  <2>8. SubSeq(b, 1, Len(b)) = b
    <3>1. 1 \in 1..(Len(b) + 1) /\ Len(b) \in 0..Len(b) /\ b \in Seq(Values) /\ Len(b) = 1
      BY <2>2
    <3> HIDE DEF b
    <3>2. /\ SubSeq(b, 1, Len(b)) \in Seq(Values)
          /\ Len(SubSeq(b, 1, Len(b))) = Len(b)
          /\ \A i \in 1..Len(b) : SubSeq(b, 1, Len(b))[i] = b[i]
      <4>1. /\ SubSeq(b, 1, Len(b)) \in Seq(Values)
            /\ Len(SubSeq(b, 1, Len(b))) = IF 1 <= Len(b) THEN Len(b) - 1 + 1 ELSE 0
            /\ \A i \in 1..(Len(b) - 1 + 1) : SubSeq(b, 1, Len(b))[i] = b[1 + i - 1]
        BY <3>1, Piece
      <4> QED
        BY <3>1, <4>1
    <3> QED
      BY <3>1, <3>2, SeqEqual
  <2> QED
    BY <2>5, <2>7, <2>8
<1>12. Execute(a) = [ok |-> second.ok, command |-> first.rest[1], cfg |-> second.cfg,
                     rest |-> second.rest]
  <2>1. first.rest # <<>>
    <3> HIDE DEF first
    <3> QED
      BY <1>10
  <2> QED
    BY <1>10, <2>1 DEF Execute
<1>13. PathsIn(ig) = PathsIn(cfg.ignore)
  <2>1. {c[i] : i \in 1..k} = PathsIn(c)
    BY <1>3 DEF PathsIn
  <2> QED
    BY <1>1, <1>3, <1>8, <2>1
<1> HIDE DEF first, second
<1> QED
  BY <1>10, <1>11, <1>12, <1>13 DEF a

-----------------------------------------------------------------------------
(* The states of a command.                                                *)

\* The parts of the invariant, of values instead of variables.
AnswersOnce(out, started, result) ==
    LET answers == {i \in DOMAIN out : out[i] # "partial"}
    IN  /\ result = "ok" <=> answers # {} \/ started # <<>>
        /\ answers \subseteq {Len(out)}

Nothing(out) == \A i \in DOMAIN out : out[i] = "partial"

\* Nothing printed is an answer.
LEMMA NoAnswer ==
  ASSUME NEW out, Nothing(out), NEW result, NEW started, result = "ok" <=> started # <<>>
  PROVE  AnswersOnce(out, started, result)
<1>1. {i \in DOMAIN out : out[i] # "partial"} = {}
  BY DEF Nothing
<1> QED
  BY <1>1 DEF AnswersOnce

\* An answer behind nothing that counts as one.
LEMMA OneAnswer ==
  ASSUME NEW out \in Seq(Prints), Nothing(out), NEW word \in Prints, word # "partial"
  PROVE  Append(out, word) \in Seq(Prints) /\ AnswersOnce(Append(out, word), <<>>, "ok")
<1> DEFINE n == Len(out)
           all == Append(out, word)
           answers == {i \in DOMAIN all : all[i] # "partial"}
<1>1. n \in Nat /\ DOMAIN out = 1..n
  BY LenProperties
<1>2. /\ all \in Seq(Prints) /\ Len(all) = n + 1
      /\ \A i \in 1..n : all[i] = out[i]
      /\ all[n + 1] = word
  BY AppendProperties
<1>3. DOMAIN all = 1..(n + 1)
  BY <1>2, LenProperties
<1>4. \A i \in 1..n : all[i] = "partial"
  BY <1>1, <1>2 DEF Nothing
<1> HIDE DEF all, n
<1>5. n + 1 \in answers
  BY <1>1, <1>2, <1>3
<1>6. ASSUME NEW i \in answers PROVE i = n + 1
  <2>1. i \in 1..(n + 1) /\ i \notin 1..n
    BY <1>3, <1>4
  <2> QED
    BY <1>1, <2>1
<1> HIDE DEF answers
<1>7. answers # {} /\ answers \subseteq {Len(all)}
  BY <1>2, <1>5, <1>6
<1> QED
  BY <1>2, <1>7 DEF AnswersOnce, all, answers

\* More that does not count.
LEMMA PartialOutput ==
  ASSUME NEW out \in Seq(Prints), Nothing(out)
  PROVE  Append(out, "partial") \in Seq(Prints) /\ Nothing(Append(out, "partial"))
<1>1. "partial" \in Prints
  BY DEF Prints
<1>2. /\ Append(out, "partial") \in Seq(Prints)
      /\ Len(Append(out, "partial")) = Len(out) + 1
      /\ \A i \in 1..Len(out) : Append(out, "partial")[i] = out[i]
      /\ Append(out, "partial")[Len(out) + 1] = "partial"
  BY <1>1, AppendProperties
<1>3. /\ Len(out) \in Nat /\ DOMAIN out = 1..Len(out)
      /\ DOMAIN Append(out, "partial") = 1..(Len(out) + 1)
  BY <1>2, LenProperties
<1>4. \A i \in 1..(Len(out) + 1) : i \in 1..Len(out) \/ i = Len(out) + 1
  BY <1>3
<1> QED
  BY <1>2, <1>3, <1>4 DEF Nothing

\* What steps leave as it is.
LEMMA SameAnswers ==
  ASSUME SuccessIsOneAnswer, UNCHANGED <<child, printed, exit>>
  PROVE  SuccessIsOneAnswer'
  BY DEF SuccessIsOneAnswer

\* The same for the daemon's arguments.
LEMMA SameChild ==
  ASSUME Started, UNCHANGED argVars
  PROVE  Started'
  BY DEF Started, Run, argVars

\* And for the statement of an agent.
LEMMA SameStatement ==
  ASSUME ExtractedRuns, sql' = sql, ForAgent' => ForAgent
  PROVE  ExtractedRuns'
  BY DEF ExtractedRuns, ForAgentSQL

\* The property, of the values that a step leaves.
LEMMA AnswersAre ==
  SuccessIsOneAnswer' <=> AnswersOnce(printed', child', exit')
  BY DEF SuccessIsOneAnswer, AnswersOnce

\* A command leaves with nothing that counts as its answer.
LEMMA LeavesWithout ==
  ASSUME child' = <<>>, Nothing(printed'), exit' # "ok"
  PROVE  SuccessIsOneAnswer'
  BY NoAnswer, AnswersAre

\* The invariant holds at first.
LEMMA CommandInit == Init => CommandInv
<1>1. SUFFICES ASSUME Init PROVE CommandInv
  OBVIOUS
<1>2. TypeOK
  BY <1>1, EmptySeq DEF Init, TypeOK
<1>3. Unfinished /\ Started /\ Asked /\ ExtractedRuns
  BY <1>1 DEF Init, Unfinished, Started, Asked, ExtractedRuns, ForAgentSQL, ForAgent
<1>4. SuccessIsOneAnswer
  BY <1>1 DEF Init, SuccessIsOneAnswer
<1> QED
  BY <1>2, <1>3, <1>4 DEF CommandInv

\* Steps that lead to no statement, print nothing and do not end the command.
LEMMA QuietStep ==
  ASSUME CommandInv, TypeOK', Asked', UNCHANGED <<sql, printed, exit>>,
         ForAgent' => ForAgent \/ sql = <<>>,
         child' = child, child # <<>> => args' = args,
         pc' # "exited" => pc # "exited"
  PROVE  CommandInv'
<1>1. Unfinished'
  BY DEF CommandInv, Unfinished
<1>2. Started'
  BY DEF CommandInv, Started, Run
<1>3. ExtractedRuns'
  BY DEF CommandInv, ExtractedRuns, ForAgentSQL
<1>4. SuccessIsOneAnswer'
  BY SameAnswers DEF CommandInv
<1> QED
  BY <1>1, <1>2, <1>3, <1>4 DEF CommandInv

\* Steps that end the command, or go on to the templates, after an error.
LEMMA FailedStep ==
  ASSUME CommandInv, TypeOK', pc # "exited", pc' \in {"templates", "exited"},
         UNCHANGED <<child, sql, agent>>, Nothing(printed'),
         pc' = "templates" => exit' = exit, pc' = "exited" => exit' = "error"
  PROVE  CommandInv'
<1>1. child' = <<>> /\ exit = "none"
  BY DEF CommandInv, Unfinished
<1>2. Unfinished'
  BY <1>1 DEF Unfinished, Nothing
<1>3. Started' /\ Asked'
  BY <1>1 DEF Started, Asked
<1>4. ExtractedRuns'
  BY SameStatement DEF CommandInv, ForAgent
<1>5. SuccessIsOneAnswer'
  BY <1>1, LeavesWithout
<1> QED
  BY <1>2, <1>3, <1>4, <1>5 DEF CommandInv

\* Steps that print the answer and end the command.
LEMMA AnswerStep ==
  ASSUME CommandInv, pc # "exited", pc' = "exited", exit' = "ok",
         UNCHANGED <<argVars, text, agent, children, late, sql>>,
         NEW word \in Prints, word # "partial", printed' = Append(printed, word)
  PROVE  CommandInv'
<1>1. child' = <<>> /\ Nothing(printed) /\ printed \in Seq(Prints)
  BY DEF CommandInv, Unfinished, TypeOK, Nothing, argVars
<1>2. printed' \in Seq(Prints) /\ AnswersOnce(printed', <<>>, "ok")
  BY <1>1, OneAnswer
<1>3. SuccessIsOneAnswer'
  BY <1>1, <1>2, AnswersAre
<1>4. TypeOK'
  BY <1>2 DEF CommandInv, TypeOK, argVars
<1>5. Unfinished' /\ Started' /\ Asked'
  BY <1>1 DEF Unfinished, Started, Asked
<1>6. ExtractedRuns'
  BY SameStatement DEF CommandInv, ForAgent
<1> QED
  BY <1>3, <1>4, <1>5, <1>6 DEF CommandInv

\* The invariant after each step. An argument is typed:
LEMMA TypeStep ==
  ASSUME CommandInv, NEW arg \in Texts, Type(arg)
  PROVE  CommandInv'
<1>1. /\ pc = "arguments" /\ pc' = "arguments" /\ args' = Append(args, arg)
      /\ UNCHANGED <<child, text, agent, children, late, sql, printed, exit>>
  BY DEF Type, Go, queryVars
<1>2. TypeOK'
  BY <1>1, AppendProperties DEF CommandInv, TypeOK
<1>3. Asked'
  BY <1>1 DEF CommandInv, Asked
<1>4. child = <<>>
  BY <1>1 DEF CommandInv, Unfinished
<1> QED
  BY <1>1, <1>2, <1>3, <1>4, QuietStep DEF ForAgent

\* The arguments are refused:
LEMMA RefusedStep ==
  ASSUME CommandInv, Refused(Run)
  PROVE  CommandInv'
<1>1. /\ pc = "arguments" /\ pc' = "exited" /\ exit' = "error"
      /\ UNCHANGED <<args, child, text, agent, children, late, sql, printed>>
  BY DEF Refused, Leave, Go, argVars, queryVars
<1>2. TypeOK'
  BY <1>1 DEF CommandInv, TypeOK
<1>3. Nothing(printed')
  BY <1>1 DEF CommandInv, Unfinished, Nothing
<1> QED
  BY <1>1, <1>2, <1>3, FailedStep

\* The daemon is started, with arguments that are never none:
LEMMA StartStep ==
  ASSUME CommandInv, Start(Run)
  PROVE  CommandInv'
<1>1. /\ pc = "arguments" /\ pc' = "exited" /\ exit' = "ok"
      /\ UNCHANGED <<args, text, agent, children, late, sql, printed>>
      /\ child' = daemonArgs(Run.cfg)
  BY DEF Start, Leave, Go, queryVars
<1>2. TypeOK'
  BY <1>1 DEF CommandInv, TypeOK
<1>3. Unfinished' /\ Asked'
  BY <1>1 DEF Unfinished, Asked
<1>4. Started'
  BY <1>1 DEF Started, Run
<1>5. ExtractedRuns'
  BY <1>1, SameStatement DEF CommandInv, ForAgent
<1>6. SuccessIsOneAnswer'
  <2>1. child' # <<>>
    <3>1. args \in Seq(Texts)
      BY DEF CommandInv, TypeOK
    <3>2. Run.cfg \in Configs
      BY <3>1, ExecuteType DEF Complete, Run
    <3>3. /\ child' \in Seq(Values) /\ child'[1] = "--db"
          /\ Len(child') = 2 * Len(customIgnorePaths(Run.cfg.ignore)) + 6
      BY <1>1, <3>2, DaemonArgsIs
    <3>4. Len(customIgnorePaths(Run.cfg.ignore)) \in Nat
      <4>1. customIgnorePaths(Run.cfg.ignore) \in Seq(Values)
        BY <3>2, CustomIs DEF Configs
      <4> QED
        BY <4>1, LenProperties
    <3>5. Len(child') # 0
      BY <3>3, <3>4
    <3> QED
      BY <3>3, <3>5, EmptySeq
  <2>2. Nothing(printed')
    BY <1>1 DEF CommandInv, Unfinished, Nothing
  <2> QED
    BY <1>1, <2>1, <2>2, NoAnswer, AnswersAre
<1> QED
  BY <1>2, <1>3, <1>4, <1>5, <1>6 DEF CommandInv

\* The command is ltm query or ltm sql:
LEMMA QueryStep ==
  ASSUME CommandInv, Query(Run)
  PROVE  CommandInv'
<1>1. /\ pc = "arguments" /\ pc' \in {"sql", "no question", "question"} /\ args' = <<>>
      /\ UNCHANGED <<child, text, agent, children, late, sql, printed, exit>>
  BY DEF Query, Go, queryVars
<1>2. TypeOK'
  BY <1>1, EmptySeq DEF CommandInv, TypeOK
<1>3. Asked'
  BY <1>1 DEF CommandInv, Asked
<1>4. child = <<>>
  BY <1>1 DEF CommandInv, Unfinished
<1> QED
  BY <1>1, <1>2, <1>3, <1>4, QuietStep DEF ForAgent

\* A token of a statement is typed:
LEMMA TypeSQLStep ==
  ASSUME CommandInv, NEW token \in SQLTokens, TypeSQL(token)
  PROVE  CommandInv'
<1>1. /\ pc = "sql" /\ pc' = "sql" /\ text' = Append(text, token)
      /\ UNCHANGED <<args, child, agent, children, late, sql, printed, exit>>
  BY DEF TypeSQL, Go, argVars
<1>2. TypeOK'
  <2>1. text \in Seq(Tokens) /\ token \in Tokens
    BY DEF CommandInv, TypeOK, Tokens
  <2>2. text' \in Seq(Tokens)
    BY <1>1, <2>1, AppendProperties
  <2> QED
    BY <1>1, <2>2 DEF CommandInv, TypeOK
<1>3. Asked'
  BY <1>1 DEF CommandInv, Asked
<1> QED
  BY <1>1, <1>2, <1>3, QuietStep DEF ForAgent

\* The agent, or what it has started, prints a token:
LEMMA OutputStep ==
  ASSUME CommandInv, NEW token \in AgentTokens, Output(token)
  PROVE  CommandInv'
<1>1. /\ pc' = pc /\ text' = Append(text, token)
      /\ UNCHANGED <<args, child, agent, children, late, sql, printed, exit>>
  BY DEF Output, argVars
<1>2. TypeOK'
  <2>1. text \in Seq(Tokens) /\ token \in Tokens
    BY DEF CommandInv, TypeOK, Tokens
  <2>2. text' \in Seq(Tokens)
    BY <1>1, <2>1, AppendProperties
  <2> QED
    BY <1>1, <2>2 DEF CommandInv, TypeOK
<1>3. Asked'
  BY <1>1 DEF CommandInv, Asked
<1> QED
  BY <1>1, <1>2, <1>3, QuietStep DEF ForAgent

\* The statement of a user is run without an agent.
LEMMA RunSQLStep ==
  ASSUME CommandInv, RunSQL
  PROVE  CommandInv'
<1>1. /\ pc = "sql" /\ sql' = TrimSpace(text)
      /\ UNCHANGED <<args, child, text, agent, children, late>>
  BY DEF RunSQL, Leave, Go, argVars
<1>2. /\ child' = <<>> /\ agent' = "none" /\ exit = "none" /\ Nothing(printed)
      /\ sql' \in Seq(Tokens)
  BY <1>1, Trimmed DEF CommandInv, Unfinished, Asked, TypeOK, Nothing
<1>3. Started' /\ ExtractedRuns'
  BY <1>2 DEF Started, ExtractedRuns, ForAgentSQL, ForAgent
<1>4. CASE pc' = "exited" /\ exit' = "ok" /\ printed' = <<"schema">>
  <2>1. printed' \in Seq(Prints)
    BY <1>4 DEF Prints
  <2>2. TypeOK'
    BY <1>1, <1>2, <1>4, <2>1 DEF CommandInv, TypeOK
  <2>3. Unfinished' /\ Asked'
    BY <1>4 DEF Unfinished, Asked
  <2>4. SuccessIsOneAnswer'
    <3> DEFINE schema == <<"schema">>
               answers == {i \in DOMAIN schema : schema[i] # "partial"}
    <3>1. answers = {1} /\ Len(schema) = 1
      OBVIOUS
    <3>2. AnswersOnce(schema, <<>>, "ok")
      <4> HIDE DEF schema
      <4>1. answers # {} /\ answers \subseteq {Len(schema)}
        <5> HIDE DEF answers
        <5> QED
          BY <3>1
      <4> QED
        BY <4>1 DEF AnswersOnce
    <3>3. printed' = schema
      BY <1>4
    <3> HIDE DEF schema
    <3> QED
      BY <1>2, <1>4, <3>2, <3>3, AnswersAre
  <2> QED
    BY <1>3, <2>2, <2>3, <2>4 DEF CommandInv
<1>5. CASE pc' = "exited" /\ exit' = "error" /\ printed' \in {<<>>, <<"partial">>}
  <2>1. printed' \in Seq(Prints) /\ Nothing(printed')
    <3>1. <<>> \in Seq(Prints) /\ <<"partial">> \in Seq(Prints)
      <4>1. "partial" \in Prints
        BY DEF Prints
      <4> QED
        BY <4>1
    <3>2. Nothing(<<>>) /\ Nothing(<<"partial">>)
      BY DEF Nothing
    <3> QED
      BY <1>5, <3>1, <3>2
  <2>2. TypeOK'
    BY <1>1, <1>2, <1>5, <2>1 DEF CommandInv, TypeOK
  <2>3. Unfinished' /\ Asked'
    BY <1>5 DEF Unfinished, Asked
  <2>4. SuccessIsOneAnswer'
    BY <1>2, <1>5, <2>1, LeavesWithout
  <2> QED
    BY <1>3, <2>2, <2>3, <2>4 DEF CommandInv
<1>6. CASE pc' = "raw" /\ UNCHANGED <<printed, exit>>
  <2>1. TypeOK'
    BY <1>1, <1>2, <1>6 DEF CommandInv, TypeOK
  <2>2. Unfinished' /\ Asked'
    BY <1>2, <1>6 DEF Unfinished, Asked, Nothing
  <2>3. SuccessIsOneAnswer'
    BY <1>1, <1>6, SameAnswers DEF CommandInv
  <2> QED
    BY <1>3, <2>1, <2>2, <2>3 DEF CommandInv
<1> QED
  BY <1>4, <1>5, <1>6 DEF RunSQL, Leave, Go

\* There is no question, or no agent:
LEMMA NoQuestionStep ==
  ASSUME CommandInv, NoQuestion
  PROVE  CommandInv'
<1>1. /\ pc \in {"no question", "question"} /\ pc' = "exited" /\ exit' = "error"
      /\ UNCHANGED <<args, child, text, agent, children, late, sql, printed>>
  BY DEF NoQuestion, Leave, Go, argVars, queryVars
<1>2. TypeOK'
  BY <1>1 DEF CommandInv, TypeOK
<1>3. Nothing(printed')
  BY <1>1 DEF CommandInv, Unfinished, Nothing
<1> QED
  BY <1>1, <1>2, <1>3, FailedStep

\* The question goes to the templates or to an agent:
LEMMA AskStep ==
  ASSUME CommandInv, AskTemplates \/ AskAgent
  PROVE  CommandInv'
<1>1. /\ pc = "question" /\ pc' \in {"templates", "agent"}
      /\ agent' \in {agent, "running"} /\ children' \in {children, TRUE, FALSE}
      /\ UNCHANGED <<args, child, text, late, sql, printed, exit>>
  BY DEF AskTemplates, AskAgent, Go, argVars, queryVars
<1>2. TypeOK'
  BY <1>1 DEF CommandInv, TypeOK
<1>3. Asked' /\ sql = <<>>
  BY <1>1 DEF CommandInv, Asked
<1> QED
  BY <1>1, <1>2, <1>3, QuietStep

\* The agent and the clock.
LEMMA AgentStep ==
  ASSUME CommandInv, AgentExits \/ ChildrenEnd \/ Deadline
  PROVE  CommandInv'
<1>1. /\ agent' = agent \/ (agent = "running" /\ agent' \in {"succeeded", "failed"})
      /\ children' \in {children, FALSE} /\ late' \in {late, TRUE}
      /\ UNCHANGED <<pc, args, child, text, sql, printed, exit>>
  BY DEF AgentExits, ChildrenEnd, Deadline, argVars
<1>2. TypeOK'
  BY <1>1 DEF CommandInv, TypeOK
<1>3. Asked'
  BY <1>1 DEF CommandInv, Asked
<1> QED
  BY <1>1, <1>2, <1>3, QuietStep DEF ForAgent

\* What the agent has printed is a statement, or the templates are next:
LEMMA GenerateSQLStep ==
  ASSUME CommandInv, GenerateSQL
  PROVE  CommandInv'
<1>1. /\ pc = "agent" /\ agent # "none"
      /\ UNCHANGED <<args, child, text, agent, children, late, printed, exit>>
  BY DEF GenerateSQL, Go, argVars
<1>2. /\ text \in Seq(Tokens) /\ sql = <<>> /\ child = <<>>
  BY <1>1 DEF CommandInv, TypeOK, Asked, Unfinished
<1>3. CASE pc' = "templates" /\ sql' = sql
  <2>1. TypeOK'
    BY <1>1, <1>3 DEF CommandInv, TypeOK
  <2>2. Asked'
    BY <1>3 DEF Asked
  <2> QED
    BY <1>1, <1>2, <1>3, <2>1, <2>2, QuietStep
<1>4. CASE pc' = "raw" /\ sql' \in ExtractSQL(text)
  <2>1. /\ sql' \in Seq(Tokens)
        /\ WithoutBackticks(sql') => ~ SecondStatement(sql') /\ IsSelect(sql')
    BY <1>2, <1>4, Extracted
  <2>2. TypeOK'
    BY <1>1, <1>4, <2>1 DEF CommandInv, TypeOK
  <2>3. ExtractedRuns'
    BY <2>1 DEF ExtractedRuns
  <2>4. Unfinished' /\ Asked'
    BY <1>1, <1>4 DEF CommandInv, Unfinished, Asked
  <2>5. Started' /\ SuccessIsOneAnswer'
    BY <1>1, <1>2, SameAnswers DEF CommandInv, Started
  <2> QED
    BY <2>2, <2>3, <2>4, <2>5 DEF CommandInv
<1>5. \/ pc' = "templates" /\ sql' = sql
      \/ pc' = "raw" /\ sql' \in ExtractSQL(text)
  BY DEF GenerateSQL, Go
<1> QED
  BY <1>3, <1>4, <1>5

\* The store runs the statement:
LEMMA RawSQLStep ==
  ASSUME CommandInv, RawSQL
  PROVE  CommandInv'
<1>1. /\ pc = "raw" /\ pc' = "print"
      /\ UNCHANGED <<args, child, text, agent, children, late, sql, printed, exit>>
  BY DEF RawSQL, Go, argVars, queryVars
<1>2. TypeOK' /\ Asked'
  BY <1>1 DEF CommandInv, TypeOK, Asked
<1> QED
  BY <1>1, <1>2, QuietStep DEF ForAgent

\* Errors, with some output before them or none.
LEMMA ErrorStep ==
  ASSUME CommandInv, RawSQLFails \/ PrintTableFails \/ TemplatesFail
  PROVE  CommandInv'
<1>1. /\ pc \in {"raw", "print", "templates"} /\ pc' \in {"templates", "exited"}
      /\ pc' = "templates" => exit' = exit
      /\ pc' = "exited" => exit' = "error"
      /\ UNCHANGED <<args, child, text, agent, children, late, sql>>
      /\ printed' \in {printed, Append(printed, "partial")}
  BY DEF RawSQLFails, PrintTableFails, TemplatesFail, Failed, Leave, Go, argVars, queryVars
<1>2. printed' \in Seq(Prints) /\ Nothing(printed')
  <2>1. printed \in Seq(Prints) /\ Nothing(printed)
    BY <1>1 DEF CommandInv, TypeOK, Unfinished, Nothing
  <2> QED
    BY <1>1, <2>1, PartialOutput
<1>3. TypeOK'
  BY <1>1, <1>2 DEF CommandInv, TypeOK
<1> QED
  BY <1>1, <1>2, <1>3, FailedStep

\* The answer of a statement or of a template:
LEMMA PrintStep ==
  ASSUME CommandInv, PrintTable \/ Templates
  PROVE  CommandInv'
<1>1. /\ pc \in {"print", "templates"} /\ pc' = "exited" /\ exit' = "ok"
      /\ UNCHANGED <<argVars, text, agent, children, late, sql>>
      /\ \E word \in {"agent", "sql", "template", "lost"} : printed' = Append(printed, word)
  BY DEF PrintTable, Templates, Leave, Go
<1>2. PICK word \in {"agent", "sql", "template", "lost"} : printed' = Append(printed, word)
  BY <1>1
<1>3. word \in Prints /\ word # "partial"
  BY DEF Prints
<1> QED
  BY <1>1, <1>2, <1>3, AnswerStep

\* Every step keeps the invariant.
LEMMA CommandNext == CommandInv /\ [Next]_vars => CommandInv'
<1>1. SUFFICES ASSUME CommandInv, [Next]_vars PROVE CommandInv'
  OBVIOUS
<1>2. ASSUME NEW arg \in Texts, Type(arg) PROVE CommandInv'
  BY <1>1, <1>2, TypeStep
<1>3. ASSUME NEW token \in SQLTokens, TypeSQL(token) PROVE CommandInv'
  BY <1>1, <1>3, TypeSQLStep
<1>4. ASSUME NEW token \in AgentTokens, Output(token) PROVE CommandInv'
  BY <1>1, <1>4, OutputStep
<1>5. CASE AgentExits \/ ChildrenEnd \/ Deadline
  BY <1>1, <1>5, AgentStep
<1>6. CASE Refused(Run)
  BY <1>1, <1>6, RefusedStep
<1>7. CASE Start(Run)
  BY <1>1, <1>7, StartStep
<1>8. CASE Query(Run)
  BY <1>1, <1>8, QueryStep
<1>9. CASE RunSQL
  BY <1>1, <1>9, RunSQLStep
<1>10. CASE NoQuestion
  BY <1>1, <1>10, NoQuestionStep
<1>11. CASE AskTemplates \/ AskAgent
  BY <1>1, <1>11, AskStep
<1>12. CASE GenerateSQL
  BY <1>1, <1>12, GenerateSQLStep
<1>13. CASE RawSQL
  BY <1>1, <1>13, RawSQLStep
<1>14. CASE RawSQLFails \/ PrintTableFails \/ TemplatesFail
  BY <1>1, <1>14, ErrorStep
<1>15. CASE PrintTable \/ Templates
  BY <1>1, <1>15, PrintStep
<1>16. CASE UNCHANGED vars
  <2>1. UNCHANGED <<pc, args, child, text, agent, children, late, sql, printed, exit>>
    BY <1>16 DEF vars, argVars, queryVars
  <2>2. TypeOK' /\ Asked'
    BY <1>1, <2>1 DEF CommandInv, TypeOK, Asked
  <2> QED
    BY <1>1, <2>1, <2>2, QuietStep DEF ForAgent
<1> QED
  BY <1>1, <1>2, <1>3, <1>4, <1>5, <1>6, <1>7, <1>8, <1>9, <1>10, <1>11, <1>12, <1>13,
     <1>14, <1>15, <1>16 DEF Next, Command

-----------------------------------------------------------------------------
(* The theorems.                                                           *)

\* The invariant of the command line.
THEOREM Commands == FairSpec => []CommandInv
BY CommandInit, CommandNext, PTL DEF FairSpec

\* However the agent, the store and the output fail, and whatever is typed: the
\* command succeeds exactly when the last thing printed is an answer, or a daemon
\* was started, and it answers once.
THEOREM OneAnswerOnly == FairSpec => []SuccessIsOneAnswer
<1>1. CommandInv => SuccessIsOneAnswer
  BY DEF CommandInv
<1> QED
  BY <1>1, Commands, PTL

\* What ExtractSQL lets through, of outputs of any length, is a single statement, for
\* the scan of package storage too, and a SELECT: one that begins it, or the one its
\* WITH leads to, past every SELECT in parentheses.  Texts in which backticks quote
\* something are left out.
THEOREM AgentStatements == FairSpec => []ExtractedRuns
<1>1. CommandInv => ExtractedRuns
  BY DEF CommandInv
<1> QED
  BY <1>1, Commands, PTL

\* The scan of hasMultipleStatements is exact in whatever a user types and whatever an
\* agent prints, as long as no backtick quotes anything there.
THEOREM ScansExactly == FairSpec => []ScannerIsExact
<1>1. CommandInv => ScannerIsExact
  <2>1. SUFFICES ASSUME CommandInv PROVE ScannerIsExact
    OBVIOUS
  <2>2. text \in Seq(Tokens)
    BY <2>1 DEF CommandInv, TypeOK
  <2> QED
    BY <2>2, Exact DEF ScannerIsExact
<1> QED
  BY <1>1, Commands, PTL

\* A daemon runs with the database, the pid file and the ignore paths that ltm start
\* was given, for any number of arguments and any texts of flags.
THEOREM DaemonKeepsConfig == FairSpec => []ChildConfigIsParents
<1>1. CommandInv => ChildConfigIsParents
  <2>1. SUFFICES ASSUME CommandInv, child # <<>> PROVE ChildConfigIsParents
    BY DEF ChildConfigIsParents
  <2>2. child = daemonArgs(Run.cfg) /\ args \in Seq(Texts)
    BY <2>1 DEF CommandInv, Started, TypeOK
  <2>3. Complete(Run.cfg)
    BY <2>2, ExecuteType DEF Run
  <2> DEFINE daemon == Execute(child)
  <2>4. /\ daemon.ok /\ daemon.command = "daemon" /\ daemon.rest = <<"--foreground">>
        /\ daemon.cfg.db = Run.cfg.db /\ daemon.cfg.pidfile = Run.cfg.pidfile
        /\ PathsIn(daemon.cfg.ignore) = PathsIn(Run.cfg.ignore)
    BY <2>2, <2>3, DaemonReads
  <2> QED
    BY <2>4 DEF ChildConfigIsParents, PathsIn
<1> QED
  BY <1>1, Commands, PTL

=============================================================================
