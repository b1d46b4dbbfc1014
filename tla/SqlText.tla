------------------------------- MODULE SqlText -------------------------------
(***************************************************************************)
(* The scans that a SQL text passes before it reaches SQLite: that of      *)
(* storage.RawSQL, which lets a single statement through, and that of      *)
(* agent.ExtractSQL, which finds one SELECT in what an agent prints.  Both *)
(* packages have a copy of the same lexer.                                 *)
(*                                                                         *)
(* A text is a sequence of tokens.  A word and a fence of three backticks  *)
(* are one token each, every other token is a character; the newline       *)
(* stands for all blanks.                                                  *)
(***************************************************************************)
EXTENDS Integers, Sequences, FiniteSets

Newline == "newline"
Fence == "fence"
Quotation == {"quote", "double quote"}
Starters == {"select", "delete"}   \* "delete" for INSERT, UPDATE and REPLACE too

At(s, i, token) == i <= Len(s) /\ s[i] = token
From(s, i) == SubSeq(s, i, Len(s))
Before(s, i) == SubSeq(s, 1, i - 1)

\* The first place from i on with a property, or the end of the text.
FirstFrom(s, i, Has(_)) ==
    LET places == {j \in i..Len(s) : Has(j)}
    IN  IF places = {} THEN Len(s) + 1
        ELSE CHOOSE j \in places : \A k \in places : j <= k

Find(s, i, token) == FirstFrom(s, i, LAMBDA j : s[j] = token)
Smaller(m, n) == IF m <= n THEN m ELSE n

TrimSpace(s) ==
    LET solid == {i \in DOMAIN s : s[i] # Newline}
    IN  IF solid = {} THEN <<>>
        ELSE LET first == CHOOSE i \in solid : \A j \in solid : i <= j
                 last == CHOOSE i \in solid : \A j \in solid : j <= i
             IN  SubSeq(s, first, last)

TrimSuffix(s, token) ==
    IF s # <<>> /\ s[Len(s)] = token THEN Before(s, Len(s)) ELSE s

-----------------------------------------------------------------------------
(* The lexer.                                                              *)

SkipUntil(s, i, end) == Smaller(Find(s, i, end) + 1, Len(s) + 1)

\* A quote within quotes is doubled.
QuoteSkips(s, quote) ==
    LET skip[j \in 1..(Len(s) + 1)] ==
            IF j > Len(s) THEN Len(s) + 1
            ELSE IF s[j] # quote THEN skip[j + 1]
            ELSE IF At(s, j + 1, quote) THEN skip[j + 2]
            ELSE j + 1
    IN  skip

SkipQuoted(s, i, quote) == QuoteSkips(s, quote)[i]

SkipLine(s, i) == Find(s, i, Newline)

\* Mutant: the star that opens a comment may close it.
SkipOverlapping(s, i) ==
    LET close == FirstFrom(s, i + 1, LAMBDA j : s[j] = "*" /\ At(s, j + 1, "/"))
    IN  IF close <= Len(s) THEN close + 2 ELSE Len(s) + 1

\* Of a comment that is not closed the last character is left over, and that of a
\* word is no word to the scan.
SkipComment(s, i) ==
    LET close == FirstFrom(s, i + 2, LAMBDA j : s[j] = "*" /\ At(s, j + 1, "/"))
    IN  IF close <= Len(s) THEN close + 2
        ELSE IF i + 2 <= Len(s) /\ s[Len(s)] \notin Starters THEN Len(s)
        ELSE Len(s) + 1

\* Where the scan goes on after what it finds at i.
After(s, i) ==
    CASE s[i] \in Quotation -> SkipQuoted(s, i + 1, s[i])
      [] s[i] = "[" -> SkipUntil(s, i + 1, "]")
      [] s[i] = "-" /\ At(s, i + 1, "-") -> SkipLine(s, i)
      [] s[i] = "/" /\ At(s, i + 1, "*") -> SkipComment(s, i)
      [] OTHER -> i + 1

\* The places the scan stops at: code, and the beginning of what it skips.
StopsFrom(s) ==
    LET from[i \in 1..(Len(s) + 1)] ==
            IF i > Len(s) THEN {} ELSE {i} \cup from[After(s, i)]
    IN  from

Stops(s) == StopsFrom(s)[1]

Separators(s) == {i \in Stops(s) : s[i] = ";"}

-----------------------------------------------------------------------------
(* storage.hasMultipleStatements                                           *)

HasMultipleStatements(s) ==
    \E i \in Separators(s) : TrimSpace(From(s, i + 1)) # <<>>

-----------------------------------------------------------------------------
(* agent.ExtractSQL                                                        *)

\* The depth of parentheses behind each place.
ScanDepths(s) ==
    LET stops == Stops(s)
        depth[i \in 0..Len(s)] ==
            IF i = 0 THEN 0
            ELSE IF i \notin stops THEN depth[i - 1]
            ELSE IF s[i] = "(" THEN depth[i - 1] + 1
            ELSE IF s[i] = ")" /\ depth[i - 1] > 0 THEN depth[i - 1] - 1
            ELSE depth[i - 1]
    IN  depth

\* Mutant: parentheses enclose nothing.
StartersAnywhere(s) == {i \in Stops(s) : s[i] \in Starters}

\* The starters of statements that no parenthesis encloses.
TopLevel(s) ==
    LET depth == ScanDepths(s)
    IN  {i \in Stops(s) : s[i] \in Starters /\ depth[i - 1] = 0}

\* s begins with SELECT or WITH.
ValidateReadOnlySQL(s) ==
    /\ Separators(s) = {}
    /\ s[1] = "with" =>
          \E i \in TopLevel(s) : s[i] = "select" /\ \A j \in TopLevel(s) : i <= j

\* What is between the first fence and the next, without a tag.
Fenced(s) ==
    LET rest == From(s, Find(s, 1, Fence) + 1)
        tagged == Find(rest, 1, Newline)
        tag == TrimSpace(Before(rest, tagged))
        body == IF tagged <= Len(rest) /\ tag \in {<<>>, <<"sql">>}
                THEN From(rest, tagged + 1) ELSE rest
        close == Find(body, 1, Fence)
    IN  IF Find(s, 1, Fence) <= Len(s) /\ close <= Len(body)
        THEN TrimSpace(Before(body, close)) ELSE s

Statement(s) ==
    LET start == FirstFrom(s, 1, LAMBDA i : s[i] \in {"select", "with"})
        unfenced == TrimSpace(TrimSuffix(TrimSpace(From(s, start)), Fence))
    IN  TrimSpace(TrimSuffix(unfenced, ";"))

\* The set of the one statement in out, or of none.
ExtractSQL(out) ==
    {sql \in {Statement(s) : s \in {Fenced(t) : t \in {TrimSpace(out)}}} :
        sql # <<>> /\ ValidateReadOnlySQL(sql)}

-----------------------------------------------------------------------------
(* The same questions answered by a reader of one character after another, *)
(* which knows what SQLite quotes with: backticks too, a fence being three. *)

Backticks == {"backtick", Fence}

NextMode(mode, c) ==
    CASE mode \in Quotation -> IF c = mode THEN "code" ELSE mode
      [] mode = "backtick" -> IF c \in Backticks THEN "code" ELSE mode
      [] mode = "[" -> IF c = "]" THEN "code" ELSE mode
      [] mode = "line" -> IF c = Newline THEN "code" ELSE mode
      [] mode = "comment" -> IF c = "*" THEN "star" ELSE mode
      [] mode = "star" -> IF c = "/" THEN "code" ELSE IF c = "*" THEN mode ELSE "comment"
      [] mode = "-" /\ c = "-" -> "line"
      [] mode = "/" /\ c = "*" -> "comment"
      [] OTHER -> IF c \in Backticks THEN "backtick"
                  ELSE IF c \in Quotation \cup {"[", "-", "/"} THEN c ELSE "code"

\* The mode after each character.
Modes(s) ==
    LET mode[i \in 0..Len(s)] == IF i = 0 THEN "code" ELSE NextMode(mode[i - 1], s[i])
    IN  mode

\* No backtick of s quotes anything.
WithoutBackticks(s) == \A i \in DOMAIN s : Modes(s)[i] # "backtick"

\* Something other than blanks follows a separator that is code.
SecondStatement(s) ==
    LET mode == Modes(s)
    IN  \E i \in DOMAIN s, j \in DOMAIN s :
            s[i] = ";" /\ mode[i] = "code" /\ i < j /\ s[j] # Newline

\* How many parentheses are open after each character.
Depths(s) ==
    LET mode == Modes(s)
        depth[i \in 0..Len(s)] ==
            IF i = 0 THEN 0
            ELSE IF mode[i] = "code" /\ s[i] = "(" THEN depth[i - 1] + 1
            ELSE IF mode[i] = "code" /\ s[i] = ")" /\ depth[i - 1] > 0 THEN depth[i - 1] - 1
            ELSE depth[i - 1]
    IN  depth

\* The statements of s that no parenthesis encloses, each by the place it begins at.
Statements(s) ==
    LET mode == Modes(s)
        depth == Depths(s)
    IN  {i \in DOMAIN s : s[i] \in Starters /\ mode[i] = "code" /\ depth[i] = 0}

\* s is a SELECT, or a WITH whose own statement is one.
IsSelect(s) ==
    \/ s[1] = "select"
    \/ /\ s[1] = "with"
       /\ \E first \in Statements(s) :
             s[first] = "select" /\ \A i \in Statements(s) : first <= i

=============================================================================
