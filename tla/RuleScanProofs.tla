--------------------------- MODULE RuleScanProofs ---------------------------
(***************************************************************************)
(* Proofs about the scanners of the lexer, for every text: a token that    *)
(* scanToken finds fits in its text (Fits), and its bytes, cut out of the  *)
(* text, are scanned the same way (SameToken), so that it reads the same   *)
(* on its own.  Scans says both, and is what the loops build on.           *)
(***************************************************************************)
EXTENDS RuleLexer, TLAPS, WellFoundedInduction

(* The library's order on the naturals, as <.                              *)
LEMMA LessThanPairs ==
    \A x, y \in Nat : <<x, y>> \in OpToRel(<, Nat) <=> x < y
BY SMT DEF OpToRel

(* Every non-empty set of naturals has a least element, which is its Min.  *)
LEMMA LeastNat ==
    ASSUME NEW S \in SUBSET Nat, S # {}
    PROVE  Min(S) \in S /\ \A y \in S : Min(S) <= y
<1>1. PICK x \in S : \A y \in S : <<y, x>> \notin OpToRel(<, Nat)
  BY NatLessThanWellFounded, WFMin
<1>2. \A y \in S : ~(y < x)
  BY <1>1, LessThanPairs, Zenon
<1>3. \A y \in S : x <= y
  BY <1>2, SMT
<1>. QED BY <1>3, Zenon DEF Min

(* The first position of p..n that satisfies a condition, collected in S.  *)
LEMMA FirstPosition ==
    ASSUME NEW p \in Nat, NEW n \in Nat, NEW S, S \subseteq p..n, S # {},
           NEW m, m = Min(S)
    PROVE  m \in S /\ m \in p..n /\ \A y \in p..(m - 1) : y \notin S
<1>1. S \in SUBSET Nat OBVIOUS
<1>2. m \in S /\ \A y \in S : m <= y BY <1>1, LeastNat, Zenon
<1>3. m \in Nat BY <1>1, <1>2
<1>. QED BY <1>2, <1>3

(* A position after another one is a position, or the end of the text.     *)
LEMMA LaterPosition ==
    ASSUME NEW n \in Nat, NEW a \in 1..n, NEW x \in (a + 1)..(n + 1)
    PROVE  x \in Nat \ {0} /\ a < x /\ x <= n + 1
  OBVIOUS

(* Two positions that are both moved by d keep their order.                *)
LEMMA MovedBack ==
    ASSUME NEW d \in Nat, NEW h \in Nat, NEW w \in Nat, h + d < w + d
    PROVE  h < w
  OBVIOUS

(* The quote and the other bytes with a meaning of their own differ.       *)
LEMMA QuoteDiffers ==
    /\ Quote \notin {"\n", "\\", "eof", ".", "_", "x", "e", "E", "+", "-", "0", "t", "s", "i", "p"}
    /\ Quote \notin Lower /\ Quote \notin Digit
BY Zenon DEF Quote, Lower, Digit

(* An escape is neither a newline nor the end of the text.                 *)
LEMMA NoEscape == "eof" \notin DOMAIN Escape /\ "\n" \notin DOMAIN Escape
<1>1. DOMAIN Escape = {"n", "t", "r", Quote, "\\"} BY Zenon DEF Escape
<1>. QED BY <1>1, QuoteDiffers

(* At reads a byte or "eof".                                               *)
LEMMA AtByte ==
    ASSUME NEW src \in Seq(Byte), NEW p \in Nat \ {0}
    PROVE  /\ p \in 1..Len(src) => At(src, p) = src[p] /\ At(src, p) # "eof" /\ At(src, p) \in STRING
           /\ p > Len(src) => At(src, p) = "eof"
BY DEF At, Byte

(* The byte at p is not the end, so p is inside the text.                  *)
LEMMA InText ==
    ASSUME NEW src \in Seq(Byte), NEW p \in Nat \ {0}, At(src, p) # "eof"
    PROVE  p \in 1..Len(src)
BY AtByte

(* scanDigits and its like stop at the first byte outside S.               *)
LEMMA PastFacts ==
    ASSUME NEW src \in Seq(Byte), NEW p \in 1..(Len(src) + 1), NEW S, "eof" \notin S,
           NEW m, m = Past(src, p, S)
    PROVE  /\ m \in p..(Len(src) + 1)
           /\ \A q \in p..(m - 1) : At(src, q) \in S
           /\ At(src, m) \notin S
<1>. DEFINE Q == {q \in p..(Len(src) + 1) : At(src, q) \notin S}
<1>1. Len(src) + 1 \in Q BY AtByte
<1>2. m \in Q /\ m \in p..(Len(src) + 1) /\ \A y \in p..(m - 1) : y \notin Q
  <2>1. m = Min(Q) BY DEF Past
  <2>2. p \in Nat /\ Len(src) + 1 \in Nat /\ Q \subseteq p..(Len(src) + 1) /\ Q # {} BY <1>1
  <2>. HIDE DEF Q
  <2>. QED BY <2>1, <2>2, FirstPosition
<1>. QED BY <1>2

(* The loops that look for a byte of S stop at the first one, or at the    *)
(* end of the text.                                                        *)
LEMMA UntilFacts ==
    ASSUME NEW src \in Seq(Byte), NEW p \in 1..(Len(src) + 1), NEW S,
           NEW m, m = Until(src, p, S)
    PROVE  /\ m \in p..(Len(src) + 1)
           /\ \A q \in p..(m - 1) : At(src, q) \notin S
           /\ At(src, m) \in S \cup {"eof"}
<1>. DEFINE Q == {q \in p..(Len(src) + 1) : At(src, q) \in S \cup {"eof"}}
<1>1. Len(src) + 1 \in Q BY AtByte
<1>2. m \in Q /\ m \in p..(Len(src) + 1) /\ \A y \in p..(m - 1) : y \notin Q
  <2>1. m = Min(Q) BY DEF Until
  <2>2. p \in Nat /\ Len(src) + 1 \in Nat /\ Q \subseteq p..(Len(src) + 1) /\ Q # {} BY <1>1
  <2>. HIDE DEF Q
  <2>. QED BY <2>1, <2>2, FirstPosition
<1>. QED BY <1>2

(* Punctuation gives neither TEOF nor TError.                              *)
LEMMA PunctuationKinds ==
    /\ DOMAIN Punctuation = {"(", ")", "[", "]", ",", "&"}
    /\ \A c \in DOMAIN Punctuation : Punctuation[c] \notin {"TEOF", "TError"}
BY DEF Punctuation

(* The classes of first bytes are disjoint.                                *)
LEMMA FirstBytes ==
    ASSUME NEW c
    PROVE  /\ c = Quote => c \notin Digit \cup Lower \cup DOMAIN Punctuation \cup {"0", "t", "i"}
           /\ c \in Digit => c \notin Lower \cup DOMAIN Punctuation \cup {"t", "i"}
           /\ c \in Lower => c \notin DOMAIN Punctuation \cup {"0"}
           /\ c = "0" => c \in Digit
           /\ c \in {"t", "i"} => c \in Lower
<1>1. Quote \notin {"(", ")", "[", "]", ",", "&"} BY Zenon DEF Quote
<1>2. c = Quote => c \notin Digit \cup Lower \cup DOMAIN Punctuation \cup {"0", "t", "i"}
  BY <1>1, QuoteDiffers, PunctuationKinds
<1>3. c \in Digit => c \notin Lower \cup DOMAIN Punctuation \cup {"t", "i"}
  BY PunctuationKinds DEF Digit, Lower
<1>4. c \in Lower => c \notin DOMAIN Punctuation \cup {"0"}
  BY PunctuationKinds DEF Lower
<1>. QED BY <1>2, <1>3, <1>4 DEF Lower, Digit

Prefix(src, p, a, b) ==
    At(src, p) = a /\ At(src, p + 1) = b /\ At(src, p + 2) = Quote

(* The switch of scanToken, one arm for each first byte.                   *)
LEMMA ScanTokenCases ==
    ASSUME NEW src, NEW p, NEW c, c = At(src, p)
    PROVE  /\ c = Quote => scanToken(src, p) = scanBody(src, p + 1, "TString")
           /\ Prefix(src, p, "0", "x") => scanToken(src, p) = scanBytes(src, p)
           /\ Prefix(src, p, "t", "s") => scanToken(src, p) = scanBody(src, p + 3, "TTimestamp")
           /\ Prefix(src, p, "i", "p") => scanToken(src, p) = scanBody(src, p + 3, "TIP")
           /\ c \in Digit /\ ~Prefix(src, p, "0", "x") => scanToken(src, p) = scanNumber(src, p)
           /\ c \in Lower /\ ~Prefix(src, p, "t", "s") /\ ~Prefix(src, p, "i", "p") =>
                scanToken(src, p) = scanIdentOrKeyword(src, p)
           /\ c \in DOMAIN Punctuation => scanToken(src, p) = Scan(Punctuation[c], NoValue, p + 1)
           /\ c \notin {Quote} \cup Digit \cup Lower \cup DOMAIN Punctuation =>
                scanToken(src, p) = Scan("TError", NoValue, p + 1)
<1>. DEFINE P == DOMAIN Punctuation
            bx == Prefix(src, p, "0", "x")
            ts == Prefix(src, p, "t", "s")
            ip == Prefix(src, p, "i", "p")
            s == scanToken(src, p)
<1>1. s = CASE c = Quote -> scanBody(src, p + 1, "TString")
            [] bx -> scanBytes(src, p)
            [] ts -> scanBody(src, p + 3, "TTimestamp")
            [] ip -> scanBody(src, p + 3, "TIP")
            [] c \in Digit /\ ~bx -> scanNumber(src, p)
            [] c \in Lower /\ ~ts /\ ~ip -> scanIdentOrKeyword(src, p)
            [] c \in P -> Scan(Punctuation[c], NoValue, p + 1)
            [] OTHER -> Scan("TError", NoValue, p + 1)
  BY Zenon DEF scanToken, Prefix
<1>2. (bx => c = "0") /\ (ts => c = "t") /\ (ip => c = "i") BY Zenon DEF Prefix
<1>3. bx \in BOOLEAN /\ ts \in BOOLEAN /\ ip \in BOOLEAN BY Zenon DEF Prefix
<1>. HIDE DEF bx, ts, ip, P, s
<1>4. /\ c = Quote => c \notin Digit \cup Lower \cup P \cup {"0", "t", "i"}
      /\ c \in Digit => c \notin Lower \cup P \cup {"t", "i"}
      /\ c \in Lower => c \notin P \cup {"0"}
      /\ c = "0" => c \in Digit
      /\ c \in {"t", "i"} => c \in Lower
  BY FirstBytes, Zenon DEF P
<1>5. c = Quote => s = scanBody(src, p + 1, "TString") BY <1>1, <1>2, <1>3, <1>4
<1>6. bx => s = scanBytes(src, p) BY <1>1, <1>2, <1>3, <1>4
<1>7. ts => s = scanBody(src, p + 3, "TTimestamp") BY <1>1, <1>2, <1>3, <1>4
<1>8. ip => s = scanBody(src, p + 3, "TIP") BY <1>1, <1>2, <1>3, <1>4
<1>9. c \in Digit /\ ~bx => s = scanNumber(src, p) BY <1>1, <1>2, <1>3, <1>4
<1>10. c \in Lower /\ ~ts /\ ~ip => s = scanIdentOrKeyword(src, p) BY <1>1, <1>2, <1>3, <1>4
<1>11. c \in P => s = Scan(Punctuation[c], NoValue, p + 1) BY <1>1, <1>2, <1>3, <1>4
<1>12. c \notin {Quote} \cup Digit \cup Lower \cup P => s = Scan("TError", NoValue, p + 1)
  BY <1>1, <1>2, <1>3, <1>4
<1>. QED BY <1>5, <1>6, <1>7, <1>8, <1>9, <1>10, <1>11, <1>12, Zenon DEF bx, ts, ip, P, s

-----------------------------------------------------------------------------
(* The scanners: a token fits in its text.                                 *)

(* The parity of the backslashes before a byte.                            *)
LEMMA EscapedPrev ==
    ASSUME NEW src, NEW p \in Nat, NEW q \in Nat, Escaped(src, p, q)
    PROVE  p <= q - 1 /\ At(src, q - 1) = "\\" /\ ~Escaped(src, p, q - 1)
<1>1. PICK n \in 1..(q - p) :
        /\ n % 2 = 1
        /\ \A i \in 1..n : At(src, q - i) = "\\"
        /\ n < q - p => At(src, q - n - 1) # "\\"
  BY DEF Escaped
<1>2. p <= q - 1 /\ At(src, q - 1) = "\\" BY <1>1
<1>3. ASSUME Escaped(src, p, q - 1) PROVE FALSE
  <2>1. PICK m \in 1..(q - 1 - p) :
          /\ m % 2 = 1
          /\ \A i \in 1..m : At(src, q - 1 - i) = "\\"
          /\ m < q - 1 - p => At(src, q - 1 - m - 1) # "\\"
    BY <1>3 DEF Escaped
  <2>2. CASE m + 1 < n
    <3>1. m + 2 \in 1..n /\ m < q - 1 - p /\ q - (m + 2) = q - 1 - m - 1 BY <2>2
    <3>. QED BY <3>1, <1>1, <2>1
  <2>3. CASE n <= m
    <3>1. n \in 1..m /\ n < q - p /\ q - n - 1 = q - 1 - n BY <2>3
    <3>. QED BY <3>1, <1>1, <2>1
  <2>4. CASE m + 1 = n
    BY <2>4, <1>1, <2>1
  <2>. QED BY <2>2, <2>3, <2>4
<1>. QED BY <1>2, <1>3

(* The loop over a body stops: at the end of the text, or at a backslash   *)
(* right before it.                                                        *)
LEMMA BodyStopsAtEnd ==
    ASSUME NEW src \in Seq(Byte), NEW p \in 1..(Len(src) + 1)
    PROVE  \E q \in p..(Len(src) + 1) : BodyStops(src, p, q)
<1>. DEFINE n == Len(src) + 1
<1>1. n \in Nat \ {0} /\ p \in Nat /\ n \in p..n /\ n - 1 \in Nat OBVIOUS
<1>2. At(src, n) = "eof" BY AtByte
<1>3. n - 1 + 1 = n OBVIOUS
<1>. HIDE DEF n
<1>4. CASE ~Escaped(src, p, n)
  <2>1. BodyStops(src, p, n) BY <1>4, <1>2, Zenon DEF BodyStops
  <2>. QED BY <2>1, <1>1, Zenon DEF n
<1>5. CASE Escaped(src, p, n)
  <2>1. p <= n - 1 /\ At(src, n - 1) = "\\" /\ ~Escaped(src, p, n - 1)
    BY <1>5, <1>1, EscapedPrev, Zenon
  <2>3. BodyStops(src, p, n - 1) BY <2>1, NoEscape, <1>2, <1>3, Zenon DEF BodyStops
  <2>4. n - 1 \in p..n BY <1>1, <2>1
  <2>. QED BY <2>3, <2>4, Zenon DEF n
<1>. QED BY <1>4, <1>5

(* The loop of scanString stops at the first byte that ends a body.        *)
LEMMA BodyFacts ==
    ASSUME NEW src \in Seq(Byte), NEW p \in 1..(Len(src) + 1),
           NEW m, m = Min({i \in p..(Len(src) + 1) : BodyStops(src, p, i)})
    PROVE  /\ m \in p..(Len(src) + 1)
           /\ BodyStops(src, p, m)
           /\ \A q \in p..(m - 1) : ~BodyStops(src, p, q)
<1>. DEFINE Q == {i \in p..(Len(src) + 1) : BodyStops(src, p, i)}
<1>1. Q # {} BY BodyStopsAtEnd, Zenon
<1>2. p \in Nat /\ Len(src) + 1 \in Nat OBVIOUS
<1>3. Q \subseteq p..(Len(src) + 1) BY Zenon
<1>4. m \in Q /\ m \in p..(Len(src) + 1) /\ \A y \in p..(m - 1) : y \notin Q
  <2>1. m = Min(Q) OBVIOUS
  <2>. HIDE DEF Q
  <2>. QED BY <2>1, <1>1, <1>2, <1>3, FirstPosition
<1>5. \A y \in p..(m - 1) : y \in p..(Len(src) + 1) BY <1>4
<1>. QED BY <1>4, <1>5, Zenon

(* No byte of p..(m - 1) is a newline.                                     *)
OnOneLine(src, p, m) == \A q \in p..(m - 1) : At(src, q) # "\n"

(* One more byte on the line.                                              *)
LEMMA OneLineStep ==
    ASSUME NEW src, NEW p \in Nat, NEW m \in Nat, OnOneLine(src, p, m), At(src, m) # "\n"
    PROVE  OnOneLine(src, p, m + 1)
<1>. SUFFICES ASSUME NEW q \in p..(m + 1 - 1) PROVE At(src, q) # "\n" BY DEF OnOneLine
<1>1. CASE q = m BY <1>1
<1>2. CASE q # m
  <2>1. q \in p..(m - 1) BY <1>2
  <2>. QED BY <2>1 DEF OnOneLine
<1>. QED BY <1>1, <1>2

(* Two stretches on a line that meet are one.                              *)
LEMMA OneLineJoin ==
    ASSUME NEW src, NEW p \in Nat, NEW m \in Nat, NEW n \in Nat,
           OnOneLine(src, p, m), OnOneLine(src, m, n)
    PROVE  OnOneLine(src, p, n)
BY DEF OnOneLine

(* A body stays on its line: scanString stops at a newline.                *)
LEMMA BodyOnOneLine ==
    ASSUME NEW src, NEW p \in Nat, NEW m \in Nat,
           \A q \in p..(m - 1) : ~BodyStops(src, p, q)
    PROVE  OnOneLine(src, p, m)
<1>. SUFFICES ASSUME NEW q \in p..(m - 1), At(src, q) = "\n" PROVE FALSE
  BY DEF OnOneLine
<1>0. q \in Nat /\ q - 1 + 1 = q OBVIOUS
<1>1. Escaped(src, p, q) BY Zenon DEF BodyStops
<1>2. p <= q - 1 /\ At(src, q - 1) = "\\" /\ ~Escaped(src, p, q - 1)
  BY <1>0, <1>1, EscapedPrev, Zenon
<1>4. BodyStops(src, p, q - 1) BY <1>0, <1>2, NoEscape, Zenon DEF BodyStops
<1>5. q - 1 \in p..(m - 1) BY <1>2
<1>. QED BY <1>4, <1>5, Zenon

(* What every scan that starts at p gives: a token of at least one byte,   *)
(* inside the text and on one line; the column runs ahead only after an    *)
(* integer before e or E.                                                  *)
Fits(src, p, s) ==
    /\ s.end \in (p + 1)..(Len(src) + 1)
    /\ s.kind # "TEOF"
    /\ s.drift \in Nat
    /\ s.drift # 0 => s.kind = "TInt" /\ At(src, s.end) \in {"e", "E"}
    /\ OnOneLine(src, p, s.end)

(* A scan without drift fits if its bytes do.                              *)
LEMMA ScanFits ==
    ASSUME NEW src, NEW p, NEW kind, kind # "TEOF", NEW value, NEW end,
           end \in (p + 1)..(Len(src) + 1), OnOneLine(src, p, end)
    PROVE  Fits(src, p, Scan(kind, value, end))
BY DEF Fits, Scan

(* scanString and scanPrefixString stay inside the text and on the line,   *)
(* also after an unknown escape.                                           *)
LEMMA ScanBodyFits ==
    ASSUME NEW src \in Seq(Byte), NEW p \in 1..Len(src), NEW b \in (p + 1)..(Len(src) + 1),
           OnOneLine(src, p, b), NEW kind, kind # "TEOF"
    PROVE  Fits(src, p, scanBody(src, b, kind))
<1>. DEFINE Q == {Quote, "\n"}
            s == scanBody(src, b, kind)
<1>1. b \in 1..(Len(src) + 1) /\ b \in Nat /\ p \in Nat OBVIOUS
<1>2. PICK m \in b..(Len(src) + 1) : m = Min({i \in b..(Len(src) + 1) : BodyStops(src, b, i)})
  BY <1>1, BodyFacts, Zenon
<1>3. m \in Nat \ {0} /\ m \in 1..(Len(src) + 1) BY <1>1
<1>4. OnOneLine(src, p, m)
  <2>1. \A q \in b..(m - 1) : ~BodyStops(src, b, q) BY <1>1, <1>2, BodyFacts, Zenon
  <2>2. OnOneLine(src, b, m) BY <1>1, <1>3, <2>1, BodyOnOneLine, Zenon
  <2>. QED BY <2>2, <1>1, <1>3, OneLineJoin, Zenon
<1>. HIDE DEF Q
<1>5. PICK stop \in m..(Len(src) + 1) :
        /\ stop = Until(src, m, Q)
        /\ \A q \in m..(stop - 1) : At(src, q) \notin Q
        /\ At(src, stop) \in Q \cup {"eof"}
  BY <1>3, UntilFacts, Zenon
<1>6. s = CASE At(src, m) = Quote -> Scan(kind, String(Decoded(src, b, m - b)), m + 1)
            [] At(src, m) = "\\" /\ At(src, m + 1) # "eof" ->
                 Scan("TError", NoValue, IF At(src, stop) = Quote THEN stop + 1 ELSE stop)
            [] OTHER -> Scan("TError", NoValue, m)
  BY <1>2, <1>5, Zenon DEF scanBody, Q
<1>. HIDE DEF s
<1>7. CASE At(src, m) = Quote
  <2>1. m \in 1..Len(src) BY <1>7, <1>3, QuoteDiffers, InText, Zenon
  <2>2. s = Scan(kind, String(Decoded(src, b, m - b)), m + 1) BY <1>6, <1>7, QuoteDiffers
  <2>3. m + 1 \in (p + 1)..(Len(src) + 1) BY <2>1
  <2>4. OnOneLine(src, p, m + 1) BY <1>7, <1>3, <1>4, <1>1, QuoteDiffers, OneLineStep, Zenon
  <2>5. Fits(src, p, Scan(kind, String(Decoded(src, b, m - b)), m + 1))
    BY <2>3, <2>4, ScanFits, Zenon
  <2>. QED BY <2>2, <2>5, Zenon DEF s
<1>8. CASE At(src, m) = "\\" /\ At(src, m + 1) # "eof"
  <2>. DEFINE e == IF At(src, stop) = Quote THEN stop + 1 ELSE stop
  <2>1. s = Scan("TError", NoValue, e) BY <1>6, <1>8, QuoteDiffers
  <2>2. stop \in Nat \ {0} BY <1>3
  <2>3. At(src, stop) = Quote => stop \in 1..Len(src) BY <2>2, InText, QuoteDiffers, Zenon
  <2>4. stop # m BY <1>5, <1>8, QuoteDiffers DEF Q
  <2>5. e \in (p + 1)..(Len(src) + 1) BY <2>2, <2>3, <2>4
  <2>6. OnOneLine(src, p, stop)
    <3>1. OnOneLine(src, m, stop) BY <1>5, Zenon DEF OnOneLine, Q
    <3>. QED BY <3>1, <2>2, <1>1, <1>3, <1>4, OneLineJoin, Zenon
  <2>7. OnOneLine(src, p, e) BY <2>6, <2>2, <1>1, OneLineStep, QuoteDiffers, Zenon
  <2>. HIDE DEF e
  <2>8. Fits(src, p, Scan("TError", NoValue, e)) BY <2>5, <2>7, ScanFits, Zenon
  <2>. QED BY <2>1, <2>8, Zenon DEF s
<1>9. CASE At(src, m) # Quote /\ ~(At(src, m) = "\\" /\ At(src, m + 1) # "eof")
  <2>1. s = Scan("TError", NoValue, m) BY <1>6, <1>9
  <2>2. m \in (p + 1)..(Len(src) + 1) OBVIOUS
  <2>3. Fits(src, p, Scan("TError", NoValue, m)) BY <2>2, <1>4, ScanFits, Zenon
  <2>. QED BY <2>1, <2>3, Zenon DEF s
<1>. QED BY <1>7, <1>8, <1>9, Zenon

(* Digits and letters are neither a newline nor the end of the text.       *)
LEMMA PlainBytes ==
    /\ "eof" \notin Digit /\ "\n" \notin Digit /\ "eof" \notin Lower /\ "\n" \notin Lower
    /\ "eof" \notin IdentCont /\ "\n" \notin IdentCont
BY DEF Digit, Lower, IdentCont

(* scanBytes stays inside the text and on the line, terminated or not.     *)
LEMMA ScanBytesFits ==
    ASSUME NEW src \in Seq(Byte), NEW p \in Nat \ {0}, p + 2 \in 1..Len(src),
           OnOneLine(src, p, p + 3)
    PROVE  Fits(src, p, scanBytes(src, p))
<1>. DEFINE Q == {Quote, "\n"}
            s == scanBytes(src, p)
<1>1. PICK b \in 1..(Len(src) + 1) : b = p + 3 OBVIOUS
<1>. HIDE DEF Q
<1>2. PICK e \in b..(Len(src) + 1) :
        /\ e = Until(src, b, Q)
        /\ \A q \in b..(e - 1) : At(src, q) \notin Q
        /\ At(src, e) \in Q \cup {"eof"}
  BY UntilFacts, Zenon
<1>3. e \in Nat \ {0} /\ e \in (p + 1)..(Len(src) + 1) /\ p \in Nat /\ b \in Nat BY <1>1
<1>4. OnOneLine(src, p, e)
  <2>1. OnOneLine(src, b, e) BY <1>2, Zenon DEF OnOneLine, Q
  <2>. QED BY <2>1, <1>1, <1>3, OneLineJoin, Zenon
<1>5. PICK ok \in BOOLEAN :
        s = CASE At(src, e) # Quote -> Scan("TError", NoValue, e)
              [] At(src, e) = Quote /\ ~ok -> Scan("TError", NoValue, e + 1)
              [] OTHER -> Scan("TBytes", String(SubSeq(src, p + 3, e - 1)), e + 1)
  <2>. DEFINE dec == /\ (e - p - 3) % 2 = 0
                     /\ \A i \in (p + 3)..(e - 1) : At(src, i) \in Hex
  <2>1. s = CASE At(src, e) # Quote -> Scan("TError", NoValue, e)
              [] At(src, e) = Quote /\ ~dec -> Scan("TError", NoValue, e + 1)
              [] OTHER -> Scan("TBytes", String(SubSeq(src, p + 3, e - 1)), e + 1)
    BY <1>1, <1>2, Zenon DEF scanBytes, Q
  <2>2. dec \in BOOLEAN BY Zenon
  <2>. HIDE DEF dec, s
  <2>. QED BY <2>1, <2>2, Zenon
<1>. HIDE DEF s
<1>6. CASE At(src, e) # Quote
  <2>1. s = Scan("TError", NoValue, e) BY <1>5, <1>6
  <2>2. Fits(src, p, Scan("TError", NoValue, e)) BY <1>3, <1>4, ScanFits, Zenon
  <2>. QED BY <2>1, <2>2, Zenon DEF s
<1>7. CASE At(src, e) = Quote
  <2>1. PICK kind, v : kind # "TEOF" /\ s = Scan(kind, v, e + 1) BY <1>5, <1>7
  <2>2. e \in 1..Len(src) BY <1>3, <1>7, QuoteDiffers, InText, Zenon
  <2>3. e + 1 \in (p + 1)..(Len(src) + 1) BY <2>2, <1>3
  <2>4. OnOneLine(src, p, e + 1) BY <1>3, <1>4, <1>7, QuoteDiffers, OneLineStep, Zenon
  <2>5. Fits(src, p, Scan(kind, v, e + 1)) BY <2>1, <2>3, <2>4, ScanFits, Zenon
  <2>. QED BY <2>1, <2>5, Zenon DEF s
<1>. QED BY <1>6, <1>7, Zenon

(* The loops of scanIdentOrKeyword stop where an identifier ends.          *)
LEMMA IdentFacts ==
    ASSUME NEW src \in Seq(Byte), NEW p \in 1..Len(src),
           NEW m, m = Min({q \in (p + 1)..(Len(src) + 1) : IdentEnds(src, q)})
    PROVE  /\ m \in (p + 1)..(Len(src) + 1)
           /\ IdentEnds(src, m)
           /\ \A q \in (p + 1)..(m - 1) : ~IdentEnds(src, q)
<1>. DEFINE Q == {q \in (p + 1)..(Len(src) + 1) : IdentEnds(src, q)}
<1>1. p + 1 \in Nat /\ Len(src) + 1 \in Nat \ {0} /\ Len(src) + 1 \in (p + 1)..(Len(src) + 1) OBVIOUS
<1>2. At(src, Len(src) + 1) = "eof" BY AtByte
<1>3. IdentEnds(src, Len(src) + 1) BY <1>2, PlainBytes DEF IdentEnds
<1>4. Q # {} BY <1>1, <1>3, Zenon
<1>5. Q \subseteq (p + 1)..(Len(src) + 1) BY Zenon
<1>6. m \in Q /\ m \in (p + 1)..(Len(src) + 1) /\ \A y \in (p + 1)..(m - 1) : y \notin Q
  <2>1. m = Min(Q) OBVIOUS
  <2>2. PICK b \in Nat, n \in Nat : b = p + 1 /\ n = Len(src) + 1 BY <1>1
  <2>3. Q \subseteq b..n BY <2>2, <1>5
  <2>. HIDE DEF Q
  <2>4. m \in Q /\ m \in b..n /\ \A y \in b..(m - 1) : y \notin Q
    BY <2>1, <2>3, <1>4, FirstPosition
  <2>. QED BY <2>2, <2>4, Zenon
<1>7. \A y \in (p + 1)..(m - 1) : y \in (p + 1)..(Len(src) + 1) BY <1>6
<1>. QED BY <1>6, <1>7, Zenon

(* scanIdentOrKeyword stays inside the text and on the line, dots          *)
(* included.                                                               *)
LEMMA ScanIdentFits ==
    ASSUME NEW src \in Seq(Byte), NEW p \in 1..Len(src), At(src, p) \in Lower
    PROVE  Fits(src, p, scanIdentOrKeyword(src, p))
<1>. DEFINE s == scanIdentOrKeyword(src, p)
<1>1. PICK m \in (p + 1)..(Len(src) + 1) :
        /\ m = Min({q \in (p + 1)..(Len(src) + 1) : IdentEnds(src, q)})
        /\ \A q \in (p + 1)..(m - 1) : ~IdentEnds(src, q)
  BY IdentFacts, Zenon
<1>2. PICK kind, v : kind # "TEOF" /\ s = Scan(kind, v, m)
  <2>. DEFINE w == String(SubSeq(src, p, m - 1))
  <2>1. s = Scan(CASE w \in {"true", "false"} -> "TBool"
                   [] w \in Keywords -> "TKeyword"
                   [] OTHER -> "TIdent", w, m)
    BY <1>1, Zenon DEF scanIdentOrKeyword
  <2>. HIDE DEF w, s
  <2>. QED BY <2>1
<1>3. OnOneLine(src, p, m)
  <2>1. OnOneLine(src, p + 1, m) BY <1>1, PlainBytes DEF OnOneLine, IdentEnds
  <2>2. OnOneLine(src, p, p + 1) BY PlainBytes DEF OnOneLine
  <2>. QED BY <2>1, <2>2, OneLineJoin
<1>4. Fits(src, p, Scan(kind, v, m)) BY <1>2, <1>3, ScanFits, Zenon
<1>. QED BY <1>2, <1>4, Zenon

(* A duration unit lies inside the text and on one line.                   *)
LEMMA UnitFacts ==
    ASSUME NEW src \in Seq(Byte), NEW p \in 1..(Len(src) + 1),
           NEW u, u = matchDurationUnit(src, p)
    PROVE  /\ u \in Nat
           /\ u # 0 => p + u \in (p + 1)..(Len(src) + 1) /\ OnOneLine(src, p, p + u)
           /\ u # 0 => At(src, p) \notin {"eof", "\n", ".", "e", "E"}
<1>. DEFINE c == At(src, p)
            d == At(src, p + 1)
            e == At(src, p + 2)
<1>1. u = CASE c \in {"n", "u", "m"} /\ d = "s" -> 2
            [] c \in {"s", "h"} \/ (c = "m" /\ ~(d = "s")) -> 1
            [] c = "c2" /\ d = "b5" /\ e = "s" -> 3
            [] OTHER -> 0
  BY Zenon DEF matchDurationUnit
<1>2. (c # "eof" => p <= Len(src)) /\ (d # "eof" => p + 1 <= Len(src)) /\ (e # "eof" => p + 2 <= Len(src))
  BY DEF At
<1>3. (u = 1 => c # "\n") /\ (u = 2 => c # "\n" /\ d # "\n") /\ (u = 3 => c # "\n" /\ d # "\n" /\ e # "\n")
  <2>. HIDE DEF c, d, e
  <2>. QED BY <1>1
<1>4. /\ u \in {0, 1, 2, 3}
      /\ u # 0 => c \notin {"eof", "\n", ".", "e", "E"}
      /\ u = 2 => d # "eof"
      /\ u = 3 => e # "eof"
  <2>. HIDE DEF c, d, e
  <2>. QED BY <1>1
<1>5. u # 0 => OnOneLine(src, p, p + u)
  <2>1. OnOneLine(src, p, p) BY DEF OnOneLine
  <2>2. p \in Nat /\ p + 1 \in Nat /\ p + 2 \in Nat /\ p + 1 + 1 = p + 2 /\ p + 2 + 1 = p + 3 OBVIOUS
  <2>3. c # "\n" => OnOneLine(src, p, p + 1) BY <2>1, <2>2, OneLineStep, Zenon
  <2>4. c # "\n" /\ d # "\n" => OnOneLine(src, p, p + 2)
    <3>1. c # "\n" /\ d # "\n" => OnOneLine(src, p, p + 1 + 1) BY <2>3, <2>2, OneLineStep, Zenon
    <3>. QED BY <3>1, <2>2, Zenon
  <2>5. c # "\n" /\ d # "\n" /\ e # "\n" => OnOneLine(src, p, p + 3)
    <3>1. c # "\n" /\ d # "\n" /\ e # "\n" => OnOneLine(src, p, p + 2 + 1) BY <2>4, <2>2, OneLineStep, Zenon
    <3>. QED BY <3>1, <2>2, Zenon
  <2>. HIDE DEF c, d, e
  <2>. QED BY <2>3, <2>4, <2>5, <1>3, <1>4
<1>6. u \in Nat /\ (u # 0 => p + u \in (p + 1)..(Len(src) + 1))
  <2>. HIDE DEF c, d, e
  <2>. QED BY <1>2, <1>4
<1>. QED BY <1>4, <1>5, <1>6, Zenon

(* The loop of scanNumber over a duration stops where the chain of digits  *)
(* and units ends.                                                         *)
LEMMA DurationFacts ==
    ASSUME NEW src \in Seq(Byte), NEW p \in 1..(Len(src) + 1),
           NEW m, m = durationEnd(src, p)
    PROVE  /\ m \in p..(Len(src) + 1)
           /\ ChainEnds(src, m)
           /\ \A q \in p..(m - 1) : ~ChainEnds(src, q)
<1>. DEFINE Q == {q \in p..(Len(src) + 1) : ChainEnds(src, q)}
            n == Len(src) + 1
<1>1. p \in Nat /\ n \in Nat \ {0} /\ n \in p..n /\ n \in 1..n OBVIOUS
<1>2. At(src, n) = "eof" BY AtByte
<1>3. ChainEnds(src, n)
  <2>1. matchDurationUnit(src, n) = 0 BY <1>1, <1>2, UnitFacts, Zenon
  <2>. HIDE DEF n
  <2>. QED BY <1>2, <2>1, PlainBytes DEF ChainEnds
<1>4. Q # {} BY <1>1, <1>3, Zenon
<1>5. Q \subseteq p..(Len(src) + 1) BY Zenon
<1>6. m \in Q /\ m \in p..(Len(src) + 1) /\ \A y \in p..(m - 1) : y \notin Q
  <2>1. m = Min(Q) BY Zenon DEF durationEnd
  <2>2. PICK k \in Nat : k = Len(src) + 1 BY <1>1
  <2>. HIDE DEF Q
  <2>3. Q \subseteq p..k BY <2>2, <1>5, Zenon
  <2>4. m \in Q /\ m \in p..k /\ \A y \in p..(m - 1) : y \notin Q
    BY <2>1, <2>3, <1>1, <1>4, FirstPosition, Zenon
  <2>. QED BY <2>2, <2>4, Zenon
<1>7. \A y \in p..(m - 1) : y \in p..(Len(src) + 1) BY <1>6
<1>. QED BY <1>6, <1>7, Zenon

(* A duration stays on its line.                                           *)
LEMMA ChainOnOneLine ==
    ASSUME NEW src \in Seq(Byte), NEW p \in 1..(Len(src) + 1), NEW m \in p..(Len(src) + 1),
           \A q \in p..(m - 1) : ~ChainEnds(src, q)
    PROVE  OnOneLine(src, p, m)
<1>. SUFFICES ASSUME NEW q \in p..(m - 1), At(src, q) = "\n" PROVE FALSE
  BY DEF OnOneLine
<1>1. ~ChainEnds(src, q) OBVIOUS
<1>2. q \in 1..(Len(src) + 1) OBVIOUS
<1>3. matchDurationUnit(src, q) = 0 BY <1>2, UnitFacts, Zenon
<1>. QED BY <1>1, <1>3, PlainBytes DEF ChainEnds

(* A run of digits, from a digit or not.                                   *)
LEMMA DigitsFacts ==
    ASSUME NEW src \in Seq(Byte), NEW p \in 1..(Len(src) + 1), NEW m, m = Past(src, p, Digit)
    PROVE  /\ m \in p..(Len(src) + 1)
           /\ \A q \in p..(m - 1) : At(src, q) \in Digit
           /\ At(src, m) \notin Digit
           /\ OnOneLine(src, p, m)
           /\ At(src, p) \in Digit => m # p
<1>1. /\ m \in p..(Len(src) + 1)
      /\ \A q \in p..(m - 1) : At(src, q) \in Digit
      /\ At(src, m) \notin Digit
  BY PlainBytes, PastFacts, Zenon
<1>2. OnOneLine(src, p, m) BY <1>1, PlainBytes, Zenon DEF OnOneLine
<1>. QED BY <1>1, <1>2, Zenon

(* The e or E of an exponent, its sign, and the byte after them.           *)
LEMMA SignFacts ==
    ASSUME NEW src \in Seq(Byte), NEW p \in 1..Len(src), At(src, p) \in {"e", "E"},
           NEW x, x = AfterSign(src, p)
    PROVE  x \in (p + 1)..(Len(src) + 1) /\ OnOneLine(src, p, x)
<1>1. p \in Nat /\ p + 1 \in Nat \ {0} /\ p + 1 + 1 = p + 2 OBVIOUS
<1>2. OnOneLine(src, p, p) BY DEF OnOneLine
<1>3. OnOneLine(src, p, p + 1) BY <1>1, <1>2, OneLineStep, Zenon
<1>4. CASE At(src, p + 1) \in {"+", "-"}
  <2>1. p + 1 \in 1..Len(src) BY <1>1, <1>4, InText, Zenon
  <2>2. x = p + 2 BY <1>4 DEF AfterSign
  <2>3. OnOneLine(src, p, p + 1 + 1) BY <1>1, <1>3, <1>4, OneLineStep, Zenon
  <2>4. OnOneLine(src, p, x) BY <2>2, <2>3, <1>1, Zenon
  <2>. QED BY <2>1, <2>2, <2>4
<1>5. CASE At(src, p + 1) \notin {"+", "-"}
  <2>1. x = p + 1 BY <1>5 DEF AfterSign
  <2>. QED BY <2>1, <1>3
<1>. QED BY <1>4, <1>5

(* scanNumber stays inside the text and on the line; the column runs ahead *)
(* after the integer of a malformed exponent only.                         *)
LEMMA ScanNumberFits ==
    ASSUME NEW src \in Seq(Byte), NEW p \in 1..Len(src), At(src, p) \in Digit
    PROVE  Fits(src, p, scanNumber(src, p))
<1>. DEFINE s == scanNumber(src, p)
            fits(kind, v, e) == s = Scan(kind, v, e) /\ kind # "TEOF"
                                  /\ e \in (p + 1)..(Len(src) + 1) /\ OnOneLine(src, p, e)
<1>. USE DEF Text
<1>1. p \in 1..(Len(src) + 1) /\ p \in Nat OBVIOUS
<1>2. PICK d \in p..(Len(src) + 1) :
        d = Past(src, p, Digit) /\ At(src, d) \notin Digit /\ OnOneLine(src, p, d) /\ d # p
  BY <1>1, DigitsFacts, Zenon
<1>3. d \in Nat \ {0} /\ d \in (p + 1)..(Len(src) + 1) /\ d \in 1..(Len(src) + 1) BY <1>2
<1>4. \A kind, v, e : fits(kind, v, e) => Fits(src, p, s) BY ScanFits, Zenon
<1>5. CASE At(src, d) = "."
  <2>1. d \in 1..Len(src) BY <1>3, <1>5, InText, Zenon
  <2>2. PICK g \in 1..(Len(src) + 1) : g = d + 1 BY <2>1
  <2>3. g \in Nat \ {0} /\ g \in (p + 1)..(Len(src) + 1) BY <2>2, <1>3
  <2>4. OnOneLine(src, p, g) BY <2>2, <1>1, <1>2, <1>3, <1>5, OneLineStep, Zenon
  <2>5. CASE At(src, g) \notin Digit
    <3>1. s = Scan("TError", NoValue, g) BY <1>2, <1>5, <2>2, <2>5 DEF scanNumber
    <3>2. fits("TError", NoValue, g) BY <3>1, <2>3, <2>4, Zenon
    <3>. QED BY <3>2, <1>4, Zenon
  <2>6. CASE At(src, g) \in Digit
    <3>1. PICK f \in g..(Len(src) + 1) : f = Past(src, g, Digit) /\ OnOneLine(src, g, f)
      BY DigitsFacts, Zenon
    <3>2. f \in Nat \ {0} /\ f \in (p + 1)..(Len(src) + 1) BY <2>3
    <3>3. OnOneLine(src, p, f) BY <1>1, <2>3, <3>2, <2>4, <3>1, OneLineJoin, Zenon
    <3>4. s = IF At(src, f) \notin {"e", "E"} THEN Text(src, "TFloat", p, f)
              ELSE LET x == AfterSign(src, f)
                   IN  IF At(src, x) \in Digit
                       THEN Text(src, "TFloat", p, Past(src, x, Digit))
                       ELSE Scan("TError", NoValue, x)
      BY <1>2, <1>5, <2>2, <2>6, <3>1 DEF scanNumber
    <3>5. CASE At(src, f) \notin {"e", "E"}
      <4>1. fits("TFloat", String(SubSeq(src, p, f - 1)), f) BY <3>2, <3>3, <3>4, <3>5, Zenon
      <4>. QED BY <4>1, <1>4, Zenon
    <3>6. CASE At(src, f) \in {"e", "E"}
      <4>1. f \in 1..Len(src) BY <3>2, <3>6, InText, Zenon
      <4>2. PICK x \in (f + 1)..(Len(src) + 1) : x = AfterSign(src, f) /\ OnOneLine(src, f, x)
        BY <4>1, <3>6, SignFacts, Zenon
      <4>3. x \in Nat \ {0} /\ x \in (p + 1)..(Len(src) + 1) /\ x \in 1..(Len(src) + 1) BY <3>2
      <4>4. OnOneLine(src, p, x) BY <1>1, <3>2, <4>3, <3>3, <4>2, OneLineJoin, Zenon
      <4>5. CASE At(src, x) \notin Digit
        <5>1. fits("TError", NoValue, x) BY <3>4, <3>6, <4>2, <4>3, <4>4, <4>5, Zenon
        <5>. QED BY <5>1, <1>4, Zenon
      <4>6. CASE At(src, x) \in Digit
        <5>1. PICK e \in x..(Len(src) + 1) : e = Past(src, x, Digit) /\ OnOneLine(src, x, e)
          BY <4>3, DigitsFacts, Zenon
        <5>2. e \in Nat /\ e \in (p + 1)..(Len(src) + 1) BY <4>3
        <5>3. OnOneLine(src, p, e) BY <1>1, <4>3, <5>2, <4>4, <5>1, OneLineJoin, Zenon
        <5>4. fits("TFloat", String(SubSeq(src, p, e - 1)), e)
          BY <3>4, <3>6, <4>2, <4>6, <5>1, <5>2, <5>3, Zenon
        <5>. QED BY <5>4, <1>4, Zenon
      <4>. QED BY <4>5, <4>6, Zenon
    <3>. QED BY <3>5, <3>6, Zenon
  <2>. QED BY <2>5, <2>6, Zenon
<1>6. CASE At(src, d) \in {"e", "E"}
  <2>1. d \in 1..Len(src) BY <1>3, <1>6, InText, Zenon
  <2>2. PICK x \in (d + 1)..(Len(src) + 1) : x = AfterSign(src, d) /\ OnOneLine(src, d, x)
    BY <2>1, <1>6, SignFacts, Zenon
  <2>3. x \in Nat \ {0} /\ x \in (p + 1)..(Len(src) + 1) /\ x \in 1..(Len(src) + 1) BY <1>3
  <2>4. OnOneLine(src, p, x) BY <1>1, <1>2, <1>3, <2>2, <2>3, OneLineJoin, Zenon
  <2>5. s = IF At(src, x) \in Digit
            THEN Text(src, "TFloat", p, Past(src, x, Digit))
            ELSE [Text(src, "TInt", p, d) EXCEPT !.drift = x - d]
    BY <1>2, <1>6, <2>2 DEF scanNumber
  <2>6. CASE At(src, x) \in Digit
    <3>1. PICK e \in x..(Len(src) + 1) : e = Past(src, x, Digit) /\ OnOneLine(src, x, e)
      BY <2>3, DigitsFacts, Zenon
    <3>2. e \in Nat /\ e \in (p + 1)..(Len(src) + 1) BY <2>3
    <3>3. OnOneLine(src, p, e) BY <1>1, <2>3, <3>2, <2>4, <3>1, OneLineJoin, Zenon
    <3>4. fits("TFloat", String(SubSeq(src, p, e - 1)), e)
      BY <2>5, <2>6, <3>1, <3>2, <3>3, Zenon
    <3>. QED BY <3>4, <1>4, Zenon
  <2>7. CASE At(src, x) \notin Digit
    <3>1. s = [kind |-> "TInt", value |-> String(SubSeq(src, p, d - 1)), end |-> d, drift |-> x - d]
      BY <2>5, <2>7 DEF Scan
    <3>. HIDE DEF s
    <3>2. Fits(src, p, s) BY <3>1, <1>2, <1>3, <1>6 DEF Fits
    <3>. QED BY <3>2, Zenon DEF s
  <2>. QED BY <2>6, <2>7, Zenon
<1>7. CASE At(src, d) \notin {".", "e", "E"}
  <2>1. PICK u \in Nat :
          /\ u = matchDurationUnit(src, d)
          /\ u # 0 => d + u \in (d + 1)..(Len(src) + 1) /\ OnOneLine(src, d, d + u)
    BY <1>3, UnitFacts, Zenon
  <2>2. s = IF u = 0 THEN Text(src, "TInt", p, d)
            ELSE Text(src, "TDuration", p, durationEnd(src, d + u))
    BY <1>2, <1>7, <2>1 DEF scanNumber
  <2>3. CASE u = 0
    <3>1. fits("TInt", String(SubSeq(src, p, d - 1)), d) BY <2>2, <2>3, <1>2, <1>3, Zenon
    <3>. QED BY <3>1, <1>4, Zenon
  <2>4. CASE u # 0
    <3>1. PICK b \in 1..(Len(src) + 1) : b = d + u BY <2>1, <2>4, <1>3
    <3>2. b \in Nat /\ b > p BY <3>1, <2>1, <1>3
    <3>3. OnOneLine(src, p, b) BY <1>1, <1>2, <1>3, <2>1, <2>4, <3>1, <3>2, OneLineJoin, Zenon
    <3>4. PICK e \in b..(Len(src) + 1) : e = durationEnd(src, b) /\ \A q \in b..(e - 1) : ~ChainEnds(src, q)
      BY DurationFacts, Zenon
    <3>5. OnOneLine(src, b, e) BY <3>4, ChainOnOneLine, Zenon
    <3>6. e \in Nat /\ e \in (p + 1)..(Len(src) + 1) BY <3>2
    <3>7. OnOneLine(src, p, e) BY <1>1, <3>2, <3>3, <3>5, <3>6, OneLineJoin, Zenon
    <3>8. fits("TDuration", String(SubSeq(src, p, e - 1)), e)
      BY <2>2, <2>4, <3>1, <3>4, <3>6, <3>7, Zenon
    <3>. QED BY <3>8, <1>4, Zenon
  <2>. QED BY <2>3, <2>4, Zenon
<1>. QED BY <1>5, <1>6, <1>7, Zenon

(* Three bytes in the text: a prefix and its quote.                        *)
LEMMA PrefixFits ==
    ASSUME NEW src \in Seq(Byte), NEW p \in 1..Len(src), OnOneLine(src, p, p + 1),
           NEW a, NEW b \in {"x", "s", "p"}, Prefix(src, p, a, b)
    PROVE  p + 2 \in 1..Len(src) /\ OnOneLine(src, p, p + 3) /\ p + 3 \in (p + 1)..(Len(src) + 1)
<1>1. /\ p \in Nat \ {0} /\ p + 1 \in Nat \ {0} /\ p + 2 \in Nat \ {0} /\ p + 1 + 1 = p + 2
      /\ p + 2 + 1 = p + 3
  OBVIOUS
<1>2. p + 2 \in 1..Len(src) BY <1>1, QuoteDiffers, InText, Zenon DEF Prefix
<1>3. At(src, p + 1) # "\n" /\ At(src, p + 2) # "\n" BY QuoteDiffers, Zenon DEF Prefix
<1>4. OnOneLine(src, p, p + 1 + 1) BY <1>1, <1>3, OneLineStep, Zenon
<1>5. OnOneLine(src, p, p + 2) BY <1>4, <1>1, Zenon
<1>6. OnOneLine(src, p, p + 2 + 1) BY <1>1, <1>3, <1>5, OneLineStep, Zenon
<1>7. OnOneLine(src, p, p + 3) BY <1>6, <1>1, Zenon
<1>. QED BY <1>2, <1>7

(* Every scan moves the cursor, stays inside the text and on its line.     *)
LEMMA ScanTokenFits ==
    ASSUME NEW src \in Seq(Byte), NEW p \in 1..Len(src), At(src, p) # "\n"
    PROVE  Fits(src, p, scanToken(src, p))
<1>. DEFINE c == At(src, p)
            P == DOMAIN Punctuation
<1>1. p \in Nat \ {0} /\ p + 1 \in (p + 1)..(Len(src) + 1) OBVIOUS
<1>2. OnOneLine(src, p, p + 1)
  <2>1. OnOneLine(src, p, p) BY DEF OnOneLine
  <2>. QED BY <2>1, <1>1, OneLineStep, Zenon
<1>3. CASE c = Quote
  <2>1. Fits(src, p, scanBody(src, p + 1, "TString")) BY <1>1, <1>2, ScanBodyFits, Zenon
  <2>. QED BY <1>3, <2>1, ScanTokenCases, Zenon
<1>4. CASE Prefix(src, p, "0", "x")
  <2>1. Fits(src, p, scanBytes(src, p)) BY <1>1, <1>2, <1>4, PrefixFits, ScanBytesFits, Zenon
  <2>. QED BY <1>4, <2>1, ScanTokenCases, Zenon
<1>5. CASE Prefix(src, p, "t", "s")
  <2>1. Fits(src, p, scanBody(src, p + 3, "TTimestamp"))
    BY <1>2, <1>5, PrefixFits, ScanBodyFits, Zenon
  <2>. QED BY <1>5, <2>1, ScanTokenCases, Zenon
<1>6. CASE Prefix(src, p, "i", "p")
  <2>1. Fits(src, p, scanBody(src, p + 3, "TIP"))
    BY <1>2, <1>6, PrefixFits, ScanBodyFits, Zenon
  <2>. QED BY <1>6, <2>1, ScanTokenCases, Zenon
<1>7. CASE c \in Digit /\ ~Prefix(src, p, "0", "x")
  <2>1. Fits(src, p, scanNumber(src, p)) BY <1>7, ScanNumberFits, Zenon
  <2>. QED BY <1>7, <2>1, ScanTokenCases, Zenon
<1>8. CASE c \in Lower /\ ~Prefix(src, p, "t", "s") /\ ~Prefix(src, p, "i", "p")
  <2>1. Fits(src, p, scanIdentOrKeyword(src, p)) BY <1>8, ScanIdentFits, Zenon
  <2>. QED BY <1>8, <2>1, ScanTokenCases, Zenon
<1>9. CASE c \in P
  <2>1. Fits(src, p, Scan(Punctuation[c], NoValue, p + 1))
    BY <1>1, <1>2, <1>9, PunctuationKinds, ScanFits, Zenon
  <2>. QED BY <1>9, <2>1, ScanTokenCases, Zenon
<1>10. CASE c \notin {Quote} \cup Digit \cup Lower \cup P
  <2>1. Fits(src, p, Scan("TError", NoValue, p + 1)) BY <1>1, <1>2, ScanFits, Zenon
  <2>. QED BY <1>10, <2>1, ScanTokenCases, Zenon
<1>. QED BY <1>3, <1>4, <1>5, <1>6, <1>7, <1>8, <1>9, <1>10, Zenon

-----------------------------------------------------------------------------
(* A token reads the same on its own: what a scanner finds in the bytes it *)
(* covers, with nothing after them.                                        *)

(* t is a stretch of src that starts after byte d.                         *)
Part(src, t, d) ==
    /\ t \in Seq(Byte)
    /\ d + Len(t) <= Len(src)
    /\ \A j \in 1..Len(t) : At(t, j) = At(src, j + d)
    /\ At(t, Len(t) + 1) = "eof"

(* The bytes a token covers are a part of the text.                        *)
LEMMA SlicePart ==
    ASSUME NEW src \in Seq(Byte), NEW p \in 1..Len(src), NEW e \in (p + 1)..(Len(src) + 1),
           NEW t, t = SubSeq(src, p, e - 1)
    PROVE  Part(src, t, p - 1) /\ Len(t) = e - p
<1>1. e - 1 \in 1..Len(src) OBVIOUS
<1>2. /\ t \in Seq(Byte) /\ Len(t) = e - 1 - p + 1
      /\ \A i \in 1..(e - 1 - p + 1) : t[i] = src[p + i - 1]
  BY <1>1
<1>3. Len(t) = e - p /\ Len(t) \in Nat BY <1>2
<1>4. \A j \in 1..Len(t) : At(t, j) = At(src, j + (p - 1))
  <2>. TAKE j \in 1..Len(t)
  <2>1. j \in 1..(e - 1 - p + 1) /\ p + j - 1 = j + (p - 1) /\ j + (p - 1) <= Len(src) BY <1>3
  <2>. QED BY <2>1, <1>2 DEF At
<1>5. At(t, Len(t) + 1) = "eof" BY <1>3 DEF At
<1>6. p - 1 + Len(t) <= Len(src) BY <1>3
<1>. QED BY <1>2, <1>3, <1>4, <1>5, <1>6 DEF Part

(* The first position that satisfies a condition is the one before which   *)
(* none does.                                                              *)
LEMMA FirstIs ==
    ASSUME NEW p \in Nat, NEW n \in Nat, NEW S, S \subseteq p..n, NEW m \in S,
           \A y \in p..(m - 1) : y \notin S
    PROVE  Min(S) = m
<1>1. S # {} OBVIOUS
<1>2. PICK k \in p..n : k = Min(S) /\ k \in S /\ \A y \in p..(k - 1) : y \notin S
  <2>1. \A k : k = Min(S) => k \in S /\ k \in p..n /\ \A y \in p..(k - 1) : y \notin S
    BY <1>1, FirstPosition
  <2>. QED BY <2>1, Zenon
<1>3. m \in p..n OBVIOUS
<1>4. ~(k < m)
  <2>1. k < m => k \in p..(m - 1) BY <1>3
  <2>. QED BY <2>1, <1>2
<1>5. ~(m < k)
  <2>1. m < k => m \in p..(k - 1) BY <1>3
  <2>. QED BY <2>1, <1>2
<1>. QED BY <1>2, <1>3, <1>4, <1>5

(* The end of a run of bytes of S is the place with the run before it.     *)
LEMMA PastIs ==
    ASSUME NEW src \in Seq(Byte), NEW p \in 1..(Len(src) + 1), NEW S, NEW m \in p..(Len(src) + 1),
           \A q \in p..(m - 1) : At(src, q) \in S, At(src, m) \notin S
    PROVE  Past(src, p, S) = m
<1>. DEFINE Q == {q \in p..(Len(src) + 1) : At(src, q) \notin S}
<1>1. p \in Nat /\ Len(src) + 1 \in Nat /\ Q \subseteq p..(Len(src) + 1) OBVIOUS
<1>2. m \in Q /\ \A y \in p..(m - 1) : y \notin Q BY Zenon
<1>3. Min(Q) = m
  <2>. HIDE DEF Q
  <2>. QED BY <1>1, <1>2, FirstIs
<1>. QED BY <1>3, Zenon DEF Past

(* The first byte of S is the one with none before it.                     *)
LEMMA UntilIs ==
    ASSUME NEW src \in Seq(Byte), NEW p \in 1..(Len(src) + 1), NEW S, NEW m \in p..(Len(src) + 1),
           \A q \in p..(m - 1) : At(src, q) \notin S, At(src, m) \in S \cup {"eof"}
    PROVE  Until(src, p, S) = m
<1>. DEFINE Q == {q \in p..(Len(src) + 1) : At(src, q) \in S \cup {"eof"}}
<1>1. p \in Nat /\ Len(src) + 1 \in Nat /\ Q \subseteq p..(Len(src) + 1) OBVIOUS
<1>2. \A q \in p..(m - 1) : At(src, q) # "eof" BY AtByte
<1>3. m \in Q /\ \A y \in p..(m - 1) : y \notin Q BY <1>2, Zenon
<1>4. Min(Q) = m
  <2>. HIDE DEF Q
  <2>. QED BY <1>1, <1>3, FirstIs
<1>. QED BY <1>4, Zenon DEF Until

(* A body stops at the byte with no stop before it.                        *)
LEMMA BodyIs ==
    ASSUME NEW src \in Seq(Byte), NEW p \in 1..(Len(src) + 1), NEW m \in p..(Len(src) + 1),
           \A q \in p..(m - 1) : ~BodyStops(src, p, q), BodyStops(src, p, m)
    PROVE  Min({i \in p..(Len(src) + 1) : BodyStops(src, p, i)}) = m
<1>. DEFINE Q == {i \in p..(Len(src) + 1) : BodyStops(src, p, i)}
<1>1. p \in Nat /\ Len(src) + 1 \in Nat OBVIOUS
<1>2. Q \subseteq p..(Len(src) + 1) /\ m \in Q /\ \A y \in p..(m - 1) : y \notin Q BY Zenon
<1>. HIDE DEF Q
<1>3. Min(Q) = m BY <1>1, <1>2, FirstIs
<1>. QED BY <1>3, Zenon DEF Q

(* A run of bytes of S, and the stretch up to a byte of S, in a part.      *)
LEMMA PastPart ==
    ASSUME NEW src \in Seq(Byte), NEW t, NEW d \in Nat, Part(src, t, d),
           NEW S, "eof" \notin S, NEW p \in 1..(Len(t) + 1), NEW m \in p..(Len(t) + 1),
           m + d = Past(src, p + d, S)
    PROVE  Past(t, p, S) = m
<1>1. t \in Seq(Byte) /\ Len(t) \in Nat BY DEF Part
<1>2. p + d \in 1..(Len(src) + 1) BY <1>1 DEF Part
<1>3. (\A q \in (p + d)..(m + d - 1) : At(src, q) \in S) /\ At(src, m + d) \notin S
  <2>1. PICK a \in 1..(Len(src) + 1) : a = p + d BY <1>2
  <2>2. PICK b : b = m + d OBVIOUS
  <2>3. b = Past(src, a, S) BY <2>1, <2>2, Zenon
  <2>4. (\A q \in a..(b - 1) : At(src, q) \in S) /\ At(src, b) \notin S BY <2>3, PastFacts, Zenon
  <2>. QED BY <2>1, <2>2, <2>4
<1>4. \A j \in p..(m - 1) : At(t, j) \in S
  <2>. TAKE j \in p..(m - 1)
  <2>1. j \in 1..Len(t) /\ j + d \in (p + d)..(m + d - 1) BY <1>1
  <2>. QED BY <2>1, <1>3 DEF Part
<1>5. At(t, m) \notin S
  <2>1. CASE m = Len(t) + 1 BY <2>1 DEF Part
  <2>2. CASE m # Len(t) + 1
    <3>1. m \in 1..Len(t) BY <1>1, <2>2
    <3>. QED BY <3>1, <1>3 DEF Part
  <2>. QED BY <2>1, <2>2
<1>. QED BY <1>1, <1>4, <1>5, PastIs, Zenon

(* A search that stays in the part stops at the same byte there.           *)
LEMMA UntilPart ==
    ASSUME NEW src \in Seq(Byte), NEW t, NEW d \in Nat, Part(src, t, d),
           NEW S, NEW p \in 1..(Len(t) + 1), NEW m \in p..(Len(t) + 1),
           m + d = Until(src, p + d, S)
    PROVE  Until(t, p, S) = m
<1>1. t \in Seq(Byte) /\ Len(t) \in Nat BY DEF Part
<1>2. p + d \in 1..(Len(src) + 1) BY <1>1 DEF Part
<1>3. (\A q \in (p + d)..(m + d - 1) : At(src, q) \notin S) /\ At(src, m + d) \in S \cup {"eof"}
  <2>1. PICK a \in 1..(Len(src) + 1) : a = p + d BY <1>2
  <2>2. PICK b : b = m + d OBVIOUS
  <2>3. b = Until(src, a, S) BY <2>1, <2>2, Zenon
  <2>4. (\A q \in a..(b - 1) : At(src, q) \notin S) /\ At(src, b) \in S \cup {"eof"} BY <2>3, UntilFacts, Zenon
  <2>. QED BY <2>1, <2>2, <2>4
<1>4. \A j \in p..(m - 1) : At(t, j) \notin S
  <2>. TAKE j \in p..(m - 1)
  <2>1. j \in 1..Len(t) /\ j + d \in (p + d)..(m + d - 1) BY <1>1
  <2>. QED BY <2>1, <1>3 DEF Part
<1>5. At(t, m) \in S \cup {"eof"}
  <2>1. CASE m = Len(t) + 1 BY <2>1 DEF Part
  <2>2. CASE m # Len(t) + 1
    <3>1. m \in 1..Len(t) BY <1>1, <2>2
    <3>. QED BY <3>1, <1>3 DEF Part
  <2>. QED BY <2>1, <2>2
<1>. QED BY <1>1, <1>4, <1>5, UntilIs, Zenon

(* A byte is escaped in the part as in the text.                           *)
LEMMA EscapedPart ==
    ASSUME NEW src \in Seq(Byte), NEW t, NEW d \in Nat, Part(src, t, d),
           NEW p \in 1..(Len(t) + 1), NEW q \in p..(Len(t) + 1)
    PROVE  Escaped(t, p, q) <=> Escaped(src, p + d, q + d)
<1>1. Len(t) \in Nat /\ \A j \in 1..Len(t) : At(t, j) = At(src, j + d) BY DEF Part
<1>2. (q + d) - (p + d) = q - p OBVIOUS
<1>3. \A i \in 1..(q - p) : At(t, q - i) = At(src, q + d - i)
  <2>. TAKE i \in 1..(q - p)
  <2>1. q - i \in 1..Len(t) /\ (q - i) + d = q + d - i BY <1>1
  <2>. QED BY <2>1, <1>1
<1>4. ASSUME NEW n \in 1..(q - p)
      PROVE  /\ (\A i \in 1..n : At(t, q - i) = "\\") <=> (\A i \in 1..n : At(src, q + d - i) = "\\")
             /\ n < q - p => At(t, q - n - 1) = At(src, q + d - n - 1)
  <2>1. \A i \in 1..n : i \in 1..(q - p) OBVIOUS
  <2>2. (\A i \in 1..n : At(t, q - i) = "\\") <=> (\A i \in 1..n : At(src, q + d - i) = "\\")
    BY <2>1, <1>3, Zenon
  <2>3. n < q - p => At(t, q - n - 1) = At(src, q + d - n - 1)
    <3>1. n < q - p => /\ n + 1 \in 1..(q - p)
                       /\ q - (n + 1) = q - n - 1 /\ q + d - (n + 1) = q + d - n - 1
      OBVIOUS
    <3>. QED BY <3>1, <1>3
  <2>. QED BY <2>2, <2>3
<1>5. Escaped(t, p, q) <=>
        \E n \in 1..(q - p) : /\ n % 2 = 1
                              /\ \A i \in 1..n : At(t, q - i) = "\\"
                              /\ n < q - p => At(t, q - n - 1) # "\\"
  BY Zenon DEF Escaped
<1>6. Escaped(src, p + d, q + d) <=>
        \E n \in 1..(q - p) : /\ n % 2 = 1
                              /\ \A i \in 1..n : At(src, q + d - i) = "\\"
                              /\ n < q - p => At(src, q + d - n - 1) # "\\"
  BY <1>2 DEF Escaped
<1>. QED BY <1>4, <1>5, <1>6, Zenon

(* The same token: s at the place of a part in the text, r in the part.    *)
SameToken(s, r, d) ==
    /\ r.kind = s.kind
    /\ s.kind # "TError" => r.value = s.value /\ r.end + d = s.end

(* A body stops in the part where it does in the text, unless the part     *)
(* cuts an escape in two.                                                  *)
LEMMA StopsPart ==
    ASSUME NEW src \in Seq(Byte), NEW t, NEW d \in Nat, Part(src, t, d),
           NEW p \in 1..(Len(t) + 1), NEW q \in p..Len(t), At(t, q) = "\\" => q # Len(t)
    PROVE  BodyStops(t, p, q) <=> BodyStops(src, p + d, q + d)
<1>1. Len(t) \in Nat /\ \A j \in 1..Len(t) : At(t, j) = At(src, j + d) BY DEF Part
<1>2. q \in p..(Len(t) + 1) /\ q \in 1..Len(t) BY <1>1
<1>3. Escaped(t, p, q) <=> Escaped(src, p + d, q + d) BY <1>2, EscapedPart, Zenon
<1>4. At(t, q) = At(src, q + d) BY <1>1, <1>2
<1>5. At(t, q) = "\\" => At(t, q + 1) = At(src, q + d + 1)
  <2>1. At(t, q) = "\\" => q + 1 \in 1..Len(t) /\ (q + 1) + d = q + d + 1 BY <1>1, <1>2
  <2>. QED BY <2>1, <1>1
<1>. QED BY <1>3, <1>4, <1>5, Zenon DEF BodyStops

(* The escapes of a part are decoded as in the text.                       *)
LEMMA DecodedPart ==
    ASSUME NEW src \in Seq(Byte), NEW t, NEW d \in Nat, Part(src, t, d),
           NEW p \in 1..(Len(t) + 1), NEW n \in Nat, p + n <= Len(t)
    PROVE  Decoded(t, p, n) = Decoded(src, p + d, n)
<1>1. Len(t) \in Nat /\ \A j \in 1..Len(t) : At(t, j) = At(src, j + d) BY DEF Part
<1>2. ASSUME NEW i \in 1..n
      PROVE  /\ Escaped(t, p, p + i - 1) <=> Escaped(src, p + d, p + d + i - 1)
             /\ At(t, p + i - 1) = At(src, p + d + i - 1)
             /\ At(t, p + i - 1 + 1) = At(src, p + d + i - 1 + 1)
  <2>1. PICK q \in p..(Len(t) + 1) : q = p + i - 1 BY <1>1
  <2>2. q + d = p + d + i - 1 /\ q + 1 + d = p + d + i - 1 + 1 BY <2>1
  <2>3. q \in 1..Len(t) /\ q + 1 \in 1..Len(t) BY <2>1, <1>1
  <2>4. Escaped(t, p, q) <=> Escaped(src, p + d, q + d) BY EscapedPart, Zenon
  <2>5. At(t, q) = At(src, q + d) /\ At(t, q + 1) = At(src, q + 1 + d) BY <2>3, <1>1
  <2>. QED BY <2>1, <2>2, <2>4, <2>5, Zenon
<1>. QED BY <1>2, Zenon DEF Decoded

(* Two scans of one kind and value that end at the same byte.              *)
LEMMA SameScan ==
    ASSUME NEW kind, NEW value, NEW e, NEW d, NEW f, f + d = e
    PROVE  SameToken(Scan(kind, value, e), Scan(kind, value, f), d)
BY DEF SameToken, Scan

(* Where a body stops and what scanBody makes of it.                       *)
BodyAt(src, b, kind, m, s) ==
    /\ BodyStops(src, b, m)
    /\ \A q \in b..(m - 1) : ~BodyStops(src, b, q)
    /\ At(src, m) = Quote => s = Scan(kind, String(Decoded(src, b, m - b)), m + 1)
    /\ At(src, m) # Quote => /\ s.kind = "TError"
                             /\ s.end = m \/ At(src, m) = "\\"

(* What scanBody answers, by the byte its loop stopped at.                 *)
LEMMA BodyResult ==
    ASSUME NEW src \in Seq(Byte), NEW b \in 1..(Len(src) + 1), NEW kind
    PROVE  \E m \in b..(Len(src) + 1) : BodyAt(src, b, kind, m, scanBody(src, b, kind))
<1>. DEFINE s == scanBody(src, b, kind)
<1>1. PICK m \in b..(Len(src) + 1) :
        /\ m = Min({i \in b..(Len(src) + 1) : BodyStops(src, b, i)})
        /\ BodyStops(src, b, m)
        /\ \A q \in b..(m - 1) : ~BodyStops(src, b, q)
  BY BodyFacts, Zenon
<1>. DEFINE stop == Until(src, m, {Quote, "\n"})
<1>2. s = CASE At(src, m) = Quote -> Scan(kind, String(Decoded(src, b, m - b)), m + 1)
            [] At(src, m) = "\\" /\ At(src, m + 1) # "eof" ->
                 Scan("TError", NoValue, IF At(src, stop) = Quote THEN stop + 1 ELSE stop)
            [] OTHER -> Scan("TError", NoValue, m)
  BY <1>1, Zenon DEF scanBody
<1>. HIDE DEF stop, s
<1>3. At(src, m) = Quote => s = Scan(kind, String(Decoded(src, b, m - b)), m + 1)
  BY <1>2, QuoteDiffers
<1>4. ASSUME At(src, m) # Quote
      PROVE  s.kind = "TError" /\ (s.end = m \/ At(src, m) = "\\")
  BY <1>2, <1>4 DEF Scan
<1>. QED BY <1>1, <1>3, <1>4, Zenon DEF BodyAt, s

(* scanString and scanPrefixString read the same in the bytes they         *)
(* covered.                                                                *)
LEMMA BodyPart ==
    ASSUME NEW src \in Seq(Byte), NEW t, NEW d \in Nat, Part(src, t, d),
           NEW b \in 1..(Len(t) + 1), NEW kind, kind # "TError",
           NEW s, s = scanBody(src, b + d, kind), s.end = Len(t) + d + 1
    PROVE  SameToken(s, scanBody(t, b, kind), d)
<1>1. /\ t \in Seq(Byte) /\ Len(t) \in Nat /\ d + Len(t) <= Len(src) /\ Len(src) \in Nat
      /\ \A j \in 1..Len(t) : At(t, j) = At(src, j + d)
  BY DEF Part
<1>2. PICK B \in 1..(Len(src) + 1) : B = b + d BY <1>1
<1>3. PICK M \in B..(Len(src) + 1) : BodyAt(src, B, kind, M, s)
  BY <1>2, BodyResult, Zenon
<1>4. PICK m \in b..(Len(src) + 1) : m + d = M
  <2>1. M - d \in b..(Len(src) + 1) /\ (M - d) + d = M BY <1>2, <1>1
  <2>. QED BY <2>1, Zenon
<1>5. PICK r : r = scanBody(t, b, kind) OBVIOUS
<1>7. PICK k \in b..(Len(t) + 1) : BodyAt(t, b, kind, k, r)
  BY <1>1, <1>5, BodyResult, Zenon
<1>8. BodyStops(src, B, M) /\ BodyStops(t, b, k) BY <1>3, <1>7, Zenon DEF BodyAt
<1>9. CASE At(src, M) = Quote
  <2>1. s = Scan(kind, String(Decoded(src, B, M - B)), M + 1) BY <1>3, <1>9, Zenon DEF BodyAt
  <2>2. m = Len(t) /\ m \in 1..Len(t)
    <3>1. s.end = M + 1 BY <2>1 DEF Scan
    <3>. QED BY <3>1, <1>1, <1>4
  <2>3. At(t, m) = Quote BY <1>1, <1>4, <1>9, <2>2
  <2>4. BodyStops(t, b, m)
    <3>1. m \in b..Len(t) BY <2>2
    <3>3. At(t, m) # "\\" BY <2>3, QuoteDiffers, Zenon
    <3>2. BodyStops(t, b, m) <=> BodyStops(src, b + d, m + d) BY <3>1, <3>3, StopsPart, Zenon
    <3>. QED BY <3>2, <1>2, <1>8, <1>4, Zenon
  <2>5. \A q \in b..(m - 1) : ~BodyStops(t, b, q)
    <3>. TAKE q \in b..(m - 1)
    <3>1. q \in b..Len(t) /\ q # Len(t) /\ q + d \in B..(M - 1) BY <2>2, <1>1, <1>2, <1>4
    <3>2. BodyStops(t, b, q) <=> BodyStops(src, b + d, q + d) BY <3>1, StopsPart, Zenon
    <3>. QED BY <3>1, <3>2, <1>2, <1>3, Zenon DEF BodyAt
  <2>6. k = m
    <3>1. m \in b..(Len(t) + 1) BY <2>2
    <3>2. \A q \in b..(k - 1) : ~BodyStops(t, b, q) BY <1>7, Zenon DEF BodyAt
    <3>3. ~(m < k)
      <4>1. m < k => m \in b..(k - 1) BY <3>1
      <4>. QED BY <4>1, <3>2, <2>4, Zenon
    <3>4. ~(k < m)
      <4>1. k < m => k \in b..(m - 1) BY <3>1
      <4>. QED BY <4>1, <2>5, <1>8, Zenon
    <3>. QED BY <3>1, <3>3, <3>4
  <2>7. Decoded(t, b, k - b) = Decoded(src, B, M - B)
    <3>1. PICK n \in Nat : n = m - b /\ n = M - B BY <1>2, <1>4
    <3>2. b + n <= Len(t) BY <3>1, <2>2
    <3>3. Decoded(t, b, n) = Decoded(src, b + d, n) BY <3>2, DecodedPart, Zenon
    <3>. QED BY <3>1, <3>3, <2>6, <1>2, Zenon
  <2>8. r = Scan(kind, String(Decoded(src, B, M - B)), m + 1) BY <1>7, <2>3, <2>6, <2>7, Zenon DEF BodyAt
  <2>9. m + 1 + d = M + 1 BY <1>4
  <2>10. SameToken(s, r, d) BY <2>1, <2>8, <2>9, SameScan, Zenon
  <2>. QED BY <2>10, <1>5
<1>10. CASE At(src, M) # Quote
  <2>1. s.kind = "TError" BY <1>3, <1>10, Zenon DEF BodyAt
  <2>2. ASSUME At(t, k) = Quote PROVE FALSE
    <3>1. k \in 1..Len(t) /\ k \in b..Len(t)
      <4>1. k \in Nat \ {0} BY <1>1
      <4>2. k \in 1..Len(t) BY <4>1, <2>2, <1>1, QuoteDiffers, InText, Zenon
      <4>. QED BY <4>2
    <3>2. BodyStops(src, B, k + d)
      <4>1. At(t, k) # "\\" BY <2>2, QuoteDiffers
      <4>2. BodyStops(t, b, k) <=> BodyStops(src, b + d, k + d) BY <3>1, <4>1, StopsPart, Zenon
      <4>. QED BY <4>2, <1>2, <1>8, Zenon
    <3>3. M <= k + d
      <4>1. k + d < M => k + d \in B..(M - 1) BY <1>1, <1>2, <3>1
      <4>2. ~(k + d < M) BY <4>1, <3>2, <1>3, Zenon DEF BodyAt
      <4>. QED BY <4>2, <3>1
    <3>4. At(src, M) = "\\"
      <4>1. s.end # M BY <3>1, <3>3, <1>1
      <4>. QED BY <4>1, <1>3, <1>10, Zenon DEF BodyAt
    <3>5. m < k
      <4>1. At(src, k + d) = Quote BY <2>2, <3>1, <1>1
      <4>2. k + d # M BY <4>1, <3>4, QuoteDiffers
      <4>. QED BY <4>2, <3>3, <1>4
    <3>6. m \in b..Len(t) /\ m # Len(t) /\ m \in b..(k - 1) BY <3>5, <3>1, <1>1
    <3>7. BodyStops(t, b, m) <=> BodyStops(src, b + d, m + d) BY <3>6, StopsPart, Zenon
    <3>. QED BY <3>6, <3>7, <1>2, <1>8, <1>4, <1>7, Zenon DEF BodyAt
  <2>3. r.kind = "TError" BY <2>2, <1>7, Zenon DEF BodyAt
  <2>4. SameToken(s, r, d) BY <2>1, <2>3 DEF SameToken
  <2>. QED BY <2>4, <1>5
<1>. QED BY <1>9, <1>10

(* A slice of a part is a slice of the text.                               *)
LEMMA SubSeqPart ==
    ASSUME NEW src \in Seq(Byte), NEW t, NEW d \in Nat, Part(src, t, d),
           NEW a \in 1..(Len(t) + 1), NEW b \in (a - 1)..Len(t)
    PROVE  SubSeq(t, a, b) = SubSeq(src, a + d, b + d)
<1>1. /\ t \in Seq(Byte) /\ Len(t) \in Nat /\ d + Len(t) <= Len(src)
      /\ \A j \in 1..Len(t) : At(t, j) = At(src, j + d)
  BY DEF Part
<1>2. \A j \in 1..Len(t) : t[j] = src[j + d]
  <2>. TAKE j \in 1..Len(t)
  <2>1. j + d \in 1..Len(src) BY <1>1
  <2>. QED BY <2>1, <1>1 DEF At
<1>. DEFINE v == SubSeq(t, a, b)
            w == SubSeq(src, a + d, b + d)
<1>3. v \in Seq(Byte) /\ Len(v) = b - a + 1 /\ \A i \in 1..(b - a + 1) : v[i] = t[a + i - 1]
  BY <1>1
<1>4. w \in Seq(Byte) /\ Len(w) = b - a + 1 /\ \A i \in 1..(b - a + 1) : w[i] = src[a + d + i - 1]
  BY <1>1
<1>5. \A i \in 1..(b - a + 1) : v[i] = w[i]
  <2>. TAKE i \in 1..(b - a + 1)
  <2>1. a + i - 1 \in 1..Len(t) /\ (a + i - 1) + d = a + d + i - 1 BY <1>1
  <2>2. t[a + i - 1] = src[a + d + i - 1] BY <2>1, <1>2
  <2>. HIDE DEF v, w
  <2>. QED BY <2>2, <1>3, <1>4
<1>. HIDE DEF v, w
<1>6. v = w BY <1>3, <1>4, <1>5
<1>. QED BY <1>6 DEF v, w

(* The whole part is a slice of the text.                                  *)
LEMMA WholePart ==
    ASSUME NEW src \in Seq(Byte), NEW t, NEW d \in Nat, Part(src, t, d)
    PROVE  SubSeq(t, 1, Len(t)) = SubSeq(src, 1 + d, Len(t) + d)
<1>1. Len(t) \in Nat BY DEF Part
<1>2. PICK a \in 1..(Len(t) + 1) : a = 1 BY <1>1
<1>3. PICK b \in (a - 1)..Len(t) : b = Len(t) BY <1>1, <1>2
<1>4. SubSeq(t, a, b) = SubSeq(src, a + d, b + d) BY SubSeqPart
<1>. QED BY <1>2, <1>3, <1>4, Zenon

(* Whether a bytes literal in b..(e - 1) decodes.                          *)
HexPairs(src, p, e) ==
    (e - p - 3) % 2 = 0 /\ \A i \in (p + 3)..(e - 1) : At(src, i) \in Hex

BytesAt(src, p, e, s) ==
    /\ e = Until(src, p + 3, {Quote, "\n"})
    /\ At(src, e) # Quote => s = Scan("TError", NoValue, e)
    /\ At(src, e) = Quote /\ ~HexPairs(src, p, e) => s = Scan("TError", NoValue, e + 1)
    /\ At(src, e) = Quote /\ HexPairs(src, p, e) =>
         s = Scan("TBytes", String(SubSeq(src, p + 3, e - 1)), e + 1)

(* What scanBytes answers, by the byte its loop stopped at.                *)
LEMMA BytesResult ==
    ASSUME NEW src, NEW p
    PROVE  \E e : BytesAt(src, p, e, scanBytes(src, p))
<1>. DEFINE s == scanBytes(src, p)
<1>1. PICK e : e = Until(src, p + 3, {Quote, "\n"}) OBVIOUS
<1>2. s = CASE At(src, e) # Quote -> Scan("TError", NoValue, e)
            [] At(src, e) = Quote /\ ~HexPairs(src, p, e) -> Scan("TError", NoValue, e + 1)
            [] OTHER -> Scan("TBytes", String(SubSeq(src, p + 3, e - 1)), e + 1)
  BY <1>1, Zenon DEF scanBytes, HexPairs
<1>3. HexPairs(src, p, e) \in BOOLEAN BY DEF HexPairs
<1>. HIDE DEF s
<1>4. At(src, e) # Quote => s = Scan("TError", NoValue, e) BY <1>2
<1>5. At(src, e) = Quote /\ ~HexPairs(src, p, e) => s = Scan("TError", NoValue, e + 1) BY <1>2, <1>3
<1>6. At(src, e) = Quote /\ HexPairs(src, p, e) =>
        s = Scan("TBytes", String(SubSeq(src, p + 3, e - 1)), e + 1)
  BY <1>2, <1>3
<1>. QED BY <1>1, <1>4, <1>5, <1>6, Zenon DEF BytesAt, s

(* scanBytes reads the same in the bytes it covered.                       *)
LEMMA BytesPart ==
    ASSUME NEW src \in Seq(Byte), NEW t, NEW d \in Nat, Part(src, t, d), 3 <= Len(t),
           NEW s, s = scanBytes(src, 1 + d), s.end = Len(t) + d + 1
    PROVE  SameToken(s, scanBytes(t, 1), d)
<1>. DEFINE Q == {Quote, "\n"}
<1>1. /\ t \in Seq(Byte) /\ Len(t) \in Nat /\ d + Len(t) <= Len(src) /\ Len(src) \in Nat
      /\ \A j \in 1..Len(t) : At(t, j) = At(src, j + d)
      /\ At(t, Len(t) + 1) = "eof"
  BY DEF Part
<1>2. PICK E : BytesAt(src, 1 + d, E, s) BY BytesResult, Zenon
<1>3. PICK r : r = scanBytes(t, 1) OBVIOUS
<1>4. PICK k : BytesAt(t, 1, k, r) BY <1>3, BytesResult, Zenon
<1>5. PICK b \in 1..(Len(src) + 1) : b = 4 + d BY <1>1
<1>6. 1 + d + 3 = b /\ 1 + 3 = 4 /\ 4 \in 1..(Len(t) + 1) BY <1>1, <1>5
<1>. HIDE DEF Q
<1>7. E = Until(src, b, Q) /\ k = Until(t, 4, Q) BY <1>2, <1>4, <1>6, Zenon DEF BytesAt, Q
<1>8. E \in b..(Len(src) + 1) BY <1>7, UntilFacts, Zenon
<1>9. ASSUME NEW e \in 4..(Len(t) + 1), e + d = E
      PROVE  k = e
  <2>1. e + d = Until(src, 4 + d, Q) BY <1>5, <1>7, <1>9, Zenon
  <2>2. PICK c \in 1..(Len(t) + 1) : c = 4 BY <1>6, Zenon
  <2>3. e \in c..(Len(t) + 1) /\ e + d = Until(src, c + d, Q) BY <2>1, <2>2, Zenon
  <2>4. Until(t, c, Q) = e
    <3>1. PICK a \in c..(Len(t) + 1) : a = e BY <2>3, Zenon
    <3>2. PICK S : S = Q OBVIOUS
    <3>3. a + d = Until(src, c + d, S) BY <2>3, <3>1, <3>2, Zenon
    <3>4. Until(t, c, S) = a BY <3>3, UntilPart
    <3>. QED BY <3>1, <3>2, <3>4, Zenon
  <2>. QED BY <2>2, <2>4, <1>7, Zenon
<1>10. CASE At(src, E) # Quote
  <2>1. s = Scan("TError", NoValue, E) BY <1>2, <1>10, Zenon DEF BytesAt
  <2>2. E = Len(t) + d + 1 BY <2>1 DEF Scan
  <2>3. PICK e \in 4..(Len(t) + 1) : e = Len(t) + 1 BY <1>1
  <2>4. e + d = E BY <2>2, <2>3, <1>1
  <2>5. k = e BY <1>9, <2>4
  <2>6. At(t, k) # Quote BY <2>3, <2>5, <1>1, QuoteDiffers
  <2>7. r = Scan("TError", NoValue, k) BY <2>6, <1>4, Zenon DEF BytesAt
  <2>8. SameToken(s, r, d) BY <2>1, <2>4, <2>5, <2>7, SameScan, Zenon
  <2>. QED BY <2>8, <1>3
<1>11. CASE At(src, E) = Quote
  <2>1. s.end = E + 1
    <3>1. s = Scan("TError", NoValue, E + 1)
            \/ s = Scan("TBytes", String(SubSeq(src, 1 + d + 3, E - 1)), E + 1)
      BY <1>2, <1>11, Zenon DEF BytesAt
    <3>. QED BY <3>1 DEF Scan
  <2>2. PICK e \in 4..(Len(t) + 1) : e + d = E
    <3>1. E - d \in 4..(Len(t) + 1) /\ (E - d) + d = E BY <2>1, <1>1, <1>5, <1>8
    <3>. QED BY <3>1, Zenon
  <2>3. k = e BY <1>9, <2>2
  <2>4. e = Len(t) /\ e \in 1..Len(t) BY <2>1, <2>2, <1>1, <1>8
  <2>5. At(t, k) = Quote BY <2>2, <2>3, <2>4, <1>1, <1>11
  <2>6. HexPairs(t, 1, k) <=> HexPairs(src, 1 + d, E)
    <3>1. E - (1 + d) - 3 = e - 1 - 3 /\ 1 + d + 3 = 4 + d BY <2>2, <1>8
    <3>2. (\A i \in 4..(e - 1) : At(t, i) \in Hex) <=> (\A i \in (4 + d)..(E - 1) : At(src, i) \in Hex)
      <4>1. ASSUME \A i \in (4 + d)..(E - 1) : At(src, i) \in Hex, NEW i \in 4..(e - 1)
            PROVE  At(t, i) \in Hex
        <5>1. i \in 1..Len(t) /\ i + d \in (4 + d)..(E - 1) BY <2>2, <2>4
        <5>. QED BY <5>1, <4>1, <1>1
      <4>2. ASSUME \A i \in 4..(e - 1) : At(t, i) \in Hex, NEW i \in (4 + d)..(E - 1)
            PROVE  At(src, i) \in Hex
        <5>1. i - d \in 1..Len(t) /\ i - d \in 4..(e - 1) /\ (i - d) + d = i BY <2>2, <2>4
        <5>2. At(t, i - d) = At(src, i) BY <5>1, <1>1
        <5>. QED BY <5>1, <5>2, <4>2
      <4>. QED BY <4>1, <4>2, Zenon
    <3>3. HexPairs(t, 1, e) <=> (e - 1 - 3) % 2 = 0 /\ \A i \in 4..(e - 1) : At(t, i) \in Hex
      BY <1>6, Zenon DEF HexPairs
    <3>4. HexPairs(src, 1 + d, E) <=> (e - 1 - 3) % 2 = 0 /\ \A i \in (4 + d)..(E - 1) : At(src, i) \in Hex
      BY <3>1, Zenon DEF HexPairs
    <3>. QED BY <3>2, <3>3, <3>4, <2>3, Zenon
  <2>7. SubSeq(t, 1 + 3, k - 1) = SubSeq(src, 1 + d + 3, E - 1)
    <3>1. PICK h \in 3..Len(t) : h = e - 1 BY <2>4, <2>2
    <3>2. h + d = E - 1 /\ 4 - 1 = 3 BY <3>1, <2>2, <1>8
    <3>3. SubSeq(t, 4, h) = SubSeq(src, 4 + d, h + d)
      <4>1. PICK c \in 1..(Len(t) + 1) : c = 4 BY <1>6, Zenon
      <4>2. h \in (c - 1)..Len(t) BY <4>1
      <4>3. SubSeq(t, c, h) = SubSeq(src, c + d, h + d) BY <4>2, SubSeqPart
      <4>. QED BY <4>1, <4>3, Zenon
    <3>. QED BY <3>1, <3>2, <3>3, <2>3, <1>5, <1>6, Zenon
  <2>8. k + 1 + d = E + 1 BY <2>2, <2>3, <1>8
  <2>9. SameToken(s, r, d)
    <3>1. CASE HexPairs(t, 1, k)
      <4>1. s = Scan("TBytes", String(SubSeq(src, 1 + d + 3, E - 1)), E + 1)
        BY <3>1, <2>6, <1>2, <1>11, Zenon DEF BytesAt
      <4>2. r = Scan("TBytes", String(SubSeq(src, 1 + d + 3, E - 1)), k + 1)
        BY <3>1, <2>5, <2>7, <1>4, Zenon DEF BytesAt
      <4>. QED BY <4>1, <4>2, <2>8, SameScan, Zenon
    <3>2. CASE ~HexPairs(t, 1, k)
      <4>1. s = Scan("TError", NoValue, E + 1) BY <3>2, <2>6, <1>2, <1>11, Zenon DEF BytesAt
      <4>2. r = Scan("TError", NoValue, k + 1) BY <3>2, <2>5, <1>4, Zenon DEF BytesAt
      <4>. QED BY <4>1, <4>2, <2>8, SameScan, Zenon
    <3>. QED BY <3>1, <3>2, Zenon
  <2>. QED BY <2>9, <1>3
<1>. QED BY <1>10, <1>11

WordKind(w) == CASE w \in {"true", "false"} -> "TBool"
                 [] w \in Keywords -> "TKeyword"
                 [] OTHER -> "TIdent"

IdentAt(src, p, m, s) ==
    /\ IdentEnds(src, m)
    /\ \A q \in (p + 1)..(m - 1) : ~IdentEnds(src, q)
    /\ s = Scan(WordKind(String(SubSeq(src, p, m - 1))), String(SubSeq(src, p, m - 1)), m)

(* What scanIdentOrKeyword answers, by the byte its loops stopped at.      *)
LEMMA IdentResult ==
    ASSUME NEW src \in Seq(Byte), NEW p \in 1..Len(src)
    PROVE  \E m \in (p + 1)..(Len(src) + 1) : IdentAt(src, p, m, scanIdentOrKeyword(src, p))
<1>1. PICK m \in (p + 1)..(Len(src) + 1) :
        /\ m = Min({q \in (p + 1)..(Len(src) + 1) : IdentEnds(src, q)})
        /\ IdentEnds(src, m)
        /\ \A q \in (p + 1)..(m - 1) : ~IdentEnds(src, q)
  BY IdentFacts, Zenon
<1>. QED BY <1>1, Zenon DEF IdentAt, WordKind, scanIdentOrKeyword

(* scanIdentOrKeyword reads the same in the bytes it covered: no letter    *)
(* after an identifier, and no dot before a letter, was left out.          *)
LEMMA IdentPart ==
    ASSUME NEW src \in Seq(Byte), NEW t, NEW d \in Nat, Part(src, t, d), 1 <= Len(t),
           NEW s, s = scanIdentOrKeyword(src, 1 + d), s.end = Len(t) + d + 1
    PROVE  SameToken(s, scanIdentOrKeyword(t, 1), d)
<1>1. /\ t \in Seq(Byte) /\ Len(t) \in Nat /\ d + Len(t) <= Len(src) /\ Len(src) \in Nat
      /\ \A j \in 1..Len(t) : At(t, j) = At(src, j + d)
      /\ At(t, Len(t) + 1) = "eof"
  BY DEF Part
<1>2. PICK p \in 1..Len(src) : p = 1 + d BY <1>1
<1>3. PICK E \in (p + 1)..(Len(src) + 1) : IdentAt(src, p, E, s) BY <1>2, IdentResult, Zenon
<1>4. PICK r : r = scanIdentOrKeyword(t, 1) OBVIOUS
<1>5. PICK k \in 2..(Len(t) + 1) : IdentAt(t, 1, k, r)
  <2>1. PICK a \in 1..Len(t) : a = 1 BY <1>1
  <2>2. PICK k \in (a + 1)..(Len(t) + 1) : IdentAt(t, a, k, scanIdentOrKeyword(t, a))
    BY <1>1, IdentResult, Zenon
  <2>. QED BY <2>1, <2>2, <1>4
<1>6. E = Len(t) + d + 1
  <2>1. s.end = E BY <1>3 DEF IdentAt, Scan
  <2>. QED BY <2>1
<1>7. IdentEnds(src, E) /\ IdentEnds(t, k) BY <1>3, <1>5, Zenon DEF IdentAt
<1>8. ASSUME NEW j \in 2..Len(t)
      PROVE  ~IdentEnds(t, j)
  <2>1. j + d \in (p + 1)..(E - 1) /\ j \in 1..Len(t) BY <1>2, <1>6, <1>1
  <2>2. ~IdentEnds(src, j + d) BY <2>1, <1>3, Zenon DEF IdentAt
  <2>3. At(t, j) = At(src, j + d) BY <2>1, <1>1
  <2>4. CASE j # Len(t)
    <3>1. j + 1 \in 1..Len(t) /\ (j + 1) + d = j + d + 1 BY <2>4, <2>1, <1>1
    <3>2. At(t, j + 1) = At(src, j + d + 1) BY <3>1, <1>1
    <3>. QED BY <2>2, <2>3, <3>2 DEF IdentEnds
  <2>5. CASE j = Len(t)
    <3>1. j + d + 1 = E BY <2>5, <1>6, <1>1
    <3>2. At(src, E) \notin Lower BY <1>7 DEF IdentEnds, IdentCont
    <3>. QED BY <2>2, <2>3, <3>1, <3>2 DEF IdentEnds
  <2>. QED BY <2>4, <2>5
<1>9. k = Len(t) + 1
  <2>1. k # Len(t) + 1 => k \in 2..Len(t) BY <1>1
  <2>. QED BY <2>1, <1>7, <1>8, Zenon
<1>10. SubSeq(t, 1, k - 1) = SubSeq(src, p, E - 1)
  <2>1. SubSeq(t, 1, Len(t)) = SubSeq(src, 1 + d, Len(t) + d) BY WholePart, Zenon
  <2>2. Len(t) = k - 1 /\ Len(t) + d = E - 1 BY <1>1, <1>6, <1>9
  <2>. QED BY <2>1, <2>2, <1>2, Zenon
<1>11. k + d = E BY <1>9, <1>6, <1>1
<1>. DEFINE w == String(SubSeq(src, p, E - 1))
<1>12. s = Scan(WordKind(w), w, E) BY <1>3, Zenon DEF IdentAt
<1>13. r = Scan(WordKind(w), w, k) BY <1>5, <1>10, Zenon DEF IdentAt
<1>. HIDE DEF w
<1>14. SameToken(s, r, d) BY <1>11, <1>12, <1>13, SameScan, Zenon
<1>. QED BY <1>4, <1>14

(* The sign of an exponent is the same in the part.                        *)
LEMMA SignPart ==
    ASSUME NEW src \in Seq(Byte), NEW t, NEW d \in Nat, Part(src, t, d),
           NEW f \in 1..Len(t), NEW x \in (f + 1)..(Len(t) + 1), x + d = AfterSign(src, f + d)
    PROVE  AfterSign(t, f) = x
<1>1. /\ Len(t) \in Nat /\ At(t, Len(t) + 1) = "eof"
      /\ \A j \in 1..Len(t) : At(t, j) = At(src, j + d)
  BY DEF Part
<1>2. (f + 1) + d = f + d + 1 OBVIOUS
<1>3. At(t, f + 1) = At(src, f + d + 1) \/ (At(t, f + 1) = "eof" /\ x = f + 1)
  <2>1. CASE f + 1 \in 1..Len(t) BY <2>1, <1>1, <1>2
  <2>2. CASE f + 1 \notin 1..Len(t)
    <3>1. f + 1 = Len(t) + 1 /\ x = f + 1 BY <2>2, <1>1
    <3>. QED BY <3>1, <1>1
  <2>. QED BY <2>1, <2>2
<1>4. CASE At(src, f + d + 1) \in {"+", "-"}
  <2>1. x = f + 2 BY <1>4, <1>1 DEF AfterSign
  <2>2. At(t, f + 1) = At(src, f + d + 1) BY <2>1, <1>3
  <2>. QED BY <2>1, <2>2, <1>4 DEF AfterSign
<1>5. CASE At(src, f + d + 1) \notin {"+", "-"}
  <2>1. x = f + 1 BY <1>5, <1>1 DEF AfterSign
  <2>2. At(t, f + 1) \notin {"+", "-"} BY <1>5, <1>3
  <2>. QED BY <2>1, <2>2 DEF AfterSign
<1>. QED BY <1>4, <1>5

(* The bytes c, e, g start with a unit of u bytes.                         *)
IsUnit(c, e, g, u) ==
    /\ u = 2 <=> c \in {"n", "u", "m"} /\ e = "s"
    /\ u = 1 <=> c \in {"s", "h"} \/ (c = "m" /\ e # "s")
    /\ u = 3 <=> c = "c2" /\ e = "b5" /\ g = "s"
    /\ u \in {0, 1, 2, 3}

(* matchDurationUnit looks at three bytes.                                 *)
LEMMA UnitBytes ==
    ASSUME NEW src, NEW p
    PROVE  IsUnit(At(src, p), At(src, p + 1), At(src, p + 2), matchDurationUnit(src, p))
<1>1. PICK c : c = At(src, p) OBVIOUS
<1>2. PICK e : e = At(src, p + 1) OBVIOUS
<1>3. PICK g : g = At(src, p + 2) OBVIOUS
<1>4. PICK u : u = matchDurationUnit(src, p) OBVIOUS
<1>5. u = CASE c \in {"n", "u", "m"} /\ e = "s" -> 2
            [] c \in {"s", "h"} \/ (c = "m" /\ ~(e = "s")) -> 1
            [] c = "c2" /\ e = "b5" /\ g = "s" -> 3
            [] OTHER -> 0
  BY <1>1, <1>2, <1>3, <1>4, Zenon DEF matchDurationUnit
<1>6. IsUnit(c, e, g, u) BY <1>5 DEF IsUnit
<1>. QED BY <1>1, <1>2, <1>3, <1>4, <1>6, Zenon

(* A unit that lies inside the part is found there.                        *)
LEMMA UnitPart ==
    ASSUME NEW src \in Seq(Byte), NEW t, NEW d \in Nat, Part(src, t, d),
           NEW q \in 1..Len(t), NEW u, u = matchDurationUnit(src, q + d), u # 0,
           q + u <= Len(t) + 1
    PROVE  matchDurationUnit(t, q) = u
<1>1. /\ Len(t) \in Nat /\ At(t, Len(t) + 1) = "eof"
      /\ \A j \in 1..Len(t) : At(t, j) = At(src, j + d)
  BY DEF Part
<1>2. PICK p : p = q + d OBVIOUS
<1>3. PICK c, e, g : c = At(src, p) /\ e = At(src, p + 1) /\ g = At(src, p + 2) OBVIOUS
<1>4. PICK c1, e1, g1 : c1 = At(t, q) /\ e1 = At(t, q + 1) /\ g1 = At(t, q + 2) OBVIOUS
<1>5. PICK w : w = matchDurationUnit(t, q) OBVIOUS
<1>6. IsUnit(c, e, g, u)
  <2>1. u = matchDurationUnit(src, p) BY <1>2
  <2>. QED BY <1>3, <2>1, UnitBytes, Zenon
<1>7. IsUnit(c1, e1, g1, w) BY <1>4, <1>5, UnitBytes, Zenon
<1>8. c1 = c BY <1>1, <1>2, <1>3, <1>4
<1>9. e1 = e \/ (e1 = "eof" /\ u = 1)
  <2>1. CASE q + 1 \in 1..Len(t)
    <3>1. (q + 1) + d = p + 1 BY <1>2
    <3>. QED BY <3>1, <2>1, <1>1, <1>3, <1>4
  <2>2. CASE q + 1 \notin 1..Len(t)
    <3>1. q + 1 = Len(t) + 1 BY <2>2, <1>1
    <3>2. u = 1 BY <3>1, <1>6 DEF IsUnit
    <3>. QED BY <3>1, <3>2, <1>1, <1>4
  <2>. QED BY <2>1, <2>2
<1>10. u = 3 => g1 = g
  <2>1. u = 3 => q + 2 \in 1..Len(t) /\ (q + 2) + d = p + 2 BY <1>1, <1>2
  <2>. QED BY <2>1, <1>1, <1>3, <1>4
<1>11. w = u BY <1>6, <1>7, <1>8, <1>9, <1>10 DEF IsUnit
<1>. QED BY <1>5, <1>11

(* A chain of units does not end inside one of its units.                  *)
LEMMA UnitWhole ==
    ASSUME NEW src, NEW q \in Nat, NEW e \in Nat, q < e, ChainEnds(src, e),
           NEW u, u = matchDurationUnit(src, q)
    PROVE  q + u <= e
<1>1. PICK c, f, g : c = At(src, q) /\ f = At(src, q + 1) /\ g = At(src, q + 2) OBVIOUS
<1>2. IsUnit(c, f, g, u) BY <1>1, UnitBytes, Zenon
<1>3. PICK b, h : b = At(src, e - 1) /\ h = At(src, e) OBVIOUS
<1>4. ~(b \in {"n", "u", "m", "b5"} /\ h = "s") /\ ~(b = "c2" /\ h = "b5")
  BY <1>3 DEF ChainEnds
<1>5. e = q + 1 => b = c /\ h = f BY <1>1, <1>3
<1>6. e = q + 2 => b = f /\ h = g
  <2>1. e = q + 2 => e - 1 = q + 1 OBVIOUS
  <2>. QED BY <2>1, <1>1, <1>3
<1>. QED BY <1>2, <1>4, <1>5, <1>6 DEF IsUnit

(* The rest of a duration ends with the part.                              *)
LEMMA ChainPart ==
    ASSUME NEW src \in Seq(Byte), NEW t, NEW d \in Nat, Part(src, t, d),
           NEW b \in 2..(Len(t) + 1), Len(t) + 1 + d = durationEnd(src, b + d)
    PROVE  durationEnd(t, b) = Len(t) + 1
<1>1. /\ t \in Seq(Byte) /\ Len(t) \in Nat /\ d + Len(t) <= Len(src) /\ Len(src) \in Nat
      /\ \A j \in 1..Len(t) : At(t, j) = At(src, j + d)
  BY DEF Part
<1>2. PICK B \in 1..(Len(src) + 1) : B = b + d BY <1>1
<1>3. PICK E \in B..(Len(src) + 1) :
        E = durationEnd(src, B) /\ ChainEnds(src, E) /\ \A q \in B..(E - 1) : ~ChainEnds(src, q)
  BY DurationFacts, Zenon
<1>4. E = Len(t) + 1 + d BY <1>2, <1>3
<1>5. PICK k \in b..(Len(t) + 1) : k = durationEnd(t, b) /\ ChainEnds(t, k)
  <2>1. b \in 1..(Len(t) + 1) OBVIOUS
  <2>. QED BY <2>1, <1>1, DurationFacts, Zenon
<1>6. ASSUME NEW j \in b..Len(t)
      PROVE  ~ChainEnds(t, j)
  <2>1. j \in 1..Len(t) /\ j - 1 \in 1..Len(t) /\ (j - 1) + d = j + d - 1 /\ j + d \in B..(E - 1)
    BY <1>1, <1>2, <1>4
  <2>2. At(t, j) = At(src, j + d) /\ At(t, j - 1) = At(src, j + d - 1) BY <2>1, <1>1
  <2>3. ~ChainEnds(src, j + d) BY <2>1, <1>3
  <2>4. matchDurationUnit(src, j + d) # 0 => matchDurationUnit(t, j) # 0
    <3>1. PICK u : u = matchDurationUnit(src, j + d) OBVIOUS
    <3>2. PICK q \in Nat : q = j + d BY <2>1
    <3>3. q < E /\ E \in Nat BY <2>1, <3>2, <1>4, <1>1
    <3>4. q + u <= E BY <3>1, <3>2, <3>3, <1>3, UnitWhole, Zenon
    <3>5. u \in Nat
      <4>1. q \in 1..(Len(src) + 1) BY <2>1, <3>2
      <4>. QED BY <4>1, <3>1, <3>2, UnitFacts, Zenon
    <3>6. j + u <= Len(t) + 1 BY <3>2, <3>4, <3>5, <1>4, <1>1
    <3>7. u # 0 => matchDurationUnit(t, j) = u BY <2>1, <3>1, <3>6, UnitPart, Zenon
    <3>. QED BY <3>1, <3>7
  <2>. QED BY <2>2, <2>3, <2>4 DEF ChainEnds
<1>7. k = Len(t) + 1
  <2>1. k # Len(t) + 1 => k \in b..Len(t) BY <1>1
  <2>. QED BY <2>1, <1>5, <1>6, Zenon
<1>. QED BY <1>5, <1>7

(* What scanNumber makes of a number whose first digits end at m: f is the *)
(* end of the digits after a dot, x and y the bytes after an exponent's    *)
(* sign, u the length of a unit.                                           *)
NumberAt(src, p, s, m, f, x, y, u) ==
    LET ee == {"e", "E"}
        float == At(src, m) = "." /\ At(src, m + 1) \in Digit
        plain == At(src, m) # "." /\ At(src, m) \notin ee
    IN  /\ m = Past(src, p, Digit) /\ f = Past(src, m + 1, Digit)
        /\ x = AfterSign(src, f) /\ y = AfterSign(src, m) /\ u = matchDurationUnit(src, m)
        /\ At(src, m) = "." /\ At(src, m + 1) \notin Digit => s = Scan("TError", NoValue, m + 1)
        /\ float /\ At(src, f) \notin ee => s = Text(src, "TFloat", p, f)
        /\ float /\ At(src, f) \in ee /\ At(src, x) \in Digit =>
             s = Text(src, "TFloat", p, Past(src, x, Digit))
        /\ float /\ At(src, f) \in ee /\ At(src, x) \notin Digit => s = Scan("TError", NoValue, x)
        /\ At(src, m) \in ee /\ At(src, y) \in Digit => s = Text(src, "TFloat", p, Past(src, y, Digit))
        /\ At(src, m) \in ee /\ At(src, y) \notin Digit =>
             s = [Text(src, "TInt", p, m) EXCEPT !.drift = y - m]
        /\ plain /\ u = 0 => s = Text(src, "TInt", p, m)
        /\ plain /\ u # 0 => s = Text(src, "TDuration", p, durationEnd(src, m + u))

(* What scanNumber answers, by the bytes its loops stopped at.             *)
LEMMA NumberResult ==
    ASSUME NEW src, NEW p
    PROVE  \E m, f, x, y, u : NumberAt(src, p, scanNumber(src, p), m, f, x, y, u)
<1>. DEFINE s == scanNumber(src, p)
<1>1. PICK m : m = Past(src, p, Digit) OBVIOUS
<1>2. PICK f : f = Past(src, m + 1, Digit) OBVIOUS
<1>3. PICK x : x = AfterSign(src, f) OBVIOUS
<1>4. PICK y : y = AfterSign(src, m) OBVIOUS
<1>5. PICK u : u = matchDurationUnit(src, m) OBVIOUS
<1>6. s = CASE At(src, m) = "." /\ ~(At(src, m + 1) \in Digit) -> Scan("TError", NoValue, m + 1)
            [] At(src, m) = "." /\ At(src, m + 1) \in Digit ->
                 IF At(src, f) \notin {"e", "E"} THEN Text(src, "TFloat", p, f)
                 ELSE IF At(src, x) \in Digit THEN Text(src, "TFloat", p, Past(src, x, Digit))
                 ELSE Scan("TError", NoValue, x)
            [] At(src, m) \in {"e", "E"} ->
                 IF At(src, y) \in Digit THEN Text(src, "TFloat", p, Past(src, y, Digit))
                 ELSE [Text(src, "TInt", p, m) EXCEPT !.drift = y - m]
            [] OTHER ->
                 IF u = 0 THEN Text(src, "TInt", p, m)
                 ELSE Text(src, "TDuration", p, durationEnd(src, m + u))
  BY <1>1, <1>2, <1>3, <1>4, <1>5, Zenon DEF scanNumber
<1>. HIDE DEF s
<1>7. NumberAt(src, p, s, m, f, x, y, u)
  BY <1>1, <1>2, <1>3, <1>4, <1>5, <1>6 DEF NumberAt
<1>. QED BY <1>7, Zenon DEF s

(* A number that covers the whole part, in the text and in the part.       *)
LEMMA TextPart ==
    ASSUME NEW src \in Seq(Byte), NEW t, NEW d \in Nat, Part(src, t, d), NEW kind, NEW n,
           n = Len(t) + 1, NEW e, n + d = e
    PROVE  SameToken(Text(src, kind, 1 + d, e), Text(t, kind, 1, n), d)
<1>1. Len(t) \in Nat BY DEF Part
<1>2. n - 1 = Len(t) /\ e - 1 = Len(t) + d BY <1>1
<1>3. SubSeq(t, 1, n - 1) = SubSeq(src, 1 + d, e - 1) BY <1>2, WholePart, Zenon
<1>. QED BY <1>3, SameScan, Zenon DEF Text

(* A run of digits that ends in the part, or with it, ends there too.      *)
LEMMA DigitsPart ==
    ASSUME NEW src \in Seq(Byte), NEW t, NEW d \in Nat, Part(src, t, d),
           NEW p \in 1..(Len(t) + 1), NEW m \in p..(Len(t) + 1),
           m + d = Past(src, p + d, Digit)
    PROVE  Past(t, p, Digit) = m
<1>1. "eof" \notin Digit BY PlainBytes
<1>. QED BY <1>1, PastPart, Zenon

(* A run of digits from a digit, with its end.                             *)
LEMMA DigitRun ==
    ASSUME NEW src \in Seq(Byte), NEW p \in 1..Len(src), At(src, p) \in Digit
    PROVE  \E m \in (p + 1)..(Len(src) + 1) : m = Past(src, p, Digit)
<1>1. p \in 1..(Len(src) + 1) OBVIOUS
<1>2. PICK m \in p..(Len(src) + 1) : m = Past(src, p, Digit) /\ m # p BY <1>1, DigitsFacts, Zenon
<1>3. m \in (p + 1)..(Len(src) + 1) BY <1>2
<1>. QED BY <1>2, <1>3, Zenon

(* scanNumber reads the same in the bytes it covered, in each of its       *)
(* forms: with a dot, an exponent, units, or none.                         *)
LEMMA NumberPart ==
    ASSUME NEW src \in Seq(Byte), NEW t, NEW d \in Nat, Part(src, t, d),
           1 <= Len(t), At(src, 1 + d) \in Digit,
           NEW s, s = scanNumber(src, 1 + d), s.end = Len(t) + d + 1
    PROVE  SameToken(s, scanNumber(t, 1), d)
<1>1. /\ t \in Seq(Byte) /\ Len(t) \in Nat /\ d + Len(t) <= Len(src) /\ Len(src) \in Nat
      /\ \A j \in 1..Len(t) : At(t, j) = At(src, j + d)
      /\ At(t, Len(t) + 1) = "eof"
  BY DEF Part
<1>2. PICK p \in 1..Len(src) : p = 1 + d BY <1>1
<1>3. PICK M, F, X, Y, U : NumberAt(src, p, s, M, F, X, Y, U) BY <1>2, NumberResult, Zenon
<1>4. PICK r : r = scanNumber(t, 1) OBVIOUS
<1>5. PICK m, f, x, y, u : NumberAt(t, 1, r, m, f, x, y, u) BY <1>4, NumberResult, Zenon
<1>6. M = Past(src, p, Digit) /\ M \in (p + 1)..(Len(src) + 1)
  <2>1. M = Past(src, p, Digit) BY <1>3, Zenon DEF NumberAt
  <2>2. At(src, p) \in Digit BY <1>2
  <2>. QED BY <2>1, <2>2, DigitRun, Zenon
<1>7. PICK n \in 2..(Len(t) + 1) : n = Len(t) + 1 BY <1>1
<1>8. At(t, n) = "eof" /\ n + d = s.end BY <1>1, <1>7
<1>9. \A j \in 1..(n - 1) : At(t, j) = At(src, j + d) BY <1>1, <1>7
<1>10. PICK g \in 2..(Len(src) + 1) : g + d = M
  <2>1. M - d \in 2..(Len(src) + 1) /\ (M - d) + d = M BY <1>6, <1>2, <1>1
  <2>. QED BY <2>1, Zenon
<1>11. ASSUME g <= n
       PROVE  m = g
  <2>1. PICK a \in 1..(Len(t) + 1) : a = 1 BY <1>1
  <2>2. g \in a..(Len(t) + 1) /\ p = a + d /\ M = g + d BY <1>2, <1>7, <1>10, <1>11, <2>1
  <2>5. g + d = Past(src, a + d, Digit) BY <2>2, <1>6, Zenon
  <2>3. Past(t, a, Digit) = g BY <2>2, <2>5, DigitsPart, Zenon
  <2>4. m = Past(t, 1, Digit) BY <1>5, Zenon DEF NumberAt
  <2>. QED BY <2>1, <2>3, <2>4, Zenon
<1>12. ASSUME NEW kind, NEW e, s = Text(src, kind, p, e), n + d = e, r = Text(t, kind, 1, n)
       PROVE  SameToken(s, r, d)
  BY <1>2, <1>7, <1>12, TextPart, Zenon
<1>13. \A kind, v, e : s = Scan(kind, v, e) => s.end = e /\ s.kind = kind BY DEF Scan
<1>14. \A kind, v, e : r = Scan(kind, v, e) => r.kind = kind BY DEF Scan
<1>15. ASSUME s.kind = "TError", r.kind = "TError" PROVE SameToken(s, r, d)
  BY <1>15 DEF SameToken
<1>16. \A kind, e : s = Text(src, kind, p, e) => s.end = e BY <1>13, Zenon DEF Text
<1>. DEFINE ee == {"e", "E"}
<1>17. "eof" \notin Digit /\ "eof" \notin ee /\ "." \notin ee BY PlainBytes
<1>20. CASE At(src, M) = "." /\ At(src, M + 1) \notin Digit
  <2>1. s = Scan("TError", NoValue, M + 1) BY <1>3, <1>20, Zenon DEF NumberAt
  <2>2. s.end = M + 1 /\ s.kind = "TError" BY <2>1, <1>13, Zenon
  <2>3. g + 1 = n /\ g \in 1..(n - 1) /\ g <= n BY <2>2, <1>8, <1>10
  <2>4. m = g BY <2>3, <1>11
  <2>5. At(t, m) = "." BY <2>3, <2>4, <1>9, <1>10, <1>20, Zenon
  <2>6. At(t, m + 1) \notin Digit BY <2>3, <2>4, <1>8, <1>17, Zenon
  <2>7. r = Scan("TError", NoValue, m + 1) BY <2>5, <2>6, <1>5, Zenon DEF NumberAt
  <2>8. SameToken(s, r, d) BY <2>2, <2>7, <1>14, <1>15, Zenon
  <2>. QED BY <2>8, <1>4, Zenon
<1>21. CASE At(src, M) = "." /\ At(src, M + 1) \in Digit
  <2>1. PICK G \in 1..Len(src) : G = M + 1
    <3>1. M + 1 \in Nat \ {0} BY <1>6
    <3>2. M + 1 \in 1..Len(src) BY <3>1, <1>17, <1>21, InText, Zenon
    <3>. QED BY <3>2, Zenon
  <2>2. F \in (G + 1)..(Len(src) + 1) /\ F = Past(src, G, Digit)
    <3>1. F = Past(src, G, Digit) BY <2>1, <1>3, Zenon DEF NumberAt
    <3>2. At(src, G) \in Digit BY <2>1, <1>21, Zenon
    <3>. QED BY <3>1, <3>2, DigitRun, Zenon
  <2>3. PICK h \in 4..(Len(src) + 1) : h + d = F
    <3>2. M >= d + 2 /\ M \in Nat BY <1>6, <1>2
    <3>3. F >= G + 1 /\ F <= Len(src) + 1 /\ F \in Nat BY <2>2
    <3>1. F - d \in 4..(Len(src) + 1) /\ (F - d) + d = F BY <2>1, <3>2, <3>3, <1>1
    <3>. QED BY <3>1, Zenon
  <2>4. PICK k \in 3..(Len(src) + 1) : k = g + 1 /\ k + d = G
    <3>1. g + 1 \in 3..(Len(src) + 1) /\ (g + 1) + d = G BY <2>1, <1>10
    <3>. QED BY <3>1, Zenon
  <2>5. k < h BY <2>2, <2>3, <2>4
  <2>6. ASSUME h <= n
        PROVE  m = g /\ At(t, m) = "." /\ At(t, m + 1) \in Digit /\ f = h
    <3>1. g \in 1..(n - 1) /\ k \in 1..(n - 1) /\ g <= n BY <2>4, <2>5, <2>6
    <3>2. m = g BY <3>1, <1>11
    <3>3. At(t, g) = "." BY <3>1, <1>9, <1>10, <1>21, Zenon
    <3>4. At(t, k) \in Digit BY <3>1, <2>1, <2>4, <1>9, <1>21, Zenon
    <3>5. k \in 1..(Len(t) + 1) /\ h \in k..(Len(t) + 1) /\ G = k + d /\ F = h + d
      BY <2>3, <2>4, <2>5, <2>6, <1>7
    <3>8. h + d = Past(src, k + d, Digit) BY <3>5, <2>2, Zenon
    <3>6. Past(t, k, Digit) = h BY <3>5, <3>8, DigitsPart, Zenon
    <3>7. f = Past(t, m + 1, Digit) BY <1>5, Zenon DEF NumberAt
    <3>. QED BY <3>2, <3>3, <3>4, <3>6, <3>7, <2>4, Zenon
  <2>7. CASE At(src, F) \notin ee
    <3>1. s = Text(src, "TFloat", p, F) BY <2>7, <1>3, <1>21, Zenon DEF NumberAt
    <3>2. F = n + d BY <3>1, <1>8, <1>16, Zenon
    <3>3. h = n /\ h <= n BY <3>2, <2>3
    <3>4. At(t, f) \notin ee BY <3>3, <2>6, <1>8, <1>17, Zenon
    <3>5. r = Text(t, "TFloat", 1, f) BY <3>4, <3>3, <2>6, <1>5, Zenon DEF NumberAt
    <3>6. SameToken(s, r, d) BY <3>1, <3>2, <3>3, <3>5, <2>6, <1>12, Zenon
    <3>. QED BY <3>6, <1>4, Zenon
  <2>8. CASE At(src, F) \in ee
    <3>1. F \in 1..Len(src)
      <4>1. F \in Nat \ {0} BY <2>2
      <4>2. At(src, F) # "eof" BY <2>8, <1>17, Zenon
      <4>. QED BY <4>1, <4>2, InText, Zenon
    <3>2. X \in (F + 1)..(Len(src) + 1) /\ X = AfterSign(src, F)
      <4>1. X = AfterSign(src, F) BY <1>3, Zenon DEF NumberAt
      <4>. QED BY <4>1, <3>1, <2>8, SignFacts, Zenon
    <3>3. PICK w \in 5..(Len(src) + 1) : w + d = X
      <4>2. X >= F + 1 /\ X <= Len(src) + 1 /\ X \in Nat BY <3>1, <3>2
      <4>3. X >= h + d + 1 BY <4>2, <2>3
      <4>1. X - d \in 5..(Len(src) + 1) /\ (X - d) + d = X BY <4>2, <4>3, <1>1
      <4>. QED BY <4>1, Zenon
    <3>4. h < w
      <4>1. F < X BY <1>1, <3>1, <3>2, LaterPosition, Zenon
      <4>2. h \in Nat /\ w \in Nat OBVIOUS
      <4>. QED BY <4>1, <4>2, <3>3, <2>3, MovedBack, Zenon
    <3>5. ASSUME w <= n
          PROVE  /\ At(t, m) = "." /\ At(t, m + 1) \in Digit
                 /\ At(t, f) \in ee /\ x = w
      <4>1. h <= n /\ h \in 1..(n - 1) /\ h \in 1..Len(t) BY <3>4, <3>5, <1>7
      <4>2. m = g /\ At(t, m) = "." /\ At(t, m + 1) \in Digit /\ f = h BY <4>1, <2>6
      <4>3. At(t, h) \in ee BY <4>1, <2>3, <2>8, <1>9, Zenon
      <4>4. w \in (h + 1)..(Len(t) + 1) BY <3>4, <3>5, <1>7
      <4>5. w + d = AfterSign(src, h + d) BY <3>2, <3>3, <2>3, Zenon
      <4>6. AfterSign(t, h) = w BY <4>1, <4>4, <4>5, SignPart, Zenon
      <4>7. x = AfterSign(t, f) BY <1>5, Zenon DEF NumberAt
      <4>. QED BY <4>2, <4>3, <4>6, <4>7, Zenon
    <3>6. CASE At(src, X) \notin Digit
      <4>1. s = Scan("TError", NoValue, X) BY <3>6, <2>8, <1>3, <1>21, Zenon DEF NumberAt
      <4>2. s.end = X /\ s.kind = "TError" BY <4>1, <1>13, Zenon
      <4>3. w = n /\ w <= n BY <4>2, <3>3, <1>8
      <4>4. At(t, x) \notin Digit BY <4>3, <3>5, <1>8, <1>17, Zenon
      <4>5. r = Scan("TError", NoValue, x) BY <4>3, <4>4, <3>5, <1>5, Zenon DEF NumberAt
      <4>6. SameToken(s, r, d) BY <4>2, <4>5, <1>14, <1>15, Zenon
      <4>. QED BY <4>6, <1>4, Zenon
    <3>7. CASE At(src, X) \in Digit
      <4>1. X \in 1..Len(src)
        <5>1. X \in Nat \ {0} BY <1>1, <3>1, <3>2, LaterPosition, Zenon
        <5>2. At(src, X) # "eof" BY <3>7, <1>17, Zenon
        <5>. QED BY <5>1, <5>2, InText, Zenon
      <4>2. PICK E \in (X + 1)..(Len(src) + 1) : E = Past(src, X, Digit)
        BY <4>1, <3>7, DigitRun, Zenon
      <4>3. s = Text(src, "TFloat", p, E) BY <4>2, <3>7, <2>8, <1>3, <1>21, Zenon DEF NumberAt
      <4>4. E = n + d BY <4>3, <1>8, <1>16, Zenon
      <4>5. w < n /\ w <= n /\ w \in 1..(n - 1) /\ w \in 1..(Len(t) + 1) /\ n \in w..(Len(t) + 1)
        <5>1. X < E BY <1>1, <4>1, LaterPosition, Zenon
        <5>2. w \in Nat /\ n \in Nat OBVIOUS
        <5>3. w < n BY <5>1, <5>2, <4>4, <3>3, MovedBack, Zenon
        <5>. QED BY <5>3, <1>7
      <4>6. At(t, x) \in Digit BY <4>5, <3>3, <3>5, <3>7, <1>9, Zenon
      <4>10. n + d = Past(src, w + d, Digit) BY <4>2, <4>4, <3>3, Zenon
      <4>7. Past(t, w, Digit) = n BY <4>5, <4>10, DigitsPart, Zenon
      <4>8. r = Text(t, "TFloat", 1, n) BY <4>5, <4>6, <4>7, <3>5, <1>5, Zenon DEF NumberAt
      <4>9. SameToken(s, r, d) BY <4>3, <4>4, <4>8, <1>12, Zenon
      <4>. QED BY <4>9, <1>4, Zenon
    <3>. QED BY <3>6, <3>7, Zenon
  <2>. QED BY <2>7, <2>8, Zenon

(* An integer ends the part, whatever comes after it in the text.          *)
<1>22. ASSUME s.kind = "TInt", s.value = String(SubSeq(src, p, M - 1)), s.end = M
       PROVE  SameToken(s, r, d)
  <2>1. g = n /\ g <= n BY <1>22, <1>8, <1>10
  <2>2. m = n /\ At(t, m) = "eof" BY <2>1, <1>8, <1>11
  <2>3. u = 0
    <3>1. u = matchDurationUnit(t, n) BY <2>2, <1>5, Zenon DEF NumberAt
    <3>2. n \in 1..(Len(t) + 1) OBVIOUS
    <3>. QED BY <3>1, <3>2, <1>1, <1>8, UnitFacts, Zenon
  <2>4. At(t, m) # "." BY <2>2
  <2>5. At(t, m) \notin ee BY <2>2, <1>17, Zenon
  <2>6. r = Text(t, "TInt", 1, n) BY <2>2, <2>3, <2>4, <2>5, <1>5, Zenon DEF NumberAt
  <2>7. PICK q : q = Text(src, "TInt", p, M) OBVIOUS
  <2>8. SameToken(q, r, d) BY <2>1, <2>6, <2>7, <1>2, <1>7, <1>10, TextPart, Zenon
  <2>9. q.kind = s.kind /\ q.value = s.value /\ q.end = s.end BY <2>7, <1>22 DEF Text, Scan
  <2>. QED BY <2>8, <2>9, Zenon DEF SameToken
<1>23. CASE At(src, M) \in ee
  <2>1. M \in 1..Len(src)
    <3>1. M \in Nat \ {0} BY <1>6
    <3>2. At(src, M) # "eof" BY <1>23, <1>17, Zenon
    <3>. QED BY <3>1, <3>2, InText, Zenon
  <2>2. Y \in (M + 1)..(Len(src) + 1) /\ Y = AfterSign(src, M)
    <3>1. Y = AfterSign(src, M) BY <1>3, Zenon DEF NumberAt
    <3>. QED BY <3>1, <2>1, <1>23, SignFacts, Zenon
  <2>3. CASE At(src, Y) \notin Digit
    <3>1. s = [Text(src, "TInt", p, M) EXCEPT !.drift = Y - M] BY <2>3, <1>3, <1>23, Zenon DEF NumberAt
    <3>2. s.kind = "TInt" /\ s.value = String(SubSeq(src, p, M - 1)) /\ s.end = M
      BY <3>1 DEF Text, Scan
    <3>. QED BY <3>2, <1>4, <1>22, Zenon
  <2>4. CASE At(src, Y) \in Digit
    <3>1. PICK w \in 3..(Len(src) + 1) : w + d = Y
      <4>1. Y \in Nat /\ M < Y /\ Y <= Len(src) + 1 BY <1>1, <2>1, <2>2, LaterPosition, Zenon
      <4>2. Y - d \in 3..(Len(src) + 1) /\ (Y - d) + d = Y BY <4>1, <1>10
      <4>. QED BY <4>2, Zenon
    <3>2. g < w BY <3>1, <2>2, <1>10
    <3>3. Y \in 1..Len(src)
      <4>1. Y \in Nat \ {0} BY <2>1, <2>2
      <4>2. At(src, Y) # "eof" BY <2>4, <1>17, Zenon
      <4>. QED BY <4>1, <4>2, InText, Zenon
    <3>4. PICK E \in (Y + 1)..(Len(src) + 1) : E = Past(src, Y, Digit)
      BY <3>3, <2>4, DigitRun, Zenon
    <3>5. s = Text(src, "TFloat", p, E) BY <3>4, <2>4, <1>3, <1>23, Zenon DEF NumberAt
    <3>6. E = n + d BY <3>5, <1>8, <1>16, Zenon
    <3>7. /\ w <= n /\ w \in 1..(n - 1) /\ w \in 1..(Len(t) + 1) /\ n \in w..(Len(t) + 1)
          /\ g <= n /\ g \in 1..(n - 1) /\ g \in 1..Len(t) /\ w \in (g + 1)..(Len(t) + 1)
      BY <3>1, <3>2, <3>4, <3>6, <1>7
    <3>8. m = g BY <3>7, <1>11
    <3>9. At(t, m) \in ee BY <3>7, <3>8, <1>9, <1>10, <1>23, Zenon
    <3>10. y = w
      <4>1. w + d = AfterSign(src, g + d) BY <3>1, <2>2, <1>10, Zenon
      <4>2. AfterSign(t, g) = w BY <4>1, <3>7, SignPart, Zenon
      <4>3. y = AfterSign(t, m) BY <1>5, Zenon DEF NumberAt
      <4>. QED BY <4>2, <4>3, <3>8, Zenon
    <3>11. At(t, y) \in Digit BY <3>1, <3>7, <3>10, <2>4, <1>9, Zenon
    <3>15. n + d = Past(src, w + d, Digit) BY <3>1, <3>4, <3>6, Zenon
    <3>12. Past(t, w, Digit) = n BY <3>7, <3>15, DigitsPart, Zenon
    <3>13. r = Text(t, "TFloat", 1, n) BY <3>9, <3>10, <3>11, <3>12, <1>5, Zenon DEF NumberAt
    <3>14. SameToken(s, r, d) BY <3>5, <3>6, <3>13, <1>12, Zenon
    <3>. QED BY <3>14, <1>4, Zenon
  <2>. QED BY <2>3, <2>4, Zenon
<1>24. CASE At(src, M) # "." /\ At(src, M) \notin ee
  <2>1. U = matchDurationUnit(src, M) BY <1>3, Zenon DEF NumberAt
  <2>2. CASE U = 0
    <3>1. s = Text(src, "TInt", p, M) BY <2>2, <1>3, <1>24, Zenon DEF NumberAt
    <3>2. s.kind = "TInt" /\ s.value = String(SubSeq(src, p, M - 1)) /\ s.end = M
      BY <3>1 DEF Text, Scan
    <3>. QED BY <3>2, <1>4, <1>22, Zenon
  <2>3. CASE U # 0
    <3>1. M \in 1..(Len(src) + 1) BY <1>6
    <3>2. U \in Nat /\ M + U \in (M + 1)..(Len(src) + 1) BY <3>1, <2>1, <2>3, UnitFacts, Zenon
    <3>3. PICK B \in 1..(Len(src) + 1) : B = M + U BY <3>1, <3>2
    <3>4. PICK E \in B..(Len(src) + 1) : E = durationEnd(src, B) BY DurationFacts, Zenon
    <3>5. s = Text(src, "TDuration", p, E) BY <3>3, <3>4, <2>3, <1>3, <1>24, Zenon DEF NumberAt
    <3>6. E = n + d BY <3>5, <1>8, <1>16, Zenon
    <3>7. PICK b \in 2..(Len(t) + 1) : b = g + U /\ b + d = B
      <4>1. (g + U) + d = B BY <3>2, <3>3, <1>10
      <4>2. B <= n + d BY <3>4, <3>6
      <4>3. g + U \in Int /\ 2 <= g + U BY <3>2
      <4>4. g + U <= n BY <4>1, <4>2, <4>3
      <4>5. g + U \in 2..(Len(t) + 1) BY <4>3, <4>4, <1>7
      <4>. QED BY <4>1, <4>5, Zenon
    <3>8. g \in 1..(n - 1) /\ g <= n /\ g \in 1..Len(t) /\ g + U <= Len(t) + 1
      BY <3>2, <3>7, <2>3, <1>7
    <3>9. m = g BY <3>8, <1>11
    <3>10. At(t, m) = At(src, M) BY <3>8, <3>9, <1>9, <1>10, Zenon
    <3>11. u = U
      <4>1. U = matchDurationUnit(src, g + d) BY <2>1, <1>10, Zenon
      <4>2. matchDurationUnit(t, g) = U BY <4>1, <3>8, <2>3, UnitPart, Zenon
      <4>3. u = matchDurationUnit(t, m) BY <1>5, Zenon DEF NumberAt
      <4>. QED BY <4>2, <4>3, <3>9, Zenon
    <3>12. durationEnd(t, b) = n
      <4>1. Len(t) + 1 + d = durationEnd(src, b + d) BY <3>4, <3>6, <3>7, <1>7, Zenon
      <4>. QED BY <4>1, <1>7, ChainPart, Zenon
    <3>13. r = Text(t, "TDuration", 1, n)
      <4>1. r = Text(t, "TDuration", 1, durationEnd(t, m + u))
        BY <3>10, <3>11, <2>3, <1>5, <1>24, Zenon DEF NumberAt
      <4>. QED BY <4>1, <3>7, <3>9, <3>11, <3>12, Zenon
    <3>14. SameToken(s, r, d) BY <3>5, <3>6, <3>13, <1>12, Zenon
    <3>. QED BY <3>14, <1>4, Zenon
  <2>. QED BY <2>2, <2>3, Zenon
<1>. QED BY <1>20, <1>21, <1>23, <1>24, Zenon

(* A part has a prefix when its text has it there and it is long enough.   *)
LEMMA PrefixPart ==
    ASSUME NEW src \in Seq(Byte), NEW t, NEW d \in Nat, Part(src, t, d), NEW p, p = 1 + d,
           NEW a, NEW b
    PROVE  /\ Prefix(t, 1, a, b) => Prefix(src, p, a, b)
           /\ 3 <= Len(t) => (Prefix(src, p, a, b) => Prefix(t, 1, a, b))
<1>1. t \in Seq(Byte) /\ Len(t) \in Nat /\ \A j \in 1..Len(t) : At(t, j) = At(src, j + d)
  BY DEF Part
<1>2. 3 <= Len(t) => /\ At(t, 1) = At(src, p)
                     /\ At(t, 1 + 1) = At(src, p + 1)
                     /\ At(t, 1 + 2) = At(src, p + 2)
  <2>1. 3 <= Len(t) => /\ 1 \in 1..Len(t) /\ 1 + d = p
                       /\ 1 + 1 \in 1..Len(t) /\ (1 + 1) + d = p + 1
                       /\ 1 + 2 \in 1..Len(t) /\ (1 + 2) + d = p + 2
    BY <1>1
  <2>. QED BY <2>1, <1>1, Zenon
<1>3. Prefix(t, 1, a, b) => 3 <= Len(t)
  <2>. SUFFICES ASSUME Prefix(t, 1, a, b) PROVE 3 <= Len(t) OBVIOUS
  <2>1. At(t, 1 + 2) # "eof" BY QuoteDiffers, Zenon DEF Prefix
  <2>2. PICK k \in Nat \ {0} : k = 1 + 2 OBVIOUS
  <2>3. k \in 1..Len(t) BY <2>1, <2>2, <1>1, InText, Zenon
  <2>. QED BY <2>2, <2>3
<1>. QED BY <1>2, <1>3, Zenon DEF Prefix

(* A token after a prefix is at least as long as the prefix and its quote. *)
LEMMA PrefixLong ==
    ASSUME NEW src \in Seq(Byte), NEW p \in 1..Len(src), OnOneLine(src, p, p + 1),
           NEW a, NEW b \in {"x", "s", "p"}, Prefix(src, p, a, b)
    PROVE  /\ scanBytes(src, p).end >= p + 3
           /\ \A kind : kind # "TEOF" => scanBody(src, p + 3, kind).end >= p + 3
<1>1. p + 2 \in 1..Len(src) /\ p + 3 \in (p + 1)..(Len(src) + 1) BY PrefixFits, Zenon
<1>2. PICK q \in 1..Len(src) : q = p + 2 BY <1>1
<1>3. PICK e \in (q + 1)..(Len(src) + 1) : e = p + 3 BY <1>1, <1>2
<1>4. e \in 1..(Len(src) + 1) /\ q + 1 = e BY <1>2, <1>3
<1>5. At(src, q) # "\n" BY <1>2, QuoteDiffers, Zenon DEF Prefix
<1>6. OnOneLine(src, q, e)
  <2>1. \A j \in q..(e - 1) : j = q BY <1>4
  <2>. QED BY <2>1, <1>5, Zenon DEF OnOneLine
<1>7. ASSUME NEW kind, kind # "TEOF"
      PROVE  scanBody(src, e, kind).end >= e
  <2>1. scanBody(src, e, kind).end \in (q + 1)..(Len(src) + 1)
    BY <1>6, <1>7, ScanBodyFits, Zenon DEF Fits
  <2>. QED BY <2>1, <1>4
<1>8. scanBytes(src, p).end >= e
  <2>. DEFINE Q == {Quote, "\n"}
              s == scanBytes(src, p)
  <2>1. PICK k : BytesAt(src, p, k, s) BY BytesResult, Zenon
  <2>2. k = Until(src, e, Q) BY <2>1, <1>3, Zenon DEF BytesAt
  <2>. HIDE DEF Q, s
  <2>3. k \in e..(Len(src) + 1) BY <2>2, <1>4, UntilFacts, Zenon
  <2>4. (\E kind, v : s = Scan(kind, v, k)) \/ (\E kind, v : s = Scan(kind, v, k + 1))
    BY <2>1, Zenon DEF BytesAt
  <2>5. s.end = k \/ s.end = k + 1 BY <2>4 DEF Scan
  <2>6. s.end >= e BY <2>3, <2>5
  <2>. QED BY <2>6, Zenon DEF s
<1>. QED BY <1>3, <1>7, <1>8, Zenon

(* Every token reads the same on its own.                                  *)
LEMMA ScanTokenPart ==
    ASSUME NEW src \in Seq(Byte), NEW p \in 1..Len(src), At(src, p) # "\n",
           NEW t, NEW d \in Nat, Part(src, t, d), p = 1 + d, NEW n \in Nat \ {0}, n = Len(t),
           NEW s, s = scanToken(src, p), s.end = Len(t) + d + 1
    PROVE  SameToken(s, scanToken(t, 1), d)
<1>5. Part(src, t, d) /\ 1 <= Len(t) /\ s.end = Len(t) + d + 1 /\ p = 1 + d OBVIOUS
<1>6. PICK c : c = At(src, p) /\ c = At(t, 1)
  <2>1. 1 \in 1..Len(t) OBVIOUS
  <2>2. \A j \in 1..Len(t) : At(t, j) = At(src, j + d) BY Zenon DEF Part
  <2>. QED BY <2>1, <2>2, <1>5, Zenon
<1>7. OnOneLine(src, p, p + 1)
  <2>1. OnOneLine(src, p, p) /\ p \in Nat BY DEF OnOneLine
  <2>. QED BY <2>1, OneLineStep, Zenon
<1>9. ASSUME NEW kind, kind # "TError", NEW b \in 1..(Len(t) + 1),
             s = scanBody(src, b + d, kind), scanToken(t, 1) = scanBody(t, b, kind)
      PROVE  SameToken(s, scanToken(t, 1), d)
  <2>1. SameToken(s, scanBody(t, b, kind), d) BY <1>5, <1>9, BodyPart, Zenon
  <2>. QED BY <2>1, <1>9, Zenon
<1>10. ASSUME NEW kind, kind # "TError", kind # "TEOF", NEW a, NEW b \in {"x", "s", "p"},
              Prefix(src, p, a, b),
              s = scanBody(src, p + 3, kind), 
              Prefix(t, 1, a, b) => scanToken(t, 1) = scanBody(t, 1 + 3, kind)
       PROVE  SameToken(s, scanToken(t, 1), d)
  <2>1. scanBody(src, p + 3, kind).end >= p + 3 BY <1>7, <1>10, PrefixLong, Zenon
  <2>2. 3 <= Len(t)
    <3>1. s.end >= p + 3 BY <2>1, <1>10, Zenon
    <3>. QED BY <3>1, <1>5
  <2>3. scanToken(t, 1) = scanBody(t, 1 + 3, kind) BY <2>2, <1>5, <1>10, PrefixPart, Zenon
  <2>4. PICK q \in 1..(Len(t) + 1) : q = 1 + 3 BY <2>2, <1>5
  <2>5. q + d = p + 3 BY <2>4, <1>5
  <2>6. s = scanBody(src, q + d, kind) /\ scanToken(t, 1) = scanBody(t, q, kind)
    BY <2>3, <2>4, <2>5, <1>10, Zenon
  <2>. QED BY <2>6, <1>9, <1>10, Zenon
<1>11. CASE c = Quote
  <2>1. PICK b \in 1..(Len(t) + 1) : b = 1 + 1 BY <1>5
  <2>2. b + d = p + 1 BY <2>1, <1>5
  <2>3. s = scanBody(src, p + 1, "TString") BY <1>6, <1>11, ScanTokenCases, Zenon
  <2>4. scanToken(t, 1) = scanBody(t, 1 + 1, "TString") BY <1>6, <1>11, ScanTokenCases, Zenon
  <2>5. s = scanBody(src, b + d, "TString") /\ scanToken(t, 1) = scanBody(t, b, "TString")
    BY <2>1, <2>2, <2>3, <2>4, Zenon
  <2>. QED BY <2>5, <1>9, Zenon
<1>12. CASE Prefix(src, p, "t", "s")
  <2>1. s = scanBody(src, p + 3, "TTimestamp") BY <1>12, ScanTokenCases, Zenon
  <2>2. Prefix(t, 1, "t", "s") => scanToken(t, 1) = scanBody(t, 1 + 3, "TTimestamp")
    BY ScanTokenCases, Zenon
  <2>3. "s" \in {"x", "s", "p"} OBVIOUS
  <2>. QED BY <2>1, <2>2, <2>3, <1>10, <1>12, Zenon
<1>13. CASE Prefix(src, p, "i", "p")
  <2>1. s = scanBody(src, p + 3, "TIP") BY <1>13, ScanTokenCases, Zenon
  <2>2. Prefix(t, 1, "i", "p") => scanToken(t, 1) = scanBody(t, 1 + 3, "TIP")
    BY ScanTokenCases, Zenon
  <2>3. "p" \in {"x", "s", "p"} OBVIOUS
  <2>. QED BY <2>1, <2>2, <2>3, <1>10, <1>13, Zenon
<1>14. CASE Prefix(src, p, "0", "x")
  <2>1. s = scanBytes(src, p) BY <1>14, ScanTokenCases, Zenon
  <2>2. "x" \in {"x", "s", "p"} OBVIOUS
  <2>3. scanBytes(src, p).end >= p + 3 BY <2>2, <1>7, <1>14, PrefixLong, Zenon
  <2>4. 3 <= Len(t)
    <3>1. s.end >= p + 3 BY <2>1, <2>3, Zenon
    <3>. QED BY <3>1, <1>5
  <2>5. Prefix(t, 1, "0", "x") BY <2>4, <1>5, <1>14, PrefixPart, Zenon
  <2>6. scanToken(t, 1) = scanBytes(t, 1) BY <2>5, ScanTokenCases, Zenon
  <2>7. s = scanBytes(src, 1 + d) BY <2>1, <1>5, Zenon
  <2>8. SameToken(s, scanBytes(t, 1), d) BY <2>4, <2>7, <1>5, BytesPart, Zenon
  <2>. QED BY <2>6, <2>8, Zenon
<1>15. CASE c \in Digit /\ ~Prefix(src, p, "0", "x")
  <2>1. s = scanNumber(src, 1 + d) /\ At(src, 1 + d) \in Digit
    BY <1>5, <1>6, <1>15, ScanTokenCases, Zenon
  <2>2. ~Prefix(t, 1, "0", "x") BY <1>5, <1>15, PrefixPart, Zenon
  <2>3. scanToken(t, 1) = scanNumber(t, 1) BY <2>2, <1>6, <1>15, ScanTokenCases, Zenon
  <2>4. SameToken(s, scanNumber(t, 1), d) BY <2>1, <1>5, NumberPart, Zenon
  <2>. QED BY <2>3, <2>4, Zenon
<1>16. CASE c \in Lower /\ ~Prefix(src, p, "t", "s") /\ ~Prefix(src, p, "i", "p")
  <2>1. s = scanIdentOrKeyword(src, 1 + d) BY <1>5, <1>6, <1>16, ScanTokenCases, Zenon
  <2>2. ~Prefix(t, 1, "t", "s") BY <1>5, <1>16, PrefixPart, Zenon
  <2>3. ~Prefix(t, 1, "i", "p") BY <1>5, <1>16, PrefixPart, Zenon
  <2>4. scanToken(t, 1) = scanIdentOrKeyword(t, 1)
    BY <2>2, <2>3, <1>6, <1>16, ScanTokenCases, Zenon
  <2>5. SameToken(s, scanIdentOrKeyword(t, 1), d) BY <2>1, <1>5, IdentPart, Zenon
  <2>. QED BY <2>4, <2>5, Zenon
<1>17. (1 + 1) + d = p + 1 BY <1>5
<1>18. CASE c \in DOMAIN Punctuation
  <2>1. s = Scan(Punctuation[c], NoValue, p + 1) BY <1>6, <1>18, ScanTokenCases, Zenon
  <2>2. scanToken(t, 1) = Scan(Punctuation[c], NoValue, 1 + 1)
    <3>1. PICK a : a = 1 OBVIOUS
    <3>2. c = At(t, a) BY <3>1, <1>6, Zenon
    <3>3. scanToken(t, a) = Scan(Punctuation[c], NoValue, a + 1) BY <3>2, <1>18, ScanTokenCases, Zenon
    <3>. QED BY <3>1, <3>3, Zenon
  <2>. QED BY <2>1, <2>2, <1>17, SameScan, Zenon
<1>19. CASE c \notin {Quote} \cup Digit \cup Lower \cup DOMAIN Punctuation
  <2>1. s = Scan("TError", NoValue, p + 1) BY <1>6, <1>19, ScanTokenCases, Zenon
  <2>2. scanToken(t, 1) = Scan("TError", NoValue, 1 + 1) BY <1>6, <1>19, ScanTokenCases, Zenon
  <2>. QED BY <2>1, <2>2, <1>17, SameScan, Zenon
<1>. QED BY <1>11, <1>12, <1>13, <1>14, <1>15, <1>16, <1>18, <1>19, Zenon

(* The bytes scanToken covered, given to it alone, are read as the same    *)
(* kind with the same value and to their end (an error as an error): what  *)
(* a token is depends on its own bytes only.                               *)
THEOREM TokenReadsAlone ==
    ASSUME NEW src \in Seq(Byte), NEW p \in 1..Len(src), At(src, p) # "\n",
           NEW s, s = scanToken(src, p),
           NEW tok, tok.kind = s.kind, tok.value = s.value, tok.from = p, tok.to = s.end
    PROVE  ReadsAlone(src, tok)
<1>1. PICK e \in (p + 1)..(Len(src) + 1) : e = s.end BY ScanTokenFits, Zenon DEF Fits
<1>2. PICK t : t = SubSeq(src, p, e - 1) OBVIOUS
<1>3. Part(src, t, p - 1) /\ Len(t) = e - p BY <1>2, SlicePart, Zenon
<1>4. PICK d \in Nat : d = p - 1 OBVIOUS
<1>5. PICK n \in Nat \ {0} : n = e - p OBVIOUS
<1>6. Part(src, t, d) /\ n = Len(t) BY <1>3, <1>4, <1>5, Zenon
<1>7. p = 1 + d /\ e = n + d + 1 BY <1>4, <1>5
<1>8. s.end = Len(t) + d + 1 BY <1>1, <1>6, <1>7, Zenon
<1>9. PICK r : r = scanToken(t, 1) OBVIOUS
<1>10. SameToken(s, r, d) BY <1>6, <1>7, <1>8, <1>9, ScanTokenPart, Zenon
<1>11. r = scanToken(SubSeq(src, tok.from, tok.to - 1), 1) BY <1>1, <1>2, <1>9, Zenon
<1>12. r.kind # "TError" => r.value = tok.value /\ r.end = tok.to - tok.from + 1
  <2>1. r.kind # "TError" => r.end + d = e BY <1>1, <1>10 DEF SameToken
  <2>2. r.kind # "TError" => r.value = tok.value BY <1>10, Zenon DEF SameToken
  <2>3. r.kind # "TError" => r.end \in Int
    <3>1. t \in Seq(Byte) /\ Len(t) \in Nat BY <1>6 DEF Part
    <3>2. PICK a \in 1..Len(t) : a = 1 BY <1>6
    <3>3. At(t, a) # "\n"
      <4>1. At(t, a) = At(src, a + d) BY <1>6, Zenon DEF Part
      <4>. QED BY <4>1, <3>2, <1>7, Zenon
    <3>4. r.end \in (a + 1)..(Len(t) + 1) BY <3>1, <3>2, <3>3, <1>9, ScanTokenFits, Zenon DEF Fits
    <3>. QED BY <3>4
  <2>4. tok.to - tok.from + 1 = e - p + 1 BY <1>1, Zenon
  <2>5. r.kind # "TError" => r.end = e - p + 1 BY <2>1, <2>3, <1>7
  <2>. QED BY <2>2, <2>4, <2>5, Zenon
<1>13. r.kind = tok.kind BY <1>10, Zenon DEF SameToken
<1>. QED BY <1>11, <1>12, <1>13, Zenon DEF ReadsAlone

(* What the scanners promise the loops: a token that fits, and that reads  *)
(* the same on its own.                                                    *)
Scans(src) ==
    \A p \in 1..Len(src) :
      At(src, p) # "\n" =>
        /\ Fits(src, p, scanToken(src, p))
        /\ \A tok : /\ tok.kind = scanToken(src, p).kind
                    /\ tok.value = scanToken(src, p).value
                    /\ tok.from = p /\ tok.to = scanToken(src, p).end
                    => ReadsAlone(src, tok)

(* The scanners keep their promise in every text.                          *)
LEMMA ScansHold ==
    ASSUME NEW src \in Seq(Byte)
    PROVE  Scans(src)
<1>1. ASSUME NEW p \in 1..Len(src), At(src, p) # "\n" PROVE Fits(src, p, scanToken(src, p))
  BY <1>1, ScanTokenFits, Zenon
<1>2. ASSUME NEW p \in 1..Len(src), At(src, p) # "\n", NEW tok,
             tok.kind = scanToken(src, p).kind, tok.value = scanToken(src, p).value,
             tok.from = p, tok.to = scanToken(src, p).end
      PROVE  ReadsAlone(src, tok)
  BY <1>2, TokenReadsAlone, Zenon
<1>. QED BY <1>1, <1>2, Zenon DEF Scans
=============================================================================
