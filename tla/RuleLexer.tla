----------------------------- MODULE RuleLexer ------------------------------
(***************************************************************************)
(* The lexer of the rule language: pkg/rule/lexer/lexer.go and token.go.   *)
(* A text is a sequence of bytes, a byte a string of one character.  A     *)
(* step is one round of a loop: that of skipTrivia, or that of Lex.  A     *)
(* token keeps the bytes it covers (from, to) beside the position the code *)
(* reports (line, column), so the two can be compared.  Error messages are *)
(* left out.                                                               *)
(***************************************************************************)
EXTENDS Integers, Sequences, FiniteSetsExt

VARIABLES
    source,   \* lexer.src
    lexer     \* the cursor l, pendingErr (none or one token) and the tokens

lexVars == <<source, lexer>>

(* "eof" is what At answers past the end, and no byte.                     *)
Byte == STRING \ {"eof"}

Quote == "\""

Blank == {" ", "\t", "\n", "\r"}

(* The value of a token that has none, or an error message.                *)
NoValue == ""

Digit == {"0", "1", "2", "3", "4", "5", "6", "7", "8", "9"}

Lower == {"a", "b", "c", "d", "e", "f", "g", "h", "i", "j", "k", "l", "m",
          "n", "o", "p", "q", "r", "s", "t", "u", "v", "w", "x", "y", "z"}

IdentCont == Lower \cup Digit \cup {"_"}

Hex == Digit \cup {"a", "b", "c", "d", "e", "f", "A", "B", "C", "D", "E", "F"}

Keywords == {"and", "or", "not", "in", "eq", "ne", "lt", "le", "gt", "ge",
             "contains", "starts_with", "ends_with", "matches", "wildcard",
             "strict"}

Punctuation == [c \in {"(", ")", "[", "]", ",", "&"} |->
                  CASE c = "(" -> "TLParen" [] c = ")" -> "TRParen"
                    [] c = "[" -> "TLBrack" [] c = "]" -> "TRBrack"
                    [] c = "," -> "TComma"  [] c = "&" -> "TAmpersand"]

Escape == [c \in {"n", "t", "r", Quote, "\\"} |->
             CASE c = "n" -> "\n" [] c = "t" -> "\t" [] c = "r" -> "\r"
               [] OTHER -> c]

(* The byte at p, behind the bounds check of every read of l.src.          *)
At(src, p) == IF p <= Len(src) THEN src[p] ELSE "eof"

(* string(b).                                                              *)
String(b) ==
    LET upTo[i \in 0..Len(b)] == IF i = 0 THEN "" ELSE upTo[i - 1] \o b[i]
    IN  upTo[Len(b)]

(* The loops that advance while (until) the byte is in S.                  *)
Past(src, p, S) == Min({q \in p..(Len(src) + 1) : At(src, q) \notin S})

Until(src, p, S) == Min({q \in p..(Len(src) + 1) : At(src, q) \in S \cup {"eof"}})

-----------------------------------------------------------------------------
(* The cursor l: the next byte and the line and column it is taken to have. *)

(* Mutant: the column is not reset after a newline.                        *)
advanceNoReset(src, l, q) ==
    LET nls == {i \in l.pos..(q - 1) : At(src, i) = "\n"}
    IN  [pos |-> q, line |-> l.line + Cardinality(nls),
         col |-> l.col + (q - l.pos)]

advance(src, l, q) ==
    LET nls == {i \in l.pos..(q - 1) : At(src, i) = "\n"}
    IN  [pos |-> q, line |-> l.line + Cardinality(nls),
         col |-> IF nls = {} THEN l.col + (q - l.pos) ELSE q - Max(nls)]

Token(kind, value, l, to) ==
    [kind |-> kind, value |-> value, from |-> l.pos, to |-> to,
     line |-> l.line, column |-> l.col]

-----------------------------------------------------------------------------
(* The scanners.  A result is the kind and value of the token, the byte    *)
(* after it, and drift: by how much the column runs ahead of the cursor.   *)

Scan(kind, value, end) ==
    [kind |-> kind, value |-> value, end |-> end, drift |-> 0]

Text(src, kind, p, end) == Scan(kind, String(SubSeq(src, p, end - 1)), end)

(* The length of a duration unit at p, 0 if there is none.  The bytes c2   *)
(* and b5 are the letter mu.                                               *)
matchDurationUnit(src, p) ==
    LET c == At(src, p)
        s == At(src, p + 1) = "s"
        mu == c = "c2" /\ At(src, p + 1) = "b5" /\ At(src, p + 2) = "s"
    IN  CASE c \in {"n", "u", "m"} /\ s -> 2
          [] c \in {"s", "h"} \/ (c = "m" /\ ~s) -> 1
          [] mu -> 3
          [] OTHER -> 0

(* Whether the chain of digits and units before q ends there: after digits *)
(* comes neither a digit nor a unit, after a whole unit no digit.          *)
ChainEnds(src, q) ==
    LET b == At(src, q - 1)
        c == At(src, q)
        inUnit == \/ b \in {"n", "u", "m", "b5"} /\ c = "s"
                  \/ b = "c2" /\ c = "b5"
    IN  c \notin Digit /\ ~inUnit /\ (b \in Digit => matchDurationUnit(src, q) = 0)

(* The loop of scanNumber over the rest of a duration, after its first unit. *)
durationEnd(src, p) == Min({q \in p..(Len(src) + 1) : ChainEnds(src, q)})

(* The byte after "e", and the sign if there is one.                       *)
AfterSign(src, p) == IF At(src, p + 1) \in {"+", "-"} THEN p + 2 ELSE p + 1

(* After a malformed pure exponent the code rewinds l.pos but not l.col.   *)
scanNumber(src, p) ==
    LET d == Past(src, p, Digit)
        f == Past(src, d + 1, Digit)
        unit == matchDurationUnit(src, d)
        digitsAt(q) == At(src, q) \in Digit
    IN  CASE At(src, d) = "." /\ ~digitsAt(d + 1) -> Scan("TError", NoValue, d + 1)
          [] At(src, d) = "." /\ digitsAt(d + 1) ->
               IF At(src, f) \notin {"e", "E"} THEN Text(src, "TFloat", p, f)
               ELSE LET x == AfterSign(src, f)
                    IN  IF digitsAt(x)
                        THEN Text(src, "TFloat", p, Past(src, x, Digit))
                        ELSE Scan("TError", NoValue, x)
          [] At(src, d) \in {"e", "E"} ->
               LET x == AfterSign(src, d)
               IN  IF digitsAt(x)
                   THEN Text(src, "TFloat", p, Past(src, x, Digit))
                   ELSE [Text(src, "TInt", p, d) EXCEPT !.drift = x - d]
          [] OTHER ->
               IF unit = 0 THEN Text(src, "TInt", p, d)
               ELSE Text(src, "TDuration", p, durationEnd(src, d + unit))

(* In a body that starts at p, byte q is escaped: an odd number of         *)
(* backslashes stands right before it.                                     *)
Escaped(src, p, q) ==
    \E n \in 1..(q - p) :
      /\ n % 2 = 1
      /\ \A i \in 1..n : At(src, q - i) = "\\"
      /\ n < q - p => At(src, q - n - 1) # "\\"

(* Where the loop of scanString and scanPrefixString stops.                *)
BodyStops(src, p, q) ==
    /\ ~Escaped(src, p, q)
    /\ \/ At(src, q) \in {Quote, "\n", "eof"}
       \/ At(src, q) = "\\" /\ At(src, q + 1) \notin DOMAIN Escape

(* What each of n bytes from p adds to buf: an escape adds one for two.    *)
Decoded(src, p, n) ==
    [i \in 1..n |-> LET q == p + i - 1
                    IN  IF Escaped(src, p, q) THEN ""
                        ELSE IF At(src, q) = "\\" THEN Escape[At(src, q + 1)]
                        ELSE At(src, q)]

(* The body of a string or prefix string from p.                           *)
scanBody(src, p, kind) ==
    LET q == Min({i \in p..(Len(src) + 1) : BodyStops(src, p, i)})
        stop == Until(src, q, {Quote, "\n"})
    IN  CASE At(src, q) = Quote -> Scan(kind, String(Decoded(src, p, q - p)), q + 1)
          [] At(src, q) = "\\" /\ At(src, q + 1) # "eof" ->
               Scan("TError", NoValue, IF At(src, stop) = Quote THEN stop + 1 ELSE stop)
          [] OTHER -> Scan("TError", NoValue, q)

scanBytes(src, p) ==
    LET end == Until(src, p + 3, {Quote, "\n"})
        decodes == /\ (end - p - 3) % 2 = 0
                   /\ \A i \in (p + 3)..(end - 1) : At(src, i) \in Hex
    IN  CASE At(src, end) # Quote -> Scan("TError", NoValue, end)
          [] At(src, end) = Quote /\ ~decodes -> Scan("TError", NoValue, end + 1)
          [] OTHER -> Scan("TBytes", String(SubSeq(src, p + 3, end - 1)), end + 1)

(* An identifier goes on with a letter, digit or _, and with a dot before  *)
(* a letter.                                                               *)
IdentEnds(src, q) ==
    /\ At(src, q) \notin IdentCont
    /\ At(src, q) = "." => At(src, q + 1) \notin Lower

(* Bare reserved words are keywords; a dotted name never is.               *)
scanIdentOrKeyword(src, p) ==
    LET end == Min({q \in (p + 1)..(Len(src) + 1) : IdentEnds(src, q)})
        word == String(SubSeq(src, p, end - 1))
    IN  Scan(CASE word \in {"true", "false"} -> "TBool"
               [] word \in Keywords -> "TKeyword"
               [] OTHER -> "TIdent", word, end)

scanToken(src, p) ==
    LET c == At(src, p)
        prefix(a, b) == c = a /\ At(src, p + 1) = b /\ At(src, p + 2) = Quote
    IN  CASE c = Quote -> scanBody(src, p + 1, "TString")
          [] prefix("0", "x") -> scanBytes(src, p)
          [] prefix("t", "s") -> scanBody(src, p + 3, "TTimestamp")
          [] prefix("i", "p") -> scanBody(src, p + 3, "TIP")
          [] c \in Digit /\ ~prefix("0", "x") -> scanNumber(src, p)
          [] c \in Lower /\ ~prefix("t", "s") /\ ~prefix("i", "p") ->
               scanIdentOrKeyword(src, p)
          [] c \in DOMAIN Punctuation -> Scan(Punctuation[c], NoValue, p + 1)
          [] OTHER -> Scan("TError", NoValue, p + 1)

-----------------------------------------------------------------------------
(* The loops.                                                              *)

Lexed(x) == x.tokens # <<>> /\ x.tokens[Len(x.tokens)].kind = "TEOF"

Trivia == Blank \cup {"#"}

BareCR(src, p) == At(src, p) = "\r" /\ At(src, p + 1) # "\n"

(* Mutant: a comment runs to the end of the text.                          *)
TriviaEndAll(src, p) == IF At(src, p) = "#" THEN Len(src) + 1 ELSE p + 1

(* CRLF is one newline; a comment runs to the end of its line.             *)
TriviaEnd(src, p) ==
    CASE At(src, p) = "\r" /\ ~BareCR(src, p) -> p + 2
      [] At(src, p) = "#" -> Until(src, p, {"\n"})
      [] OTHER -> p + 1

(* One round of skipTrivia.  A bare CR is stashed in pendingErr, which     *)
(* holds one error only: a second one before the next token replaces it.   *)
skipTrivia(src, x) ==
    [l |-> advance(src, x.l, TriviaEnd(src, x.l.pos)),
     pendingErr |-> IF BareCR(src, x.l.pos)
                    THEN <<Token("TError", NoValue, x.l, x.l.pos + 1)>> ELSE x.pendingErr,
     tokens |-> x.tokens]

(* The rest of a round of Lex: pendingErr, then a token or the last one.   *)
emitToken(src, x) ==
    LET s == scanToken(src, x.l.pos)
        l == advance(src, x.l, s.end)
    IN  [l |-> [l EXCEPT !.col = @ + s.drift],
         pendingErr |-> <<>>,
         tokens |-> x.tokens \o x.pendingErr \o <<Token(s.kind, s.value, x.l, s.end)>>]

emitEOF(src, x) ==
    [l |-> x.l, pendingErr |-> <<>>,
     tokens |-> x.tokens \o x.pendingErr \o <<Token("TEOF", NoValue, x.l, x.l.pos)>>]

LexStep(src, x) ==
    CASE At(src, x.l.pos) \in Trivia -> skipTrivia(src, x)
      [] At(src, x.l.pos) = "eof" -> emitEOF(src, x)
      [] OTHER -> emitToken(src, x)

NewLexer == [l |-> [pos |-> 1, line |-> 1, col |-> 1], pendingErr |-> <<>>, tokens |-> <<>>]

LexInit == source \in Seq(Byte) /\ lexer = NewLexer

LexNext == ~Lexed(lexer) /\ lexer' = LexStep(source, lexer) /\ UNCHANGED source

LexSpec == LexInit /\ [][LexNext]_lexVars

-----------------------------------------------------------------------------
(* What the tokens of a text should be, said without scanning it.          *)

(* Byte p is white space, which a CR without a LF is not, or in a comment: *)
(* after a # that is in no token, on the same line.                        *)
Trivial(src, toks, p) ==
    \/ At(src, p) \in Blank /\ ~BareCR(src, p)
    \/ \E h \in 1..p :
         /\ At(src, h) = "#"
         /\ \A q \in h..p : At(src, q) # "\n"
         /\ \A k \in 1..Len(toks) : ~(toks[k].from <= h /\ h < toks[k].to)

(* A token is the one token of the bytes it covers; of an error only the   *)
(* kind is looked at.                                                      *)
ReadsAlone(src, tok) ==
    LET alone == scanToken(SubSeq(src, tok.from, tok.to - 1), 1)
    IN  /\ alone.kind = tok.kind
        /\ alone.kind # "TError" =>
             alone.value = tok.value /\ alone.end = tok.to - tok.from + 1

(* Byte p is a bare CR whose error is lost: a later one is reported, and   *)
(* no token stands between the two.  lexer.go:40-44 promises "the          *)
(* positions of every error" and lexer.go:122-124 calls each lone CR one,  *)
(* but skipTrivia overwrites pendingErr.                                   *)
Overwritten(src, toks, p) ==
    /\ BareCR(src, p)
    /\ \E k \in 1..Len(toks) :
         /\ BareCR(src, toks[k].from) /\ p < toks[k].from
         /\ \A j \in 1..Len(toks) : toks[j].to <= p \/ toks[k].from <= toks[j].from

(* The tokens cover the text in order, nothing but trivia and overwritten  *)
(* CRs lies outside them, and each is the one token of the bytes it        *)
(* covers.                                                                 *)
Tiles(src, toks) ==
    /\ \A k \in 1..Len(toks) : (toks[k].kind = "TEOF") <=> (k = Len(toks))
    /\ \A p \in 1..Len(src) :
         \/ Trivial(src, toks, p) \/ Overwritten(src, toks, p)
         \/ \E k \in 1..Len(toks) : toks[k].from <= p /\ p < toks[k].to
    /\ \A k \in 1..(Len(toks) - 1) :
         /\ toks[k].from < toks[k].to /\ toks[k].to <= toks[k + 1].from
         /\ ReadsAlone(src, toks[k])

(* The line and column of byte p, counted from the text.                   *)
TruePosition(src, p) ==
    LET nls == {i \in 1..(p - 1) : At(src, i) = "\n"}
    IN  <<1 + Cardinality(nls), IF nls = {} THEN p ELSE p - Max(nls)>>

(* An integer directly followed by e or E: an exponent without digits.     *)
Drifts(src, tok) == tok.kind = "TInt" /\ At(src, tok.to) \in {"e", "E"}

(* No byte of a text is lost or read twice: the tokens of Lex cover it in  *)
(* order with only white space and comments between them, each token reads *)
(* the same on its own, and TEOF is the last one and only it.  The one     *)
(* byte that may go unreported is a bare CR that another bare CR follows   *)
(* before the next token: of such a run only the last is an error token.   *)
TokensTileText == Lexed(lexer) => Tiles(source, lexer.tokens)

(* The line and column of a token are those of its first byte, unless a    *)
(* malformed exponent stands before it on its line.                        *)
PositionsAreTrue ==
    LET toks == lexer.tokens
    IN  \A k \in 1..Len(toks) :
          \/ \E j \in 1..(k - 1) : Drifts(source, toks[j]) /\ toks[j].line = toks[k].line
          \/ <<toks[k].line, toks[k].column>> = TruePosition(source, toks[k].from)
=============================================================================
