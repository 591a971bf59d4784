-------------------------- MODULE RuleLexerProofs ---------------------------
(***************************************************************************)
(* Proofs about the loops of the lexer, for every text: its tokens tile    *)
(* the text, each reads the same on its own, and they are on the lines and *)
(* columns they report, but for the columns after a malformed exponent.    *)
(***************************************************************************)
EXTENDS RuleScanProofs

-----------------------------------------------------------------------------
(* The tokens of a text so far, and the bytes before the cursor.           *)

(* Token tok is what scanToken promises: bytes of the text, not the last   *)
(* token, and the one token of its bytes.                                  *)
Emitted(src, tok) ==
    /\ tok.from \in 1..Len(src) /\ tok.to \in (tok.from + 1)..(Len(src) + 1)
    /\ tok.kind # "TEOF" /\ ReadsAlone(src, tok)

(* What an emitted token is.                                               *)
LEMMA EmittedFacts ==
    ASSUME NEW src \in Seq(Byte), NEW tok, Emitted(src, tok)
    PROVE  /\ tok.from \in 1..Len(src) /\ tok.to \in (tok.from + 1)..(Len(src) + 1)
           /\ tok.kind # "TEOF" /\ ReadsAlone(src, tok)
BY Zenon DEF Emitted

(* The token of a scan is one that Lex may append.                         *)
LEMMA ScannedEmitted ==
    ASSUME NEW src, Scans(src), NEW p \in 1..Len(src), At(src, p) # "\n",
           NEW s, s = scanToken(src, p),
           NEW tok, tok.kind = s.kind, tok.value = s.value, tok.from = p, tok.to = s.end
    PROVE  Emitted(src, tok)
<1>1. Fits(src, p, s) /\ ReadsAlone(src, tok) BY Zenon DEF Scans
<1>2. s.end \in (p + 1)..(Len(src) + 1) /\ s.kind # "TEOF" BY <1>1, Zenon DEF Fits
<1>. QED BY <1>1, <1>2, Zenon DEF Emitted

Covers(tok, p) == tok.from <= p /\ p < tok.to

(* A byte that the tokens, or the exceptions of Tiles, account for.        *)
Accounted(src, toks, p) ==
    \/ Trivial(src, toks, p) \/ Overwritten(src, toks, p)
    \/ \E k \in 1..Len(toks) : Covers(toks[k], p)

(* The tokens toks are in order and account for every byte before pos.     *)
Tiling(src, toks, pos) ==
    /\ \A k \in 1..Len(toks) : Emitted(src, toks[k]) /\ toks[k].to <= pos
    /\ \A j, k \in 1..Len(toks) : j < k => toks[j].to <= toks[k].from
    /\ \A p \in 1..(pos - 1) : Accounted(src, toks, p)

(* A comment or white space that outlives a change of the tokens: the new  *)
(* ones do not cover its #.                                                *)
LEMMA TrivialKept ==
    ASSUME NEW src, NEW toks, NEW more, NEW p \in Nat, Trivial(src, toks, p),
           \A h \in 1..p : (\E k \in 1..Len(more) : Covers(more[k], h)) =>
                             \E k \in 1..Len(toks) : Covers(toks[k], h)
    PROVE  Trivial(src, more, p)
<1>1. CASE At(src, p) \in Blank /\ ~BareCR(src, p) BY <1>1, Zenon DEF Trivial
<1>2. CASE ~(At(src, p) \in Blank /\ ~BareCR(src, p))
  <2>1. PICK h \in 1..p : /\ At(src, h) = "#"
                          /\ \A q \in h..p : At(src, q) # "\n"
                          /\ \A k \in 1..Len(toks) : ~Covers(toks[k], h)
    BY <1>2, Zenon DEF Trivial, Covers
  <2>2. \A k \in 1..Len(more) : ~Covers(more[k], h) BY <2>1, Zenon
  <2>. QED BY <2>1, <2>2, Zenon DEF Trivial, Covers
<1>. QED BY <1>1, <1>2

(* White space and comments leave the tokens as they are.                  *)
LEMMA TilingSkip ==
    ASSUME NEW src \in Seq(Byte), NEW toks, NEW pos \in Nat \ {0}, Tiling(src, toks, pos),
           NEW q \in Nat, pos <= q,
           \A p \in pos..(q - 1) : \/ At(src, p) \in Blank /\ ~BareCR(src, p)
                                   \/ At(src, pos) = "#" /\ \A i \in pos..p : At(src, i) # "\n"
    PROVE  Tiling(src, toks, q)
<1>1. \A k \in 1..Len(toks) : Emitted(src, toks[k]) /\ toks[k].to <= pos BY Zenon DEF Tiling
<1>2. ASSUME NEW k \in 1..Len(toks) PROVE toks[k].to <= q /\ ~Covers(toks[k], pos)
  <2>1. toks[k].to \in (toks[k].from + 1)..(Len(src) + 1) /\ toks[k].from \in 1..Len(src)
    BY <1>1, EmittedFacts, Zenon
  <2>2. toks[k].to \in Int BY <2>1
  <2>. QED BY <2>2, <1>1 DEF Covers
<1>3. ASSUME NEW p \in 1..(q - 1) PROVE Accounted(src, toks, p)
  <2>1. CASE p < pos
    <3>1. p \in 1..(pos - 1) BY <2>1
    <3>. QED BY <3>1, Zenon DEF Tiling
  <2>2. CASE pos <= p
    <3>1. p \in pos..(q - 1) /\ pos \in 1..p BY <2>2
    <3>2. CASE At(src, p) \in Blank /\ ~BareCR(src, p) BY <3>2, Zenon DEF Trivial, Accounted
    <3>3. CASE At(src, pos) = "#" /\ \A i \in pos..p : At(src, i) # "\n"
      BY <3>1, <3>3, <1>2, Zenon DEF Trivial, Covers, Accounted
    <3>. QED BY <3>1, <3>2, <3>3, Zenon
  <2>. QED BY <2>1, <2>2
<1>4. \A j, k \in 1..Len(toks) : j < k => toks[j].to <= toks[k].from BY Zenon DEF Tiling
<1>. QED BY <1>1, <1>2, <1>3, <1>4, Zenon DEF Tiling

(* The sequence more is toks with tok at its end.                          *)
Extended(toks, tok, more) ==
    /\ Len(toks) \in Nat /\ Len(more) = Len(toks) + 1
    /\ \A k \in 1..Len(toks) : k \in 1..Len(more) /\ more[k] = toks[k]
    /\ more[Len(more)] = tok /\ Len(more) \in 1..Len(more)
    /\ \A k \in 1..Len(more) : k = Len(more) \/ (k \in 1..Len(toks) /\ more[k] = toks[k])
    /\ \A k \in 1..Len(toks) : k # Len(more)

(* Appending a token keeps those before it.                                *)
LEMMA AppendFacts ==
    ASSUME NEW S, NEW toks \in Seq(S), NEW tok \in S, NEW more, more = toks \o <<tok>>
    PROVE  more \in Seq(S) /\ Extended(toks, tok, more)
BY DEF Extended

(* A lost error stays lost when a token is appended behind the others.     *)
LEMMA OverwrittenKept ==
    ASSUME NEW src, NEW toks, NEW tok, NEW more, Extended(toks, tok, more), NEW p,
           Overwritten(src, toks, p), \A k \in 1..Len(toks) : toks[k].from <= tok.from
    PROVE  Overwritten(src, more, p)
<1>1. PICK k \in 1..Len(toks) :
        /\ BareCR(src, toks[k].from) /\ p < toks[k].from
        /\ \A j \in 1..Len(toks) : toks[j].to <= p \/ toks[k].from <= toks[j].from
  BY Zenon DEF Overwritten
<1>2. k \in 1..Len(more) /\ more[k] = toks[k] BY Zenon DEF Extended
<1>3. ASSUME NEW j \in 1..Len(more) PROVE more[j].to <= p \/ more[k].from <= more[j].from
  <2>1. CASE j = Len(more) BY <2>1, <1>2, Zenon DEF Extended
  <2>2. CASE j # Len(more) BY <2>2, <1>1, <1>2, Zenon DEF Extended
  <2>. QED BY <2>1, <2>2
<1>. QED BY <1>1, <1>2, <1>3, Zenon DEF Overwritten

(* Appending the token at the cursor extends the tiling to its end.        *)
LEMMA TilingAppend ==
    ASSUME NEW S, NEW src \in Seq(Byte), NEW toks \in Seq(S), NEW pos \in Nat \ {0},
           Tiling(src, toks, pos), NEW tok \in S, Emitted(src, tok), tok.from = pos,
           NEW q, q = tok.to, NEW more, more = toks \o <<tok>>
    PROVE  Tiling(src, more, q)
<1>. DEFINE n == Len(toks)
<1>0. Extended(toks, tok, more) BY AppendFacts, Zenon
<1>1. /\ Len(more) = n + 1 /\ n \in Nat
      /\ \A k \in 1..n : k \in 1..Len(more) /\ more[k] = toks[k]
      /\ more[Len(more)] = tok /\ Len(more) \in 1..Len(more)
      /\ \A k \in 1..Len(more) : k = Len(more) \/ k \in 1..n
  BY <1>0, Zenon DEF Extended
<1>. HIDE DEF n
<1>2. q \in (pos + 1)..(Len(src) + 1)
  <2>1. tok.to \in (tok.from + 1)..(Len(src) + 1) BY EmittedFacts, Zenon
  <2>. QED BY <2>1, Zenon
<1>3. \A k \in 1..n : Emitted(src, toks[k]) /\ toks[k].to <= pos BY Zenon DEF Tiling, n
<1>4. ASSUME NEW k \in 1..n PROVE toks[k].to \in Nat /\ toks[k].from <= pos
  <2>1. /\ toks[k].to \in (toks[k].from + 1)..(Len(src) + 1) /\ toks[k].from \in 1..Len(src)
        /\ toks[k].to <= pos
    BY <1>3, EmittedFacts, Zenon
  <2>. QED BY <2>1
<1>5. ASSUME NEW k \in 1..Len(more) PROVE Emitted(src, more[k]) /\ more[k].to <= q
  <2>1. CASE k = Len(more)
    <3>1. q <= q BY <1>2
    <3>. QED BY <2>1, <3>1, <1>1, Zenon
  <2>2. CASE k \in 1..n
    <3>1. toks[k].to <= q BY <2>2, <1>2, <1>3, <1>4
    <3>. QED BY <3>1, <2>2, <1>1, <1>3, Zenon
  <2>. QED BY <2>1, <2>2, <1>1, Zenon
<1>6. ASSUME NEW j \in 1..Len(more), NEW k \in 1..Len(more), j < k
      PROVE  more[j].to <= more[k].from
  <2>1. j \in 1..n BY <1>1, <1>6
  <2>2. CASE k = Len(more) BY <2>1, <2>2, <1>1, <1>3, Zenon
  <2>3. CASE k \in 1..n
    <3>1. toks[j].to <= toks[k].from BY <2>1, <2>3, <1>6, Zenon DEF Tiling, n
    <3>. QED BY <2>1, <2>3, <3>1, <1>1, Zenon
  <2>. QED BY <2>2, <2>3, <1>1, Zenon
<1>7. ASSUME NEW p \in 1..(q - 1) PROVE Accounted(src, more, p)
  <2>1. CASE p < pos
    <3>1. p \in 1..(pos - 1) /\ p \in Nat BY <2>1
    <3>2. CASE \E k \in 1..n : Covers(toks[k], p) BY <3>2, <1>1, Zenon DEF Accounted
    <3>3. CASE Trivial(src, toks, p)
      <4>1. ASSUME NEW h \in 1..p, NEW k \in 1..Len(more), Covers(more[k], h)
            PROVE  \E j \in 1..Len(toks) : Covers(toks[j], h)
        <5>1. k # Len(more)
          <6>1. ~(pos <= h) BY <2>1
          <6>. QED BY <6>1, <4>1, <1>1, Zenon DEF Covers
        <5>. QED BY <5>1, <4>1, <1>1, Zenon DEF n
      <4>2. Trivial(src, more, p) BY <3>1, <3>3, <4>1, TrivialKept, Zenon
      <4>. QED BY <4>2, Zenon DEF Accounted
    <3>4. CASE Overwritten(src, toks, p)
      <4>1. \A k \in 1..Len(toks) : toks[k].from <= tok.from BY <1>4, Zenon DEF n
      <4>2. Overwritten(src, more, p) BY <3>4, <4>1, <1>0, OverwrittenKept, Zenon
      <4>. QED BY <4>2, Zenon DEF Accounted
    <3>. QED BY <3>1, <3>2, <3>3, <3>4, Zenon DEF Tiling, Accounted, n
  <2>2. CASE pos <= p
    <3>1. p < q BY <1>2
    <3>2. Covers(tok, p) BY <2>2, <3>1, Zenon DEF Covers
    <3>. QED BY <3>2, <1>1, Zenon DEF Accounted
  <2>. QED BY <2>1, <2>2
<1>. QED BY <1>5, <1>6, <1>7, Zenon DEF Tiling

(* The order of old tokens, a stashed error c and the bare CR d at pos     *)
(* that takes its place.                                                   *)
Behind(toks, c, pos) ==
    /\ c.from < pos
    /\ \A j \in 1..Len(toks) : /\ toks[j].to <= c.from /\ toks[j].to <= pos
                               /\ toks[j].from < c.from /\ toks[j].from <= pos
    /\ \A p \in Nat : p < c.from => p < pos
    /\ \A j \in 1..Len(toks) : ~(c.from <= toks[j].from)

LEMMA TilingBehind ==
    ASSUME NEW src \in Seq(Byte), NEW toks, NEW c, NEW before, Extended(toks, c, before),
           NEW pos \in Nat \ {0}, Tiling(src, before, pos)
    PROVE  Behind(toks, c, pos)
<1>1. ASSUME NEW tok, Emitted(src, tok)
      PROVE  tok.from \in Nat /\ tok.to \in Nat /\ tok.from < tok.to
  <2>1. tok.to \in (tok.from + 1)..(Len(src) + 1) /\ tok.from \in 1..Len(src)
    BY <1>1, EmittedFacts, Zenon
  <2>. QED BY <2>1
<1>2. Emitted(src, c) /\ c.to <= pos BY Zenon DEF Tiling, Extended
<1>3. c.from \in Nat /\ c.to \in Nat /\ c.from < c.to BY <1>1, <1>2, Zenon
<1>4. c.from < pos BY <1>2, <1>3
<1>5. ASSUME NEW j \in 1..Len(toks)
      PROVE  /\ toks[j].to <= c.from /\ toks[j].to <= pos
             /\ toks[j].from < c.from /\ toks[j].from <= pos
             /\ ~(c.from <= toks[j].from)
  <2>1. j < Len(before) BY DEF Extended
  <2>2. Emitted(src, toks[j]) /\ toks[j].to <= c.from BY <2>1, Zenon DEF Tiling, Extended
  <2>3. toks[j].from \in Nat /\ toks[j].to \in Nat /\ toks[j].from < toks[j].to
    BY <1>1, <2>2, Zenon
  <2>. QED BY <1>3, <1>4, <2>2, <2>3
<1>6. \A p \in Nat : p < c.from => p < pos BY <1>3, <1>4
<1>. QED BY <1>4, <1>5, <1>6, Zenon DEF Behind

(* A bare CR at the cursor takes the place of the stashed error of an      *)
(* older one: the older CR, and those it had overwritten, are overwritten  *)
(* by the new one.                                                         *)
LEMMA TilingReplace ==
    ASSUME NEW S, NEW src \in Seq(Byte), NEW toks \in Seq(S), NEW pos \in Nat \ {0},
           NEW c \in S, BareCR(src, c.from), c.to = c.from + 1,
           NEW before, before = toks \o <<c>>, Tiling(src, before, pos),
           NEW d \in S, Emitted(src, d), d.from = pos, BareCR(src, pos),
           NEW q, q = d.to, q = pos + 1, NEW more, more = toks \o <<d>>
    PROVE  Tiling(src, more, q)
<1>1. Extended(toks, c, before) /\ Extended(toks, d, more) BY AppendFacts, Zenon
<1>2. Behind(toks, c, pos) BY <1>1, TilingBehind, Zenon
<1>3. q <= q /\ pos <= q /\ pos <= pos OBVIOUS
<1>4. ASSUME NEW k \in 1..Len(toks) PROVE Emitted(src, toks[k]) /\ toks[k].to <= q
  <2>1. Emitted(src, toks[k]) /\ toks[k].to <= pos BY <1>1, <1>2, Zenon DEF Tiling, Extended, Behind
  <2>2. toks[k].to \in (toks[k].from + 1)..(Len(src) + 1) /\ toks[k].from \in 1..Len(src)
    BY <2>1, EmittedFacts, Zenon
  <2>3. toks[k].to <= q BY <2>1, <2>2
  <2>. QED BY <2>1, <2>3
<1>5. \A k \in 1..Len(more) : Emitted(src, more[k]) /\ more[k].to <= q
  BY <1>1, <1>3, <1>4, Zenon DEF Extended
<1>6. ASSUME NEW j \in 1..Len(more), NEW k \in 1..Len(more), j < k
      PROVE  more[j].to <= more[k].from
  <2>1. j # Len(more) /\ j \in 1..Len(toks) BY <1>1, <1>6 DEF Extended
  <2>2. CASE k = Len(more) BY <2>1, <2>2, <1>1, <1>2, Zenon DEF Extended, Behind
  <2>3. CASE k # Len(more)
    <3>1. k \in 1..Len(toks) BY <2>3, <1>1, Zenon DEF Extended
    <3>2. before[j].to <= before[k].from BY <1>1, <1>6, <2>1, <3>1, Zenon DEF Tiling, Extended
    <3>. QED BY <2>1, <3>1, <3>2, <1>1, Zenon DEF Extended
  <2>. QED BY <2>2, <2>3
<1>7. ASSUME NEW p \in 1..(pos - 1), Accounted(src, before, p) PROVE Accounted(src, more, p)
  <2>0. p \in Nat /\ p < pos /\ p <= p BY <1>7
  <2>1. CASE Trivial(src, before, p)
    <3>1. ASSUME NEW h \in 1..p, NEW k \in 1..Len(more), Covers(more[k], h)
          PROVE  \E j \in 1..Len(before) : Covers(before[j], h)
      <4>1. ~(pos <= h) BY <2>0
      <4>2. k # Len(more) BY <4>1, <3>1, <1>1, Zenon DEF Covers, Extended
      <4>. QED BY <4>2, <3>1, <1>1, Zenon DEF Extended
    <3>2. Trivial(src, more, p) BY <2>0, <2>1, <3>1, TrivialKept, Zenon
    <3>. QED BY <3>2, Zenon DEF Accounted
  <2>2. ASSUME BareCR(src, p), \A j \in 1..Len(toks) : toks[j].to <= p
        PROVE  Accounted(src, more, p)
    <3>1. \A j \in 1..Len(more) : more[j].to <= p \/ pos <= more[j].from
      BY <2>2, <1>1, <1>3, Zenon DEF Extended
    <3>2. Overwritten(src, more, p) BY <2>0, <2>2, <3>1, <1>1, Zenon DEF Overwritten, Extended
    <3>. QED BY <3>2, Zenon DEF Accounted
  <2>3. ASSUME NEW k \in 1..Len(before), Covers(before[k], p) PROVE Accounted(src, more, p)
    <3>1. CASE k = Len(before)
      <4>1. Covers(c, p) BY <2>3, <3>1, <1>1, Zenon DEF Extended
      <4>2. c.from \in Nat
        <5>1. Emitted(src, c) BY <1>1, Zenon DEF Tiling, Extended
        <5>2. c.from \in 1..Len(src) BY <5>1, Zenon DEF Emitted
        <5>. QED BY <5>2
      <4>3. p = c.from BY <2>0, <4>1, <4>2 DEF Covers
      <4>. QED BY <4>3, <2>2, <1>2, Zenon DEF Behind
    <3>2. CASE k # Len(before) BY <2>3, <3>2, <1>1, Zenon DEF Extended, Accounted
    <3>. QED BY <3>1, <3>2
  <2>4. CASE Overwritten(src, before, p)
    <3>1. PICK k \in 1..Len(before) :
            /\ BareCR(src, before[k].from) /\ p < before[k].from
            /\ \A j \in 1..Len(before) : before[j].to <= p \/ before[k].from <= before[j].from
      BY <2>4, Zenon DEF Overwritten
    <3>2. BareCR(src, p) BY <2>4, Zenon DEF Overwritten
    <3>3. CASE k = Len(before)
      <4>1. \A j \in 1..Len(toks) : toks[j].to <= p
        BY <3>1, <3>3, <1>1, <1>2, Zenon DEF Extended, Behind
      <4>. QED BY <3>2, <4>1, <2>2, Zenon
    <3>4. CASE k # Len(before)
      <4>1. k \in 1..Len(toks) /\ before[k] = toks[k] BY <3>4, <1>1, Zenon DEF Extended
      <4>2. \A j \in 1..Len(toks) : toks[j].to <= p \/ toks[k].from <= toks[j].from
        BY <3>1, <4>1, <1>1, Zenon DEF Extended
      <4>3. Overwritten(src, toks, p) BY <3>1, <3>2, <4>1, <4>2, Zenon DEF Overwritten
      <4>4. \A j \in 1..Len(toks) : toks[j].from <= d.from BY <1>2, Zenon DEF Behind
      <4>5. Overwritten(src, more, p) BY <4>3, <4>4, <1>1, OverwrittenKept, Zenon
      <4>. QED BY <4>5, Zenon DEF Accounted
    <3>. QED BY <3>3, <3>4
  <2>. QED BY <1>7, <2>1, <2>3, <2>4, Zenon DEF Accounted
<1>8. ASSUME NEW p \in 1..(q - 1) PROVE Accounted(src, more, p)
  <2>1. CASE p \in 1..(pos - 1) BY <2>1, <1>7, Zenon DEF Tiling
  <2>2. CASE p \notin 1..(pos - 1)
    <3>1. pos <= p /\ p < q BY <2>2
    <3>2. Covers(d, p) BY <3>1, Zenon DEF Covers
    <3>. QED BY <3>2, <1>1, Zenon DEF Accounted, Extended
  <2>. QED BY <2>1, <2>2
<1>. QED BY <1>5, <1>6, <1>8, Zenon DEF Tiling

(* At the end of the text, with the last token, the tokens tile the text.  *)
LEMMA TilingEnd ==
    ASSUME NEW S, NEW src \in Seq(Byte), NEW toks \in Seq(S), NEW pos, pos = Len(src) + 1,
           Tiling(src, toks, pos), NEW tok \in S,
           tok.kind = "TEOF", tok.from = pos, tok.to = pos, NEW more, more = toks \o <<tok>>
    PROVE  Tiles(src, more)
<1>1. Extended(toks, tok, more) BY AppendFacts, Zenon
<1>2. \A k \in 1..Len(toks) : Emitted(src, toks[k]) /\ toks[k].to <= pos BY Zenon DEF Tiling
<1>3. Len(src) \in Nat /\ pos - 1 = Len(src) OBVIOUS
<1>4. ASSUME NEW k \in 1..Len(toks)
      PROVE  toks[k].kind # "TEOF" /\ toks[k].from < toks[k].to /\ ReadsAlone(src, toks[k])
  <2>1. /\ toks[k].to \in (toks[k].from + 1)..(Len(src) + 1) /\ toks[k].from \in 1..Len(src)
        /\ toks[k].kind # "TEOF" /\ ReadsAlone(src, toks[k])
    BY <1>2, EmittedFacts, Zenon
  <2>2. toks[k].from < toks[k].to BY <2>1
  <2>. QED BY <2>1, <2>2, Zenon
<1>5. ASSUME NEW k \in 1..Len(more)
      PROVE  (more[k].kind = "TEOF") <=> (k = Len(more))
  BY <1>1, <1>4, Zenon DEF Extended
<1>6. ASSUME NEW p \in 1..Len(src)
      PROVE  \/ Trivial(src, more, p) \/ Overwritten(src, more, p)
             \/ \E k \in 1..Len(more) : more[k].from <= p /\ p < more[k].to
  <2>1. p \in 1..(pos - 1) /\ p \in Nat BY <1>3
  <2>2. CASE \E k \in 1..Len(toks) : Covers(toks[k], p) BY <2>2, <1>1, Zenon DEF Extended, Covers
  <2>3. CASE Trivial(src, toks, p)
    <3>1. ASSUME NEW h \in 1..p, NEW k \in 1..Len(more), Covers(more[k], h)
          PROVE  \E j \in 1..Len(toks) : Covers(toks[j], h)
      <4>1. ~(pos <= h) BY <2>1, <1>3
      <4>2. k # Len(more) BY <4>1, <3>1, <1>1, Zenon DEF Covers, Extended
      <4>. QED BY <4>2, <3>1, <1>1, Zenon DEF Extended
    <3>2. Trivial(src, more, p) BY <2>1, <2>3, <3>1, TrivialKept, Zenon
    <3>. QED BY <3>2
  <2>4. CASE Overwritten(src, toks, p)
    <3>1. ASSUME NEW k \in 1..Len(toks) PROVE toks[k].from <= tok.from
      <4>1. /\ toks[k].to \in (toks[k].from + 1)..(Len(src) + 1) /\ toks[k].from \in 1..Len(src)
            /\ toks[k].to <= pos
        BY <1>2, EmittedFacts, Zenon
      <4>. QED BY <4>1, <1>3
    <3>2. Overwritten(src, more, p) BY <2>4, <3>1, <1>1, OverwrittenKept, Zenon
    <3>. QED BY <3>2
  <2>. QED BY <2>1, <2>2, <2>3, <2>4, Zenon DEF Tiling, Accounted
<1>7. ASSUME NEW k \in 1..(Len(more) - 1)
      PROVE  /\ more[k].from < more[k].to /\ more[k].to <= more[k + 1].from
             /\ ReadsAlone(src, more[k])
  <2>1. k \in 1..Len(toks) BY <1>1 DEF Extended
  <2>2. more[k].from < more[k].to /\ ReadsAlone(src, more[k])
    BY <2>1, <1>1, <1>4, Zenon DEF Extended
  <2>3. CASE k = Len(toks)
    <3>1. k + 1 = Len(more) BY <2>3, <1>1, Zenon DEF Extended
    <3>2. more[k].to <= more[k + 1].from BY <2>1, <3>1, <1>1, <1>2, Zenon DEF Extended
    <3>. QED BY <2>2, <3>2
  <2>4. CASE k # Len(toks)
    <3>1. k < k + 1 /\ k + 1 \in 1..Len(toks) BY <2>1, <2>4, <1>1 DEF Extended
    <3>2. toks[k].to <= toks[k + 1].from BY <2>1, <3>1, Zenon DEF Tiling
    <3>3. more[k].to <= more[k + 1].from BY <2>1, <3>1, <3>2, <1>1, Zenon DEF Extended
    <3>. QED BY <2>2, <3>3
  <2>. QED BY <2>3, <2>4
<1>. QED BY <1>5, <1>6, <1>7, Zenon DEF Tiles

-----------------------------------------------------------------------------
(* The line and column of tokens and cursor.                               *)

Newlines(src, a, b) == {i \in a..(b - 1) : At(src, i) = "\n"}

LineOf(src, p) == 1 + Cardinality(Newlines(src, 1, p))

ColumnOf(src, p) ==
    IF Newlines(src, 1, p) = {} THEN p ELSE p - Max(Newlines(src, 1, p))

(* The true position is the true line and column.                          *)
LEMMA TruePositionIs ==
    ASSUME NEW src, NEW p
    PROVE  TruePosition(src, p) = <<LineOf(src, p), ColumnOf(src, p)>>
BY Zenon DEF TruePosition, LineOf, ColumnOf, Newlines

(* A malformed exponent among the first n tokens stands on this line.      *)
Excused(src, toks, n, line) == \E j \in 1..n : Drifts(src, toks[j]) /\ toks[j].line = line

(* A place: its line is true, its column is or is excused.                 *)
Placed(src, toks, n, line, col, pos) ==
    /\ line = LineOf(src, pos)
    /\ col = ColumnOf(src, pos) \/ Excused(src, toks, n, line)

Positioned(src, toks) ==
    \A k \in 1..Len(toks) :
      Placed(src, toks, k - 1, toks[k].line, toks[k].column, toks[k].from)

(* What a later token is does not matter to the place of an earlier one.   *)
LEMMA PlacedKept ==
    ASSUME NEW S, NEW src, NEW toks \in Seq(S), NEW tok \in S, NEW more, more = toks \o <<tok>>,
           NEW n \in 0..Len(toks), NEW line, NEW col, NEW pos
    PROVE  Placed(src, toks, n, line, col, pos) <=> Placed(src, more, n, line, col, pos)
<1>1. Extended(toks, tok, more) BY AppendFacts, Zenon
<1>2. \A j \in 1..n : more[j] = toks[j]
  <2>1. \A j \in 1..n : j \in 1..Len(toks) OBVIOUS
  <2>. QED BY <2>1, <1>1, Zenon DEF Extended
<1>3. Excused(src, toks, n, line) <=> Excused(src, more, n, line) BY <1>2, Zenon DEF Excused
<1>. QED BY <1>3, Zenon DEF Placed

(* A place stays one when more tokens come before it.                      *)
LEMMA PlacedMore ==
    ASSUME NEW S, NEW src, NEW toks \in Seq(S), NEW tok \in S, NEW more, more = toks \o <<tok>>,
           NEW line, NEW col, NEW pos, Placed(src, toks, Len(toks), line, col, pos)
    PROVE  Placed(src, more, Len(more), line, col, pos)
<1>1. Extended(toks, tok, more) BY AppendFacts, Zenon
<1>2. Excused(src, toks, Len(toks), line) => Excused(src, more, Len(more), line)
  BY <1>1, Zenon DEF Excused, Extended
<1>. QED BY <1>2, Zenon DEF Placed

(* The tokens are placed if those before the last one are, and it is.      *)
LEMMA PositionedAppend ==
    ASSUME NEW S, NEW src, NEW toks \in Seq(S), NEW tok \in S, NEW more, more = toks \o <<tok>>
    PROVE  Positioned(src, more) <=>
             Positioned(src, toks) /\ Placed(src, toks, Len(toks), tok.line, tok.column, tok.from)
<1>1. Extended(toks, tok, more) BY AppendFacts, Zenon
<1>2. ASSUME NEW k \in 1..Len(toks)
      PROVE  Placed(src, toks, k - 1, toks[k].line, toks[k].column, toks[k].from) <=>
             Placed(src, more, k - 1, more[k].line, more[k].column, more[k].from)
  <2>1. PICK n \in 0..Len(toks) : n = k - 1 OBVIOUS
  <2>2. more[k] = toks[k] BY <1>1, Zenon DEF Extended
  <2>3. \A line, col, pos : Placed(src, toks, n, line, col, pos) <=> Placed(src, more, n, line, col, pos)
    BY PlacedKept, Zenon
  <2>. QED BY <2>1, <2>2, <2>3, Zenon
<1>3. Placed(src, toks, Len(toks), tok.line, tok.column, tok.from) <=>
        Placed(src, more, Len(more) - 1, more[Len(more)].line, more[Len(more)].column,
               more[Len(more)].from)
  <2>1. PICK n \in 0..Len(toks) : n = Len(toks) BY <1>1 DEF Extended
  <2>2. n = Len(more) - 1 BY <2>1, <1>1 DEF Extended
  <2>3. more[Len(more)] = tok BY <1>1, Zenon DEF Extended
  <2>4. \A line, col, pos : Placed(src, toks, n, line, col, pos) <=> Placed(src, more, n, line, col, pos)
    BY PlacedKept, Zenon
  <2>. QED BY <2>1, <2>2, <2>3, <2>4, Zenon
<1>. QED BY <1>1, <1>2, <1>3, Zenon DEF Positioned, Extended

(* The newlines before q are those before p and those from p on.           *)
LEMMA NewlinesParts ==
    ASSUME NEW src, NEW p \in Nat \ {0}, NEW q \in Nat, p <= q
    PROVE  /\ Newlines(src, 1, q) = Newlines(src, 1, p) \cup Newlines(src, p, q)
           /\ Newlines(src, 1, p) \cap Newlines(src, p, q) = {}
           /\ Newlines(src, 1, p) \subseteq 0..p /\ Newlines(src, p, q) \subseteq 0..q
           /\ Newlines(src, 1, q) \subseteq 0..q
BY DEF Newlines

(* A bounded set has a greatest element, which is its Max.                 *)
LEMMA GreatestNat ==
    ASSUME NEW n \in Nat, NEW S, S \subseteq 0..n, S # {}
    PROVE  Max(S) \in S /\ \A y \in S : y <= Max(S)
<1>. DEFINE T == {t \in 0..n : n - t \in S}
<1>1. T \in SUBSET Nat /\ T # {}
  <2>1. PICK x \in S : TRUE OBVIOUS
  <2>2. n - x \in T BY <2>1
  <2>3. T # {} BY <2>2, Zenon
  <2>. QED BY <2>3
<1>2. PICK m \in T : \A y \in T : m <= y BY <1>1, LeastNat, Zenon
<1>3. n - m \in S BY <1>2
<1>4. \A y \in S : y <= n - m
  <2>. TAKE y \in S
  <2>1. n - y \in T OBVIOUS
  <2>2. m <= n - y BY <2>1, <1>2
  <2>3. y \in Nat /\ m \in Nat OBVIOUS
  <2>. QED BY <2>2, <2>3
<1>5. \A y \in S : n - m >= y BY <1>4, <1>3
<1>6. Max(S) \in S /\ \A y \in S : Max(S) >= y BY <1>5, <1>3, Zenon DEF Max
<1>. QED BY <1>6

(* The column of q from that of an earlier byte, or from the last newline  *)
(* between them.                                                           *)
LEMMA ColumnLater ==
    ASSUME NEW src, NEW p \in Nat \ {0}, NEW q \in Nat, p <= q
    PROVE  /\ ColumnOf(src, p) \in Nat
           /\ Newlines(src, p, q) = {} => ColumnOf(src, q) = ColumnOf(src, p) + (q - p)
           /\ Newlines(src, p, q) # {} => /\ ColumnOf(src, q) = q - Max(Newlines(src, p, q))
                                          /\ q - Max(Newlines(src, p, q)) \in Nat
<1>. DEFINE A == Newlines(src, 1, p)
            B == Newlines(src, p, q)
            C == Newlines(src, 1, q)
<1>1. C = A \cup B BY NewlinesParts, Zenon
<1>2. A \subseteq 0..p /\ B \subseteq 0..q /\ C \subseteq 0..q BY NewlinesParts, Zenon
<1>3. (\A x \in A : x < p) /\ (\A x \in B : p <= x /\ x < q) BY DEF Newlines
<1>4. /\ ColumnOf(src, p) = IF A = {} THEN p ELSE p - Max(A)
      /\ ColumnOf(src, q) = IF C = {} THEN q ELSE q - Max(C)
  BY Zenon DEF ColumnOf
<1>. HIDE DEF A, B, C
<1>5. A # {} => Max(A) \in A /\ \A x \in A : x <= Max(A)
  <2>1. p \in Nat OBVIOUS
  <2>. QED BY <2>1, <1>2, GreatestNat, Zenon
<1>6. B # {} => Max(B) \in B /\ \A x \in B : x <= Max(B) BY <1>2, GreatestNat, Zenon
<1>7. C # {} => Max(C) \in C /\ \A x \in C : x <= Max(C) BY <1>2, GreatestNat, Zenon
<1>8. A # {} => Max(A) \in 0..p /\ Max(A) < p BY <1>2, <1>3, <1>5
<1>9. ColumnOf(src, p) \in Nat BY <1>4, <1>8
<1>10. CASE B = {}
  <2>1. C = A BY <1>1, <1>10
  <2>2. ColumnOf(src, q) = IF A = {} THEN q ELSE q - Max(A) BY <1>4, <2>1, Zenon
  <2>3. ColumnOf(src, q) = ColumnOf(src, p) + (q - p) BY <2>2, <1>4, <1>8
  <2>. QED BY <2>3, <1>9, <1>10, Zenon DEF B
<1>11. CASE B # {}
  <2>1. Max(B) \in 0..q /\ p <= Max(B) /\ Max(B) < q /\ Max(B) \in C BY <1>1, <1>2, <1>3, <1>6, <1>11
  <2>2. C # {} /\ Max(C) \in C /\ Max(C) \in 0..q /\ Max(B) <= Max(C) BY <2>1, <1>7, <1>2
  <2>3. Max(C) \in B
    <3>1. Max(C) \notin A BY <2>1, <2>2, <1>3
    <3>. QED BY <3>1, <2>2, <1>1
  <2>4. Max(C) <= Max(B) BY <2>3, <1>6
  <2>5. Max(C) = Max(B) BY <2>1, <2>2, <2>4
  <2>6. ColumnOf(src, q) = q - Max(B) BY <2>2, <2>5, <1>4, Zenon
  <2>7. q - Max(B) \in Nat BY <2>1
  <2>. QED BY <2>6, <2>7, <1>9, <1>11, Zenon DEF B
<1>. QED BY <1>10, <1>11

(* Counting newlines up to q is counting them up to p, and from there.     *)
Counts(src) ==
    \A p \in Nat \ {0}, q \in Nat :
      p <= q =>
        /\ Cardinality(Newlines(src, 1, q)) =
             Cardinality(Newlines(src, 1, p)) + Cardinality(Newlines(src, p, q))
        /\ Cardinality(Newlines(src, 1, p)) \in Nat /\ Cardinality(Newlines(src, p, q)) \in Nat
        /\ Newlines(src, p, q) = {} => Cardinality(Newlines(src, p, q)) = 0

-----------------------------------------------------------------------------
(* The loops of skipTrivia and Lex.                                        *)

Kinds(src) == {scanToken(src, p).kind : p \in 1..Len(src)} \cup {"TError", "TEOF"}

Values(src) == {scanToken(src, p).value : p \in 1..Len(src)} \cup {NoValue}

Tok(src) == [kind : Kinds(src), value : Values(src), from : Nat, to : Nat,
             line : Nat, column : Nat]

Cursor(src) == [pos : 1..(Len(src) + 1), line : Nat, col : Nat]

(* The cursor l moved to q is r: placed as truly as l was.                 *)
Moved(src, l, q, r) ==
    /\ r \in Cursor(src) /\ r.pos = q
    /\ Newlines(src, l.pos, q) = {} => r.line = l.line
    /\ \A toks, n : Placed(src, toks, n, l.line, l.col, l.pos) =>
                      Placed(src, toks, n, r.line, r.col, q)

(* advance keeps a cursor that knows its line and column right.            *)
LEMMA AdvanceFacts ==
    ASSUME NEW src \in Seq(Byte), Counts(src), NEW l \in Cursor(src), NEW q \in Nat, l.pos <= q,
           q <= Len(src) + 1
    PROVE  Moved(src, l, q, advance(src, l, q))
<1>0. PICK r : r = advance(src, l, q) OBVIOUS
<1>1. PICK p \in Nat \ {0} : p = l.pos BY DEF Cursor
<1>2. PICK line \in Nat : line = l.line BY DEF Cursor
<1>3. PICK col \in Nat : col = l.col BY DEF Cursor
<1>4. p <= q BY <1>1
<1>. DEFINE B == Newlines(src, p, q)
<1>5. r = [pos |-> q, line |-> line + Cardinality(B),
           col |-> IF B = {} THEN col + (q - p) ELSE q - Max(B)]
  BY <1>0, <1>1, <1>2, <1>3, Zenon DEF advance, Newlines
<1>6. /\ Cardinality(Newlines(src, 1, q)) = Cardinality(Newlines(src, 1, p)) + Cardinality(B)
      /\ Cardinality(Newlines(src, 1, p)) \in Nat /\ Cardinality(B) \in Nat
  BY <1>4, Zenon DEF Counts
<1>7. /\ ColumnOf(src, p) \in Nat
      /\ B = {} => ColumnOf(src, q) = ColumnOf(src, p) + (q - p)
      /\ B # {} => ColumnOf(src, q) = q - Max(B) /\ q - Max(B) \in Nat
  BY <1>4, ColumnLater, Zenon
<1>8. LineOf(src, q) = LineOf(src, p) + Cardinality(B) /\ LineOf(src, p) \in Nat
  BY <1>6 DEF LineOf
<1>9. B = {} => Cardinality(B) = 0 BY <1>4, Zenon DEF Counts
<1>. HIDE DEF B
<1>10. r \in Cursor(src) /\ r.pos = q
  <2>1. (IF B = {} THEN col + (q - p) ELSE q - Max(B)) \in Nat BY <1>4, <1>7
  <2>2. q \in 1..(Len(src) + 1) BY <1>4
  <2>3. line + Cardinality(B) \in Nat BY <1>6
  <2>. QED BY <1>5, <2>1, <2>2, <2>3 DEF Cursor
<1>11. B = {} => r.line = line /\ r.col = col + (q - p) BY <1>5, <1>9
<1>12. ASSUME NEW toks, NEW n, Placed(src, toks, n, line, col, p)
       PROVE  Placed(src, toks, n, r.line, r.col, q)
  <2>1. line = LineOf(src, p) /\ (col = ColumnOf(src, p) \/ Excused(src, toks, n, line))
    BY <1>12, Zenon DEF Placed
  <2>2. r.line = LineOf(src, q) BY <2>1, <1>5, <1>8
  <2>3. CASE B = {}
    <3>1. r.line = line BY <2>3, <1>11
    <3>2. col = ColumnOf(src, p) => r.col = ColumnOf(src, q) BY <2>3, <1>7, <1>11
    <3>. QED BY <2>1, <2>2, <3>1, <3>2, Zenon DEF Placed
  <2>4. CASE B # {}
    <3>1. r.col = ColumnOf(src, q) BY <2>4, <1>5, <1>7
    <3>. QED BY <2>2, <3>1, Zenon DEF Placed
  <2>. QED BY <2>3, <2>4
<1>. QED BY <1>0, <1>1, <1>2, <1>3, <1>10, <1>11, <1>12, Zenon DEF B, Moved

(* The bytes skipTrivia skips start no token.                              *)
LEMMA TriviaBytes ==
    /\ "\r" \in Blank /\ "\n" \in Blank /\ "eof" \notin Trivia /\ "\n" \in Trivia /\ "#" \in Trivia
    /\ \A c \in Trivia : c = "#" \/ c \in Blank
    /\ "\r" \notin {Quote} \cup Digit \cup Lower \cup DOMAIN Punctuation
<1>1. Quote # "\r" BY Zenon DEF Quote
<1>2. "\r" \notin Digit \cup Lower \cup DOMAIN Punctuation BY PunctuationKinds DEF Digit, Lower
<1>3. "\r" \in Blank /\ "\n" \in Blank BY Zenon DEF Blank
<1>4. "eof" \notin Trivia BY Zenon DEF Trivia, Blank
<1>. QED BY <1>1, <1>2, <1>3, <1>4, Zenon DEF Trivia

(* A round of skipTrivia moves over white space, or over a comment.        *)
LEMMA TriviaFacts ==
    ASSUME NEW src \in Seq(Byte), NEW p \in 1..(Len(src) + 1), At(src, p) \in Trivia,
           NEW q, q = TriviaEnd(src, p)
    PROVE  /\ q \in (p + 1)..(Len(src) + 1) /\ (BareCR(src, p) => q = p + 1)
           /\ ~BareCR(src, p) =>
                \A i \in p..(q - 1) : \/ At(src, i) \in Blank /\ ~BareCR(src, i)
                                      \/ At(src, p) = "#" /\ \A j \in p..i : At(src, j) # "\n"
<1>0. BareCR(src, p) \in BOOLEAN BY Zenon DEF BareCR
<1>1. p \in 1..Len(src)
  <2>1. p \in Nat \ {0} /\ At(src, p) # "eof" BY TriviaBytes
  <2>. QED BY <2>1, InText, Zenon
<1>2. CASE At(src, p) = "\r" /\ ~BareCR(src, p)
  <2>1. q = p + 2 BY <1>2, <1>0 DEF TriviaEnd
  <2>2. At(src, p + 1) = "\n" BY <1>2, Zenon DEF BareCR
  <2>3. p + 1 \in 1..Len(src)
    <3>1. p + 1 \in Nat \ {0} /\ At(src, p + 1) # "eof" BY <2>2
    <3>. QED BY <3>1, InText, Zenon
  <2>4. \A i \in p..(q - 1) : i = p \/ i = p + 1 BY <2>1
  <2>5. \A i \in p..(q - 1) : At(src, i) \in Blank /\ ~BareCR(src, i)
    <3>1. ~BareCR(src, p + 1)
      <4>1. At(src, p + 1) # "\r" BY <2>2
      <4>. QED BY <4>1, Zenon DEF BareCR
    <3>. QED BY <2>2, <2>4, <3>1, <1>2, TriviaBytes, Zenon
  <2>6. q \in (p + 1)..(Len(src) + 1) BY <2>1, <2>3
  <2>. QED BY <2>5, <2>6, <1>2, Zenon
<1>3. CASE At(src, p) = "#"
  <2>. DEFINE Q == {"\n"}
  <2>1. q = Until(src, p, Q) BY <1>0, <1>3 DEF TriviaEnd
  <2>2. At(src, p) \notin Q \cup {"eof"} BY <1>3
  <2>3. Q = {"\n"} OBVIOUS
  <2>. HIDE DEF Q
  <2>4. q \in p..(Len(src) + 1) /\ (\A i \in p..(q - 1) : At(src, i) \notin Q) /\ At(src, q) \in Q \cup {"eof"}
    BY <2>1, UntilFacts, Zenon
  <2>5. q # p BY <2>2, <2>4
  <2>6. q \in (p + 1)..(Len(src) + 1) BY <2>4, <2>5
  <2>7. \A i \in p..(q - 1) : \A j \in p..i : At(src, j) # "\n"
    <3>1. \A i \in p..(q - 1) : \A j \in p..i : j \in p..(q - 1) BY <2>6
    <3>. QED BY <3>1, <2>3, <2>4, Zenon
  <2>8. ~BareCR(src, p) BY <1>3 DEF BareCR
  <2>. QED BY <2>6, <2>7, <2>8, <1>3, Zenon
<1>4. CASE At(src, p) # "#" /\ ~(At(src, p) = "\r" /\ ~BareCR(src, p))
  <2>1. q = p + 1 BY <1>0, <1>4 DEF TriviaEnd
  <2>2. \A i \in p..(q - 1) : i = p BY <2>1
  <2>3. At(src, p) \in Blank BY <1>4, TriviaBytes, Zenon
  <2>4. q \in (p + 1)..(Len(src) + 1) BY <2>1, <1>1
  <2>. QED BY <2>1, <2>2, <2>3, <2>4, Zenon
<1>. QED BY <1>2, <1>3, <1>4, Zenon

(* The cursor with the column k ahead, which is all that differs.          *)
Ahead(r, k) == [r EXCEPT !.col = r.col + k]

OnlyAhead(src, r, k, m) ==
    m \in Cursor(src) /\ m.pos = r.pos /\ m.line = r.line /\ m.col = r.col + k

(* A malformed exponent leaves the offset and the line as they should be.  *)
LEMMA ColumnAhead ==
    ASSUME NEW src \in Seq(Byte), NEW r \in Cursor(src), NEW k \in Nat,
           NEW m, m = Ahead(r, k)
    PROVE  OnlyAhead(src, r, k, m)
  BY DEF Cursor, Ahead, OnlyAhead

(* The cursor l moved past the token that scan s found at it is m.         *)
MovedPast(src, l, s, m) ==
    /\ m \in Cursor(src) /\ m.pos = s.end /\ m.line = l.line
    /\ l.pos \in 1..Len(src) /\ At(src, l.pos) # "\n" /\ l.pos < s.end
    /\ s.drift # 0 => s.kind = "TInt" /\ At(src, s.end) \in {"e", "E"}
    /\ s.drift = 0 => \A toks, n : Placed(src, toks, n, l.line, l.col, l.pos) =>
                                     Placed(src, toks, n, m.line, m.col, m.pos)
    /\ m.line = LineOf(src, m.pos) <=> l.line = LineOf(src, l.pos)

(* After scanToken the cursor is behind the token and on its line.         *)
LEMMA EmitFacts ==
    ASSUME NEW src \in Seq(Byte), Counts(src), Scans(src), NEW l \in Cursor(src), At(src, l.pos) \notin Trivia \cup {"eof"},
           NEW s, s = scanToken(src, l.pos), NEW m,
           m = [advance(src, l, s.end) EXCEPT !.col = @ + s.drift]
    PROVE  MovedPast(src, l, s, m)
<1>1. PICK p \in 1..Len(src) : p = l.pos /\ At(src, p) # "\n"
  <2>1. l.pos \in Nat \ {0} BY DEF Cursor
  <2>2. At(src, l.pos) # "eof" /\ At(src, l.pos) # "\n" BY TriviaBytes, Zenon
  <2>3. l.pos \in 1..Len(src) BY <2>1, <2>2, InText, Zenon
  <2>. QED BY <2>2, <2>3, Zenon
<1>2. Fits(src, p, s) BY <1>1, Zenon DEF Scans
<1>3. PICK e \in (p + 1)..(Len(src) + 1) : e = s.end BY <1>2, Zenon DEF Fits
<1>4. PICK k \in Nat : k = s.drift BY <1>2, Zenon DEF Fits
<1>5. k # 0 => s.kind = "TInt" /\ At(src, e) \in {"e", "E"} BY <1>2, <1>3, <1>4, Zenon DEF Fits
<1>6. PICK r : r = advance(src, l, e) OBVIOUS
<1>7. Newlines(src, p, e) = {}
  <2>1. OnOneLine(src, p, e) BY <1>2, <1>3, Zenon DEF Fits
  <2>. QED BY <2>1, Zenon DEF OnOneLine, Newlines
<1>8. /\ r \in Cursor(src) /\ r.pos = e
      /\ Newlines(src, l.pos, e) = {} => r.line = l.line
      /\ \A toks, n : Placed(src, toks, n, l.line, l.col, l.pos) =>
                        Placed(src, toks, n, r.line, r.col, e)
  <2>1. e \in Nat /\ l.pos <= e /\ e <= Len(src) + 1 BY <1>1
  <2>2. Moved(src, l, e, r) BY <2>1, <1>6, AdvanceFacts, Zenon
  <2>. QED BY <2>2, Zenon DEF Moved
<1>9. r.line = l.line BY <1>1, <1>7, <1>8, Zenon
<1>10. m = Ahead(r, k) BY <1>3, <1>4, <1>6, <1>8 DEF Cursor, Ahead
<1>11. m \in Cursor(src) /\ m.pos = e /\ m.line = l.line /\ m.col = r.col + k
  <2>1. r \in Cursor(src) /\ r.pos = e /\ r.line = l.line BY <1>8, <1>9, Zenon
  <2>2. OnlyAhead(src, r, k, m) BY <2>1, <1>10, ColumnAhead, Zenon
  <2>. QED BY <2>1, <2>2, Zenon DEF OnlyAhead
<1>12. k = 0 => m.col = r.col
  <2>1. r.col \in Nat BY <1>8 DEF Cursor
  <2>. QED BY <2>1, <1>11
<1>13. LineOf(src, e) = LineOf(src, p)
  <2>1. /\ Cardinality(Newlines(src, 1, e)) =
             Cardinality(Newlines(src, 1, p)) + Cardinality(Newlines(src, p, e))
        /\ Cardinality(Newlines(src, 1, p)) \in Nat
    <3>1. p \in Nat \ {0} /\ e \in Nat /\ p <= e OBVIOUS
    <3>. QED BY <3>1, Zenon DEF Counts
  <2>2. Cardinality(Newlines(src, p, e)) = 0
    <3>1. p \in Nat \ {0} /\ e \in Nat /\ p <= e OBVIOUS
    <3>. QED BY <1>7, <3>1, Zenon DEF Counts
  <2>3. Cardinality(Newlines(src, 1, e)) = Cardinality(Newlines(src, 1, p)) BY <2>1, <2>2
  <2>. QED BY <2>3, Zenon DEF LineOf
<1>14. l.pos < s.end BY <1>1, <1>3
<1>15. s.drift = 0 => \A toks, n : Placed(src, toks, n, l.line, l.col, l.pos) =>
                                     Placed(src, toks, n, m.line, m.col, m.pos)
  BY <1>4, <1>8, <1>9, <1>11, <1>12, Zenon
<1>. QED BY <1>1, <1>3, <1>4, <1>5, <1>11, <1>13, <1>14, <1>15, Zenon DEF MovedPast

-----------------------------------------------------------------------------
(* The inductive invariant.                                                *)

(* The error kept in pendingErr is that of a bare CR.                      *)
CRError(src, c) == BareCR(src, c.from) /\ c.to = c.from + 1

(* In the middle of a text: the tokens, and the error that waits to follow *)
(* them, account for every byte before the cursor, and they and the cursor *)
(* are where they say.                                                     *)
Reading(src, toks, err, l) ==
    /\ l \in Cursor(src) /\ toks \in Seq(Tok(src))
    /\ Placed(src, toks, Len(toks), l.line, l.col, l.pos)
    /\ \/ err = <<>> /\ Tiling(src, toks, l.pos) /\ Positioned(src, toks)
       \/ \E c \in Tok(src) : /\ err = <<c>> /\ CRError(src, c)
                              /\ Tiling(src, toks \o <<c>>, l.pos)
                              /\ Positioned(src, toks \o <<c>>)

LexInv(src, x) ==
    IF Lexed(x) THEN Tiles(src, x.tokens) /\ Positioned(src, x.tokens)
                ELSE Reading(src, x.tokens, x.pendingErr, x.l)

(* Without the error that waits the tokens are where they say.             *)
LEMMA ReadingPlain ==
    ASSUME NEW src \in Seq(Byte), NEW toks, NEW err, NEW l, Reading(src, toks, err, l)
    PROVE  Positioned(src, toks)
<1>1. toks \in Seq(Tok(src)) /\ l \in Cursor(src) BY Zenon DEF Reading
<1>2. CASE err = <<>> /\ Tiling(src, toks, l.pos) /\ Positioned(src, toks) BY <1>2
<1>3. ASSUME NEW c \in Tok(src), Positioned(src, toks \o <<c>>)
      PROVE  Positioned(src, toks)
  <2>1. PICK more : more = toks \o <<c>> OBVIOUS
  <2>2. Positioned(src, more) BY <2>1, <1>3, Zenon
  <2>. QED BY <1>1, <2>1, <2>2, PositionedAppend, Zenon
<1>. QED BY <1>2, <1>3, Zenon DEF Reading

(* With it.                                                                *)
Whole(src, toks, err, l, all) ==
    /\ all \in Seq(Tok(src)) /\ all = toks \o err
    /\ Tiling(src, all, l.pos) /\ Positioned(src, all)
    /\ Placed(src, all, Len(all), l.line, l.col, l.pos)

(* The tokens with the stashed error after them are a tiling of their own. *)
LEMMA ReadingWhole ==
    ASSUME NEW src \in Seq(Byte), NEW toks, NEW err, NEW l, Reading(src, toks, err, l)
    PROVE  \E all : Whole(src, toks, err, l, all)
<1>1. toks \in Seq(Tok(src)) /\ l \in Cursor(src) BY Zenon DEF Reading
<1>2. Placed(src, toks, Len(toks), l.line, l.col, l.pos) BY Zenon DEF Reading
<1>3. CASE err = <<>> /\ Tiling(src, toks, l.pos) /\ Positioned(src, toks)
  <2>1. toks = toks \o err BY <1>1, <1>3
  <2>2. Whole(src, toks, err, l, toks) BY <1>1, <1>2, <1>3, <2>1, Zenon DEF Whole
  <2>. QED BY <2>2, Zenon
<1>4. ASSUME NEW c \in Tok(src), err = <<c>>, Tiling(src, toks \o <<c>>, l.pos),
             Positioned(src, toks \o <<c>>)
      PROVE  \E all : Whole(src, toks, err, l, all)
  <2>1. PICK more : more = toks \o <<c>> OBVIOUS
  <2>2. more \in Seq(Tok(src)) BY <1>1, <2>1, AppendFacts, Zenon
  <2>3. Placed(src, more, Len(more), l.line, l.col, l.pos) BY <1>1, <1>2, <2>1, PlacedMore, Zenon
  <2>4. Tiling(src, more, l.pos) /\ Positioned(src, more) BY <2>1, <1>4, Zenon
  <2>5. Whole(src, toks, err, l, more) BY <1>4, <2>1, <2>2, <2>3, <2>4, Zenon DEF Whole
  <2>. QED BY <2>5, Zenon
<1>. QED BY <1>3, <1>4, Zenon DEF Reading

(* The error of a bare CR is the token that stands there.                  *)
LEMMA CRToken ==
    ASSUME NEW src \in Seq(Byte), Scans(src), NEW l \in Cursor(src), BareCR(src, l.pos), NEW c,
           c = Token("TError", NoValue, l, l.pos + 1)
    PROVE  /\ c \in Tok(src) /\ Emitted(src, c) /\ CRError(src, c)
           /\ c.from = l.pos /\ c.to = l.pos + 1 /\ c.line = l.line /\ c.column = l.col
<1>1. PICK p \in Nat \ {0} : p = l.pos BY DEF Cursor
<1>2. p \in 1..Len(src) /\ At(src, p) = "\r"
  <2>1. At(src, p) = "\r" BY <1>1, Zenon DEF BareCR
  <2>2. At(src, p) # "eof" BY <2>1
  <2>. QED BY <2>1, <2>2, InText, Zenon
<1>3. PICK line \in Nat : line = l.line BY DEF Cursor
<1>4. PICK col \in Nat : col = l.col BY DEF Cursor
<1>5. c = [kind |-> "TError", value |-> NoValue, from |-> p, to |-> p + 1,
           line |-> line, column |-> col]
  BY <1>1, <1>3, <1>4, Zenon DEF Token
<1>6. "TError" \in Kinds(src) /\ NoValue \in Values(src) BY Zenon DEF Kinds, Values
<1>7. c \in Tok(src)
  <2>1. p \in Nat /\ p + 1 \in Nat OBVIOUS
  <2>. QED BY <1>5, <1>6, <2>1 DEF Tok
<1>8. /\ c.kind = "TError" /\ c.value = NoValue /\ c.from = p /\ c.to = p + 1
      /\ c.line = line /\ c.column = col
  BY <1>5
<1>9. scanToken(src, p) = Scan("TError", NoValue, p + 1)
  BY <1>2, TriviaBytes, ScanTokenCases, Zenon
<1>10. PICK s : s = scanToken(src, p) OBVIOUS
<1>11. s.kind = "TError" /\ s.value = NoValue /\ s.end = p + 1 BY <1>9, <1>10 DEF Scan
<1>12. Emitted(src, c)
  <2>1. At(src, p) # "\n" BY <1>2
  <2>. QED BY <1>2, <1>8, <1>10, <1>11, <2>1, ScannedEmitted, Zenon
<1>. QED BY <1>1, <1>3, <1>4, <1>7, <1>8, <1>12, Zenon DEF CRError

(* A round of skipTrivia, and the error that waits after it.               *)
Stash(src, l, err) ==
    IF BareCR(src, l.pos) THEN <<Token("TError", NoValue, l, l.pos + 1)>> ELSE err

(* A round of skipTrivia keeps what is read in order and moves on: a bare  *)
(* CR is stashed where it stood, and overwrites an older one.              *)
LEMMA SkipReading ==
    ASSUME NEW src \in Seq(Byte), Counts(src), Scans(src), NEW toks, NEW err, NEW l, Reading(src, toks, err, l),
           At(src, l.pos) \in Trivia, NEW r, r = advance(src, l, TriviaEnd(src, l.pos)), NEW late,
           late = Stash(src, l, err)
    PROVE  Reading(src, toks, late, r) /\ l.pos < r.pos
<1>1. toks \in Seq(Tok(src)) /\ l \in Cursor(src) BY Zenon DEF Reading
<1>2. PICK p \in 1..(Len(src) + 1) : p = l.pos BY <1>1 DEF Cursor
<1>3. PICK q : q = TriviaEnd(src, p) OBVIOUS
<1>4. /\ q \in (p + 1)..(Len(src) + 1) /\ (BareCR(src, p) => q = p + 1)
      /\ ~BareCR(src, p) =>
           \A i \in p..(q - 1) : \/ At(src, i) \in Blank /\ ~BareCR(src, i)
                                 \/ At(src, p) = "#" /\ \A j \in p..i : At(src, j) # "\n"
  <2>1. At(src, p) \in Trivia BY <1>2, Zenon
  <2>. QED BY <1>3, <2>1, TriviaFacts
<1>5. q \in Nat /\ p <= q /\ q <= Len(src) + 1 /\ p < q /\ p \in Nat \ {0} BY <1>4
<1>6. r \in Cursor(src) /\ r.pos = q /\ Placed(src, toks, Len(toks), r.line, r.col, r.pos)
  <2>1. Moved(src, l, q, r) BY <1>1, <1>2, <1>3, <1>5, AdvanceFacts, Zenon
  <2>2. Placed(src, toks, Len(toks), l.line, l.col, l.pos) BY Zenon DEF Reading
  <2>. QED BY <2>1, <2>2, Zenon DEF Moved
<1>7. CASE BareCR(src, p)
  <2>1. PICK c : c = Token("TError", NoValue, l, l.pos + 1) OBVIOUS
  <2>2. late = <<c>> BY <1>2, <1>7, <2>1, Zenon DEF Stash
  <2>3. BareCR(src, l.pos) BY <1>2, <1>7, Zenon
  <2>4. /\ c \in Tok(src) /\ Emitted(src, c) /\ CRError(src, c)
        /\ c.from = l.pos /\ c.to = l.pos + 1 /\ c.line = l.line /\ c.column = l.col
    BY <1>1, <2>1, <2>3, CRToken, Zenon
  <2>5. PICK more : more = toks \o <<c>> OBVIOUS
  <2>6. q = c.to BY <1>2, <1>4, <1>7, <2>4
  <2>7. Positioned(src, toks) BY <1>2, ReadingPlain, Zenon
  <2>8. Tiling(src, more, q)
    <3>1. CASE Tiling(src, toks, p)
      BY <1>1, <1>2, <1>5, <2>4, <2>5, <2>6, <3>1, TilingAppend, Zenon
    <3>2. ASSUME NEW old \in Tok(src), CRError(src, old), Tiling(src, toks \o <<old>>, p)
          PROVE  Tiling(src, more, q)
      <4>1. PICK before : before = toks \o <<old>> OBVIOUS
      <4>2. Tiling(src, before, p) BY <3>2, <4>1, Zenon
      <4>. QED BY <1>1, <1>2, <1>5, <1>7, <2>4, <2>5, <2>6, <3>2, <4>1, <4>2, TilingReplace, Zenon
                DEF CRError
    <3>. QED BY <1>2, <3>1, <3>2, Zenon DEF Reading
  <2>9. Placed(src, toks, Len(toks), c.line, c.column, c.from) BY <2>4, Zenon DEF Reading
  <2>10. Positioned(src, more) BY <1>1, <2>4, <2>5, <2>7, <2>9, PositionedAppend, Zenon
  <2>11. Reading(src, toks, late, r)
    BY <1>1, <1>6, <2>2, <2>4, <2>5, <2>8, <2>10, Zenon DEF Reading
  <2>. QED BY <1>2, <1>5, <1>6, <2>11, Zenon
<1>8. CASE ~BareCR(src, p)
  <2>1. late = err BY <1>2, <1>8, Zenon DEF Stash
  <2>2. ASSUME NEW all, Tiling(src, all, l.pos) PROVE Tiling(src, all, r.pos)
    BY <1>2, <1>4, <1>5, <1>6, <1>8, <2>2, TilingSkip, Zenon
  <2>3. Reading(src, toks, late, r) BY <1>1, <1>6, <2>1, <2>2, Zenon DEF Reading
  <2>. QED BY <1>2, <1>5, <1>6, <2>3, Zenon
<1>. QED BY <1>7, <1>8

(* A token at the cursor.                                                  *)
LEMMA EmitReading ==
    ASSUME NEW src \in Seq(Byte), Counts(src), Scans(src), NEW toks, NEW err, NEW l, Reading(src, toks, err, l),
           At(src, l.pos) \notin Trivia \cup {"eof"}, NEW s, s = scanToken(src, l.pos),
           NEW m, m = [advance(src, l, s.end) EXCEPT !.col = @ + s.drift], NEW more,
           more = toks \o err \o <<Token(s.kind, s.value, l, s.end)>>
    PROVE  /\ Reading(src, more, <<>>, m) /\ l.pos < m.pos
           /\ more[Len(more)].kind # "TEOF"
<1>0. l \in Cursor(src) BY Zenon DEF Reading
<1>1. /\ m \in Cursor(src) /\ m.pos = s.end /\ m.line = l.line
      /\ l.pos \in 1..Len(src) /\ At(src, l.pos) # "\n" /\ l.pos < s.end
      /\ s.drift # 0 => s.kind = "TInt" /\ At(src, s.end) \in {"e", "E"}
      /\ s.drift = 0 => \A ts, n : Placed(src, ts, n, l.line, l.col, l.pos) =>
                                     Placed(src, ts, n, m.line, m.col, m.pos)
      /\ m.line = LineOf(src, m.pos) <=> l.line = LineOf(src, l.pos)
  <2>1. MovedPast(src, l, s, m) BY <1>0, EmitFacts, Zenon
  <2>. QED BY <2>1, Zenon DEF MovedPast
<1>2. PICK all : Whole(src, toks, err, l, all) BY ReadingWhole, Zenon
<1>3. /\ all \in Seq(Tok(src)) /\ all = toks \o err
      /\ Tiling(src, all, l.pos) /\ Positioned(src, all)
      /\ Placed(src, all, Len(all), l.line, l.col, l.pos)
  BY <1>2, Zenon DEF Whole
<1>4. PICK tok : tok = Token(s.kind, s.value, l, s.end) OBVIOUS
<1>5. more = all \o <<tok>> BY <1>3, <1>4, Zenon
<1>6. /\ tok.kind = s.kind /\ tok.value = s.value /\ tok.from = l.pos /\ tok.to = s.end
      /\ tok.line = l.line /\ tok.column = l.col
  BY <1>4, Zenon DEF Token
<1>7. tok \in Tok(src)
  <2>1. s.kind \in Kinds(src) /\ s.value \in Values(src) BY <1>1, Zenon DEF Kinds, Values
  <2>2. l.pos \in Nat /\ s.end \in Nat /\ l.line \in Nat /\ l.col \in Nat
    BY <1>0, <1>1 DEF Cursor
  <2>. QED BY <1>4, <2>1, <2>2, Zenon DEF Tok, Token
<1>8. Emitted(src, tok) BY <1>1, <1>6, ScannedEmitted, Zenon
<1>9. more \in Seq(Tok(src)) /\ Extended(all, tok, more) BY <1>3, <1>5, <1>7, AppendFacts, Zenon
<1>10. Tiling(src, more, m.pos)
  <2>1. l.pos \in Nat \ {0} /\ m.pos = tok.to BY <1>1, <1>6
  <2>. QED BY <1>3, <1>5, <1>6, <1>7, <1>8, <2>1, TilingAppend, Zenon
<1>11. Positioned(src, more)
  <2>1. Placed(src, all, Len(all), tok.line, tok.column, tok.from) BY <1>3, <1>6, Zenon
  <2>. QED BY <1>3, <1>5, <1>7, <2>1, PositionedAppend, Zenon
<1>12. Placed(src, more, Len(more), m.line, m.col, m.pos)
  <2>1. CASE s.drift = 0
    <3>1. Placed(src, all, Len(all), m.line, m.col, m.pos) BY <1>1, <1>3, <2>1, Zenon
    <3>. QED BY <1>3, <1>5, <1>7, <3>1, PlacedMore, Zenon
  <2>2. CASE s.drift # 0
    <3>1. Drifts(src, tok) /\ tok.line = m.line BY <1>1, <1>6, <2>2, Zenon DEF Drifts
    <3>2. Excused(src, more, Len(more), m.line) BY <1>9, <3>1, Zenon DEF Excused, Extended
    <3>3. m.line = LineOf(src, m.pos) BY <1>1, <1>3, Zenon DEF Placed
    <3>. QED BY <3>2, <3>3, Zenon DEF Placed
  <2>. QED BY <2>1, <2>2
<1>13. more[Len(more)].kind # "TEOF"
  <2>1. tok.kind # "TEOF" BY <1>8, EmittedFacts, Zenon
  <2>. QED BY <1>9, <2>1, Zenon DEF Extended
<1>14. Reading(src, more, <<>>, m) BY <1>1, <1>9, <1>10, <1>11, <1>12, Zenon DEF Reading
<1>. QED BY <1>1, <1>13, <1>14, Zenon

(* The end of the text.                                                    *)
LEMMA EndReading ==
    ASSUME NEW src \in Seq(Byte), NEW toks, NEW err, NEW l, Reading(src, toks, err, l),
           At(src, l.pos) = "eof", NEW more,
           more = toks \o err \o <<Token("TEOF", NoValue, l, l.pos)>>
    PROVE  /\ Tiles(src, more) /\ Positioned(src, more)
           /\ more # <<>> /\ more[Len(more)].kind = "TEOF"
<1>0. l \in Cursor(src) BY Zenon DEF Reading
<1>1. PICK p : p = l.pos OBVIOUS
<1>2. p = Len(src) + 1
  <2>1. p \in 1..(Len(src) + 1) BY <1>0, <1>1 DEF Cursor
  <2>2. p \in 1..Len(src) => At(src, p) # "eof" BY <2>1, AtByte
  <2>. QED BY <1>1, <2>1, <2>2
<1>3. PICK all : Whole(src, toks, err, l, all) BY ReadingWhole, Zenon
<1>4. /\ all \in Seq(Tok(src)) /\ all = toks \o err
      /\ Tiling(src, all, p) /\ Positioned(src, all)
      /\ Placed(src, all, Len(all), l.line, l.col, l.pos)
  BY <1>1, <1>3, Zenon DEF Whole
<1>5. PICK tok : tok = Token("TEOF", NoValue, l, l.pos) OBVIOUS
<1>6. more = all \o <<tok>> BY <1>4, <1>5, Zenon
<1>7. /\ tok.kind = "TEOF" /\ tok.from = p /\ tok.to = p /\ tok.line = l.line /\ tok.column = l.col
      /\ tok.from = l.pos
  BY <1>1, <1>5, Zenon DEF Token
<1>8. tok \in Tok(src)
  <2>1. "TEOF" \in Kinds(src) /\ NoValue \in Values(src) BY Zenon DEF Kinds, Values
  <2>2. l.pos \in Nat /\ l.line \in Nat /\ l.col \in Nat BY <1>0 DEF Cursor
  <2>. QED BY <1>5, <2>1, <2>2, Zenon DEF Tok, Token
<1>9. Tiles(src, more) BY <1>2, <1>4, <1>6, <1>7, <1>8, TilingEnd, Zenon
<1>10. Positioned(src, more)
  <2>1. Placed(src, all, Len(all), tok.line, tok.column, tok.from) BY <1>4, <1>7, Zenon
  <2>. QED BY <1>4, <1>6, <1>8, <2>1, PositionedAppend, Zenon
<1>11. Extended(all, tok, more) BY <1>4, <1>6, <1>8, AppendFacts, Zenon
<1>12. more[Len(more)].kind = "TEOF" BY <1>7, <1>11, Zenon DEF Extended
<1>13. more # <<>> BY <1>4, <1>6
<1>. QED BY <1>9, <1>10, <1>12, <1>13

(* The cases of LexStep.                                                   *)
LEMMA LexStepCases ==
    ASSUME NEW src, NEW x, NEW c, c = At(src, x.l.pos)
    PROVE  /\ c \in Trivia => LexStep(src, x) = skipTrivia(src, x)
           /\ c = "eof" => LexStep(src, x) = emitEOF(src, x)
           /\ c \notin Trivia \cup {"eof"} => LexStep(src, x) = emitToken(src, x)
<1>1. "eof" \notin Trivia BY TriviaBytes, Zenon
<1>. DEFINE a == skipTrivia(src, x)
            b == emitEOF(src, x)
            d == emitToken(src, x)
<1>2. LexStep(src, x) = CASE c \in Trivia -> a [] c = "eof" -> b [] OTHER -> d
  BY Zenon DEF LexStep
<1>. HIDE DEF a, b, d
<1>3. /\ c \in Trivia => LexStep(src, x) = a
      /\ c = "eof" => LexStep(src, x) = b
      /\ c \notin Trivia \cup {"eof"} => LexStep(src, x) = d
  BY <1>1, <1>2
<1>. QED BY <1>3, Zenon DEF a, b, d

(* A step of the loops keeps the invariant, and moves the cursor on or     *)
(* ends the text.                                                          *)
LEMMA LexStepInv ==
    ASSUME NEW src \in Seq(Byte), Counts(src), Scans(src), NEW x, ~Lexed(x), LexInv(src, x), NEW y, y = LexStep(src, x)
    PROVE  LexInv(src, y) /\ (Lexed(y) \/ x.l.pos < y.l.pos)
<1>1. PICK toks, err, l : toks = x.tokens /\ err = x.pendingErr /\ l = x.l OBVIOUS
<1>2. Reading(src, toks, err, l) BY <1>1, Zenon DEF LexInv
<1>3. CASE At(src, l.pos) \in Trivia
  <2>1. y = skipTrivia(src, x) BY <1>1, <1>3, LexStepCases, Zenon
  <2>2. PICK r : r = advance(src, l, TriviaEnd(src, l.pos)) OBVIOUS
  <2>3. PICK late : late = Stash(src, l, err) OBVIOUS
  <2>4. y = [l |-> r, pendingErr |-> late, tokens |-> toks]
    BY <1>1, <2>1, <2>2, <2>3, Zenon DEF skipTrivia, Stash
  <2>5. Reading(src, toks, late, r) /\ l.pos < r.pos
    BY <1>2, <1>3, <2>2, <2>3, SkipReading, Zenon
  <2>6. y.l = r /\ y.pendingErr = late /\ y.tokens = toks BY <2>4
  <2>7. ~Lexed(y) BY <1>1, <2>6, Zenon DEF Lexed
  <2>. QED BY <1>1, <2>5, <2>6, <2>7, Zenon DEF LexInv
<1>4. CASE At(src, l.pos) \notin Trivia \cup {"eof"}
  <2>1. y = emitToken(src, x) BY <1>1, <1>4, LexStepCases, Zenon
  <2>2. PICK s : s = scanToken(src, l.pos) OBVIOUS
  <2>3. PICK m : m = [advance(src, l, s.end) EXCEPT !.col = @ + s.drift] OBVIOUS
  <2>4. PICK more : more = toks \o err \o <<Token(s.kind, s.value, l, s.end)>> OBVIOUS
  <2>5. y = [l |-> m, pendingErr |-> <<>>, tokens |-> more]
    BY <1>1, <2>1, <2>2, <2>3, <2>4, Zenon DEF emitToken
  <2>6. Reading(src, more, <<>>, m) /\ l.pos < m.pos /\ more[Len(more)].kind # "TEOF"
    BY <1>2, <1>4, <2>2, <2>3, <2>4, EmitReading, Zenon
  <2>7. y.l = m /\ y.pendingErr = <<>> /\ y.tokens = more BY <2>5
  <2>8. ~Lexed(y) BY <2>6, <2>7, Zenon DEF Lexed
  <2>. QED BY <1>1, <2>6, <2>7, <2>8, Zenon DEF LexInv
<1>5. CASE At(src, l.pos) = "eof"
  <2>1. y = emitEOF(src, x) BY <1>1, <1>5, LexStepCases, Zenon
  <2>2. PICK more : more = toks \o err \o <<Token("TEOF", NoValue, l, l.pos)>> OBVIOUS
  <2>3. y.tokens = more
    <3>1. y = [l |-> l, pendingErr |-> <<>>, tokens |-> more]
      BY <1>1, <2>1, <2>2, Zenon DEF emitEOF
    <3>. QED BY <3>1
  <2>4. /\ Tiles(src, more) /\ Positioned(src, more)
        /\ more # <<>> /\ more[Len(more)].kind = "TEOF"
    BY <1>2, <1>5, <2>2, EndReading, Zenon
  <2>. QED BY <2>3, <2>4, Zenon DEF Lexed, LexInv
<1>. QED BY <1>3, <1>4, <1>5, Zenon

(* The invariant of the specification.                                     *)
LexSound == source \in Seq(Byte) /\ LexInv(source, lexer)

(* A new lexer has read nothing.                                           *)
LEMMA LexInvInit ==
    ASSUME LexInit, Counts(source)
    PROVE  LexSound
<1>. SUFFICES source \in Seq(Byte) /\ LexInv(source, lexer)
  BY DEF LexSound
<1>. DEFINE l == [pos |-> 1, line |-> 1, col |-> 1]
<1>1. source \in Seq(Byte) /\ lexer = [l |-> l, pendingErr |-> <<>>, tokens |-> <<>>]
  BY Zenon DEF LexInit, NewLexer
<1>2. lexer.l = l /\ lexer.pendingErr = <<>> /\ lexer.tokens = <<>> BY <1>1
<1>3. l \in Cursor(source) /\ l.pos = 1 /\ l.line = 1 /\ l.col = 1 BY <1>1 DEF Cursor
<1>. HIDE DEF l
<1>4. Placed(source, <<>>, 0, 1, 1, 1)
  <2>1. Newlines(source, 1, 1) = {} BY DEF Newlines
  <2>2. Cardinality(Newlines(source, 1, 1)) = 0
    <3>1. 1 \in Nat \ {0} /\ 1 \in Nat /\ 1 <= 1 OBVIOUS
    <3>. QED BY <2>1, <3>1, Zenon DEF Counts
  <2>3. LineOf(source, 1) = 1 BY <2>2 DEF LineOf
  <2>4. ColumnOf(source, 1) = 1 BY <2>1, Zenon DEF ColumnOf
  <2>. QED BY <2>3, <2>4, Zenon DEF Placed
<1>5. Tiling(source, <<>>, 1) BY DEF Tiling
<1>6. Positioned(source, <<>>) BY DEF Positioned
<1>7. <<>> \in Seq(Tok(source)) /\ Len(<<>>) = 0 OBVIOUS
<1>8. Reading(source, <<>>, <<>>, l) BY <1>3, <1>4, <1>5, <1>6, <1>7, Zenon DEF Reading
<1>9. ~Lexed(lexer) BY <1>2, Zenon DEF Lexed
<1>. QED BY <1>1, <1>2, <1>8, <1>9, Zenon DEF LexInv

(* In every state the tokens found so far are positioned.                  *)
LEMMA LexPositioned ==
    ASSUME LexSound
    PROVE  Positioned(source, lexer.tokens)
<1>0. source \in Seq(Byte) /\ LexInv(source, lexer) BY Zenon DEF LexSound
<1>1. PICK toks, err, l : toks = lexer.tokens /\ err = lexer.pendingErr /\ l = lexer.l OBVIOUS
<1>2. CASE Lexed(lexer) BY <1>0, <1>2, Zenon DEF LexInv
<1>3. CASE ~Lexed(lexer)
  <2>1. Reading(source, toks, err, l) BY <1>0, <1>1, <1>3, Zenon DEF LexInv
  <2>. QED BY <1>0, <1>1, <2>1, ReadingPlain, Zenon
<1>. QED BY <1>2, <1>3

-----------------------------------------------------------------------------
(* Counting.                                                               *)

INSTANCE FiniteSetTheorems

(* A text has finitely many newlines in a stretch.                         *)
LEMMA NewlinesFacts ==
    ASSUME NEW src, NEW a \in Nat \ {0}, NEW b \in Nat
    PROVE  /\ Newlines(src, a, b) \subseteq 0..b
           /\ IsFiniteSet(Newlines(src, a, b))
           /\ Cardinality(Newlines(src, a, b)) \in Nat
<1>1. Newlines(src, a, b) \in SUBSET Nat /\ Newlines(src, a, b) \subseteq 0..b
      /\ \A i \in Newlines(src, a, b) : i <= b
  BY DEF Newlines
<1>2. IsFiniteSet(Newlines(src, a, b)) BY <1>1, FS_BoundedSetOfNaturals, Zenon
<1>. QED BY <1>1, <1>2, FS_CardinalityType, Zenon

(* Newlines are counted stretch by stretch.                                *)
LEMMA NewlinesSplit ==
    ASSUME NEW src, NEW p \in Nat \ {0}, NEW q \in Nat, p <= q
    PROVE  /\ Newlines(src, 1, q) = Newlines(src, 1, p) \cup Newlines(src, p, q)
           /\ Cardinality(Newlines(src, 1, q)) =
                Cardinality(Newlines(src, 1, p)) + Cardinality(Newlines(src, p, q))
<1>. DEFINE A == Newlines(src, 1, p)
            B == Newlines(src, p, q)
<1>1. Newlines(src, 1, q) = A \cup B /\ A \cap B = {} BY DEF Newlines
<1>2. IsFiniteSet(A) /\ IsFiniteSet(B) /\ Cardinality(A) \in Nat /\ Cardinality(B) \in Nat
  <2>1. 1 \in Nat \ {0} /\ p \in Nat OBVIOUS
  <2>. QED BY <2>1, NewlinesFacts, Zenon
<1>. HIDE DEF A, B
<1>3. Cardinality(A \cup B) = Cardinality(A) + Cardinality(B) - Cardinality(A \cap B)
  BY <1>2, FS_Union, Zenon
<1>4. Cardinality(A \cap B) = 0 BY <1>1, FS_EmptySet, Zenon
<1>5. Cardinality(A \cup B) = Cardinality(A) + Cardinality(B) BY <1>2, <1>3, <1>4
<1>. QED BY <1>1, <1>5, Zenon DEF A, B

(* Counting newlines stretch by stretch, as advance does, is right in      *)
(* every text.                                                             *)
LEMMA CountsHold ==
    ASSUME NEW src
    PROVE  Counts(src)
<1>1. ASSUME NEW p \in Nat \ {0}, NEW q \in Nat, p <= q
      PROVE  /\ Cardinality(Newlines(src, 1, q)) =
                  Cardinality(Newlines(src, 1, p)) + Cardinality(Newlines(src, p, q))
             /\ Cardinality(Newlines(src, 1, p)) \in Nat
             /\ Cardinality(Newlines(src, p, q)) \in Nat
  <2>1. 1 \in Nat \ {0} /\ p \in Nat OBVIOUS
  <2>2. /\ Cardinality(Newlines(src, 1, p)) \in Nat
        /\ Cardinality(Newlines(src, p, q)) \in Nat
    BY <2>1, NewlinesFacts, Zenon
  <2>. QED BY <1>1, <2>2, NewlinesSplit, Zenon
<1>2. Cardinality({}) = 0 BY FS_EmptySet, Zenon
<1>. QED BY <1>1, <1>2, Zenon DEF Counts

-----------------------------------------------------------------------------
(* The theorems.                                                           *)

(* The inductive invariant holds in every state of the loops of Lex.       *)
THEOREM LexInvariant == LexSpec => []LexSound
<1>1. LexInit => LexSound
  <2>1. Counts(source) BY CountsHold, Zenon
  <2>. QED BY <2>1, LexInvInit, Zenon
<1>2. ASSUME LexSound, [LexNext]_lexVars PROVE LexSound'
  <2>1. source \in Seq(Byte) /\ LexInv(source, lexer) BY <1>2, Zenon DEF LexSound
  <2>2. CASE LexNext
    <3>1. ~Lexed(lexer) /\ lexer' = LexStep(source, lexer) /\ source' = source
      BY <2>2, Zenon DEF LexNext
    <3>2. Counts(source) /\ Scans(source) BY <2>1, CountsHold, ScansHold, Zenon
    <3>3. LexInv(source, lexer') BY <2>1, <3>1, <3>2, LexStepInv, Zenon
    <3>. QED BY <2>1, <3>1, <3>3, Zenon DEF LexSound
  <2>3. CASE UNCHANGED lexVars
    <3>1. source' = source /\ lexer' = lexer BY <2>3 DEF lexVars
    <3>. QED BY <2>1, <3>1, Zenon DEF LexSound
  <2>. QED BY <1>2, <2>2, <2>3, Zenon
<1>. QED BY <1>1, <1>2, PTL DEF LexSpec

(* Lex loses no byte of any text and reads none twice: its tokens cover    *)
(* the text in order, only white space, comments and bare CRs that a later *)
(* one overwrote in pendingErr lie between them, each token reads the same *)
(* on its own, and TEOF ends the list and only it.                         *)
THEOREM LexTilesText == LexSpec => []TokensTileText
<1>1. LexSound => TokensTileText BY Zenon DEF LexSound, LexInv, TokensTileText
<1>. QED BY <1>1, LexInvariant, PTL

(* The line and column that advance has counted for a token are those of   *)
(* its first byte, unless an exponent without digits, which scanNumber     *)
(* gives back to the cursor but not to the column, stands before it on its *)
(* line.                                                                   *)
THEOREM LexPositionsAreTrue == LexSpec => []PositionsAreTrue
<1>1. ASSUME LexSound PROVE PositionsAreTrue
  <2>1. PICK toks : toks = lexer.tokens OBVIOUS
  <2>2. Positioned(source, toks) BY <1>1, <2>1, LexPositioned, Zenon
  <2>3. ASSUME NEW k \in 1..Len(toks)
        PROVE  \/ \E j \in 1..(k - 1) : Drifts(source, toks[j]) /\ toks[j].line = toks[k].line
               \/ <<toks[k].line, toks[k].column>> = TruePosition(source, toks[k].from)
    <3>1. Placed(source, toks, k - 1, toks[k].line, toks[k].column, toks[k].from)
      BY <2>2, Zenon DEF Positioned
    <3>2. TruePosition(source, toks[k].from) =
            <<LineOf(source, toks[k].from), ColumnOf(source, toks[k].from)>>
      BY TruePositionIs, Zenon
    <3>. QED BY <3>1, <3>2, Zenon DEF Placed, Excused
  <2>. QED BY <2>1, <2>3, Zenon DEF PositionsAreTrue
<1>. QED BY <1>1, LexInvariant, PTL

(* The line of a token is never excused: a malformed exponent moves the    *)
(* column only, so every token, the error tokens and TEOF included, is     *)
(* reported on the line its first byte is on.                              *)
LinesAreTrue ==
    \A k \in 1..Len(lexer.tokens) :
      lexer.tokens[k].line = TruePosition(source, lexer.tokens[k].from)[1]

(* No token is reported on a wrong line, whatever stands before it.        *)
THEOREM LexLinesAreTrue == LexSpec => []LinesAreTrue
<1>1. ASSUME LexSound PROVE LinesAreTrue
  <2>1. PICK toks : toks = lexer.tokens OBVIOUS
  <2>2. Positioned(source, toks) BY <1>1, <2>1, LexPositioned, Zenon
  <2>3. ASSUME NEW k \in 1..Len(toks)
        PROVE  toks[k].line = TruePosition(source, toks[k].from)[1]
    <3>1. Placed(source, toks, k - 1, toks[k].line, toks[k].column, toks[k].from)
      BY <2>2, Zenon DEF Positioned
    <3>2. TruePosition(source, toks[k].from) =
            <<LineOf(source, toks[k].from), ColumnOf(source, toks[k].from)>>
      BY TruePositionIs, Zenon
    <3>3. TruePosition(source, toks[k].from)[1] = LineOf(source, toks[k].from) BY <3>2
    <3>. QED BY <3>1, <3>3, Zenon DEF Placed
  <2>. QED BY <2>1, <2>3, Zenon DEF LinesAreTrue
<1>. QED BY <1>1, LexInvariant, PTL

(* Every round moves the cursor at least one byte on, or writes the last   *)
(* token; the cursor never leaves the text.  A text of n bytes is so read  *)
(* in at most n + 1 rounds: advance is called with n >= 1 and never past   *)
(* the end, as its comment demands.                                        *)
RoundsAdvance ==
    /\ Lexed(lexer') \/ lexer.l.pos < lexer'.l.pos
    /\ Lexed(lexer') \/ lexer'.l.pos \in 1..(Len(source) + 1)

(* Lex cannot loop: no round leaves the cursor where it was, or takes it   *)
(* out of the text.                                                        *)
THEOREM LexRoundsAdvance == LexSpec => [][RoundsAdvance]_lexVars
<1>1. ASSUME LexSound, LexNext PROVE RoundsAdvance
  <2>1. ~Lexed(lexer) /\ lexer' = LexStep(source, lexer) BY <1>1, Zenon DEF LexNext
  <2>2. LexInv(source, lexer') /\ (Lexed(lexer') \/ lexer.l.pos < lexer'.l.pos)
    <3>1. source \in Seq(Byte) /\ LexInv(source, lexer) BY <1>1, Zenon DEF LexSound
    <3>2. Counts(source) /\ Scans(source) BY <3>1, CountsHold, ScansHold, Zenon
    <3>. QED BY <2>1, <3>1, <3>2, LexStepInv, Zenon
  <2>3. CASE Lexed(lexer') BY <2>3, Zenon DEF RoundsAdvance
  <2>4. CASE ~Lexed(lexer')
    <3>1. lexer'.l \in Cursor(source) BY <2>2, <2>4, Zenon DEF LexInv, Reading
    <3>2. lexer'.l.pos \in 1..(Len(source) + 1) BY <3>1 DEF Cursor
    <3>. QED BY <2>2, <2>4, <3>2, Zenon DEF RoundsAdvance
  <2>. QED BY <2>3, <2>4
<1>2. LexSound /\ [LexNext]_lexVars => [RoundsAdvance]_lexVars BY <1>1, Zenon
<1>. QED BY <1>2, LexInvariant, PTL DEF LexSpec
=============================================================================
