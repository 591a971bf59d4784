----------------------------- MODULE RuleParser -----------------------------
(***************************************************************************)
(* The recursive-descent parser of pkg/rule/parser: parser.go and the      *)
(* nodes of ast.go.  A production takes the tokens and the index of the    *)
(* next one and returns a node and the index after it, or Fail.  The nodes *)
(* keep no source position, and error messages are left out.               *)
(*                                                                         *)
(* A rule value is a pair of its kind and its Go value (pkg/rule/types.go). *)
(***************************************************************************)
EXTENDS RuleLexer

CONSTANTS
    Literals,  \* [{"TFloat", "TDuration", "TTimestamp", "TIP"} -> the texts
               \* that strconv, time and net accept, with their values]
    Networks,  \* the texts net.ParseCIDR accepts, with the set of addresses
    MaxInt     \* the largest int64

KindOf == [k \in {"TFloat", "TDuration", "TTimestamp"} |->
             CASE k = "TFloat" -> "Float" [] k = "TDuration" -> "Duration"
               [] k = "TTimestamp" -> "Timestamp"]

(* A byte of the value of a token, which is a string.                      *)
CharAt(s, i) == IF i <= Len(s) THEN SubSeq(s, i, i) ELSE "eof"

RECURSIVE Number(_, _)
Number(text, i) ==
    LET digit == CHOOSE d \in 0..9 : CharAt("0123456789", d + 1) = CharAt(text, i)
    IN  IF i = 0 THEN 0 ELSE 10 * Number(text, i - 1) + digit

(* The bytes a hex text stands for.                                        *)
Decode(hex) ==
    LET nibble(c) == CHOOSE d \in 0..15 : CharAt("0123456789abcdef", d + 1) = c
    IN  [i \in 1..(Len(hex) \div 2) |->
           16 * nibble(CharAt(hex, 2 * i - 1)) + nibble(CharAt(hex, 2 * i))]

Lit(kind, v) == [op |-> "Lit", v |-> <<kind, v>>]

(* IsCIDR is set by the "/" in the text; Value holds the address only.     *)
LitIP(text) == [op |-> "LitIP", v |-> <<"IP", Literals["TIP"][text]>>,
                raw |-> text, cidr |-> text \in DOMAIN Networks]

Binary(op, l, r) == [op |-> op, l |-> l, r |-> r]

-----------------------------------------------------------------------------
Fail == [ok |-> FALSE]

Ok(node, pos) == [ok |-> TRUE, node |-> node, pos |-> pos]

(* next goes on with the result of a production that did not fail.         *)
Then(result, next(_)) == IF result.ok THEN next(result) ELSE Fail

(* peek: past the end it answers TEOF, the last token.                     *)
Peek(t, p) == t[IF p <= Len(t) THEN p ELSE Len(t)]

Is(t, p, kind) == Peek(t, p).kind = kind

Word(t, p, words) == Is(t, p, "TKeyword") /\ Peek(t, p).value \in words

(* expect.                                                                 *)
Expect(result, t, kind, node) ==
    IF result.ok /\ Is(t, result.pos, kind) THEN Ok(node, result.pos + 1)
    ELSE Fail

StringOps == {"contains", "starts_with", "ends_with", "matches", "wildcard"}

CmpOps == {"eq", "ne", "lt", "le", "gt", "ge"}

RECURSIVE parseOr(_, _), orTail(_, _), parseAnd(_, _), andTail(_, _),
          parseNot(_, _), parseBinaryOp(_, _), parsePrimary(_, _),
          listTail(_, _, _), maybeBracketAccess(_, _)

(* Mutant: a chain of or groups to the right.                              *)
orTailRight(t, left) ==
    IF ~Word(t, left.pos, {"or"}) THEN left
    ELSE Then(parseOr(t, left.pos + 1),
              LAMBDA right : Ok(Binary("Or", left.node, right.node), right.pos))

(* The loops of parseOr and parseAnd: left-associative.                    *)
orTail(t, left) ==
    IF ~Word(t, left.pos, {"or"}) THEN left
    ELSE Then(parseAnd(t, left.pos + 1), LAMBDA right :
              orTail(t, Ok(Binary("Or", left.node, right.node), right.pos)))

parseOr(t, p) == Then(parseAnd(t, p), LAMBDA left : orTail(t, left))

andTail(t, left) ==
    IF ~Word(t, left.pos, {"and"}) THEN left
    ELSE Then(parseNot(t, left.pos + 1), LAMBDA right :
              andTail(t, Ok(Binary("And", left.node, right.node), right.pos)))

parseAnd(t, p) == Then(parseNot(t, p), LAMBDA left : andTail(t, left))

parseNot(t, p) ==
    IF Word(t, p, {"not"})
    THEN Then(parseNot(t, p + 1), LAMBDA x : Ok([op |-> "Not", x |-> x.node], x.pos))
    ELSE parseBinaryOp(t, p)

(* The elements of an array or the arguments of a call, after "[" or "(".  *)
parseList(t, p, close) ==
    IF Is(t, p, close) THEN Ok(<<>>, p + 1)
    ELSE Then(parseOr(t, p), LAMBDA first :
              listTail(t, Ok(<<first.node>>, first.pos), close))

listTail(t, list, close) ==
    IF ~Is(t, list.pos, "TComma") THEN Expect(list, t, close, list.node)
    ELSE Then(parseOr(t, list.pos + 1), LAMBDA x :
              listTail(t, Ok(Append(list.node, x.node), x.pos), close))

parseArrayLiteral(t, p) ==
    IF ~Is(t, p, "TLBrack") THEN Fail
    ELSE Then(parseList(t, p + 1, "TRBrack"), LAMBDA list :
              Ok([op |-> "LitArray", xs |-> list.node], list.pos))

(* An operand, inside Strict when "strict" stood before it.                *)
Wrapped(strict, operand) ==
    IF strict
    THEN Then(operand, LAMBDA x : Ok([op |-> "Strict", x |-> x.node], x.pos))
    ELSE operand

(* The node of the operator token tok.                                     *)
Joined(tok, l, r) ==
    CASE tok.kind = "TAmpersand" -> Binary("BitAnd", l, r)
      [] tok.value \in StringOps -> Binary(tok.value, l, r)
      [] tok.value \in CmpOps -> [op |-> "Cmp", cmp |-> tok.value, l |-> l, r |-> r]

(* parseInTail, parseCmpTail, parseStringOpTail and parseBitAndTail: the   *)
(* comparison tier does not chain, and only a comparison takes "strict"    *)
(* before its right operand.                                               *)
parseTail(t, left) ==
    LET q == left.pos
        strict == Word(t, q, CmpOps) /\ Word(t, q + 1, {"strict"})
    IN  CASE Word(t, q, {"in"}) ->
               Then(parseArrayLiteral(t, q + 1), LAMBDA set :
                    Ok(Binary("In", left.node, set.node), set.pos))
          [] Word(t, q, CmpOps \cup StringOps) \/ Is(t, q, "TAmpersand") ->
               Then(Wrapped(strict, parsePrimary(t, IF strict THEN q + 2 ELSE q + 1)),
                    LAMBDA right : Ok(Joined(Peek(t, q), left.node, right.node), right.pos))
          [] OTHER -> left

parseBinaryOp(t, p) ==
    LET strict == Word(t, p, {"strict"})
    IN  Then(Wrapped(strict, Then(parsePrimary(t, IF strict THEN p + 1 ELSE p),
                                  LAMBDA first : maybeBracketAccess(t, first))),
             LAMBDA left : parseTail(t, left))

(* A name is at p and "(" follows it.                                      *)
parseFuncCallTail(t, p) ==
    Then(parseList(t, p + 2, "TRParen"), LAMBDA args :
         Ok([op |-> "Call", name |-> Peek(t, p).value, xs |-> args.node], args.pos))

parseParenthesised(t, p) ==
    Then(parseOr(t, p + 1), LAMBDA inner :
         Then(Expect(inner, t, "TRParen", inner.node), LAMBDA group :
              maybeBracketAccess(t, group)))

parsePrimary(t, p) ==
    LET tok == Peek(t, p)
        text == tok.value
        call == Is(t, p + 1, "TLParen")
        n == Number(text, Len(text))
        when(cond, node) == IF cond THEN Ok(node, p + 1) ELSE Fail
    IN  CASE tok.kind = "TString" -> Ok(Lit("String", text), p + 1)
          [] tok.kind = "TBool" -> Ok(Lit("Bool", text = "true"), p + 1)
          [] tok.kind = "TBytes" -> Ok(Lit("Bytes", Decode(text)), p + 1)
          [] tok.kind = "TInt" -> when(n <= MaxInt, Lit("Int", n))
          [] tok.kind \in DOMAIN KindOf ->
               when(text \in DOMAIN Literals[tok.kind],
                    Lit(KindOf[tok.kind], Literals[tok.kind][text]))
          [] tok.kind = "TIP" -> when(text \in DOMAIN Literals["TIP"], LitIP(text))
          [] tok.kind = "TIdent" /\ call -> parseFuncCallTail(t, p)
          [] tok.kind = "TIdent" /\ ~call -> Ok([op |-> "Field", name |-> text], p + 1)
          [] tok.kind = "TLParen" -> parseParenthesised(t, p)
          [] OTHER -> Fail

maybeBracketAccess(t, base) ==
    IF ~Is(t, base.pos, "TLBrack") THEN base
    ELSE Then(parseOr(t, base.pos + 1), LAMBDA key :
              Then(Expect(key, t, "TRBrack", Binary("Bracket", base.node, key.node)),
                   LAMBDA access : maybeBracketAccess(t, access)))

(* parseExpression: not empty, and every token is consumed.                *)
Parse(t) ==
    IF Is(t, 1, "TEOF") THEN Fail
    ELSE Then(parseOr(t, 1), LAMBDA root : Expect(root, t, "TEOF", root.node))
=============================================================================
