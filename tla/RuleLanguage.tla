---------------------------- MODULE RuleLanguage ----------------------------
(***************************************************************************)
(* A rule from its text to its verdict: lexer.Lex, parser.Parse,           *)
(* compiler.Compile and Plan.Eval in turn, as ruleset.compileExpr and      *)
(* RuleSet.Match call them.  The four modules below this one hold the      *)
(* algorithms; here they are composed and compared with definitions of     *)
(* what the language is: a printer and a meaning of the syntax tree.       *)
(***************************************************************************)
EXTENDS RuleEval, TLC

CONSTANTS
    Rules,      \* syntax trees, entered as the text Unparse gives them
    WordTexts,  \* texts of well-formed tokens in any order
    ByteTexts,  \* texts of arbitrary bytes, for the lexer only
    Scheme,     \* the fields in scope and their kinds
    Events      \* the events a plan is evaluated on

VARIABLES
    stage,      \* text, tree, plan, verdict or rejected; bytes for a text
                \* that only goes to the lexer
    intended,   \* the tree the text was printed from, or NoTree
    tree, plan, event, verdict

vars == <<source, lexer, stage, intended, tree, plan, event, verdict>>

NoTree == [op |-> "None"]

-----------------------------------------------------------------------------
(* The printer: the text of a tree with the fewest parentheses.            *)

HexDigits(n) ==
    CharAt("0123456789abcdef", (n \div 16) + 1) \o CharAt("0123456789abcdef", (n % 16) + 1)

RECURSIVE HexText(_)
HexText(b) == IF b = <<>> THEN "" ELSE HexDigits(Head(b)) \o HexText(Tail(b))

LiteralText(kind, v) == CHOOSE t \in DOMAIN Literals[kind] : Literals[kind][t] = v

UnparseValue(v) ==
    CASE v[1] = "String" -> "\"" \o v[2] \o "\""
      [] v[1] = "Int" -> ToString(v[2])
      [] v[1] = "Bool" -> IF v[2] THEN "true" ELSE "false"
      [] v[1] = "Bytes" -> "0x\"" \o HexText(v[2]) \o "\""
      [] v[1] = "Float" -> LiteralText("TFloat", v[2])
      [] v[1] = "Duration" -> LiteralText("TDuration", v[2])
      [] v[1] = "Timestamp" -> "ts\"" \o LiteralText("TTimestamp", v[2]) \o "\""

(* How tightly the production of a tree binds.                             *)
Level(e) == CASE e.op = "Or" -> 1 [] e.op = "And" -> 2 [] e.op = "Not" -> 3
              [] e.op \in Predicates \cup {"Strict"} -> 4
              [] e.op = "Bracket" -> 5 [] OTHER -> 6

RECURSIVE Unparse(_), UnparseList(_)
Unparse(e) ==
    LET sub(x, level) == IF Level(x) >= level THEN Unparse(x)
                         ELSE "(" \o Unparse(x) \o ")"
        left(x) == IF x.op = "Strict" THEN Unparse(x) ELSE sub(x, 5)
        right(x) == IF x.op = "Strict" /\ e.op = "Cmp"
                    THEN "strict " \o sub(x.x, 6) ELSE sub(x, 6)
    IN  CASE e.op = "Lit" -> UnparseValue(e.v)
          [] e.op = "LitIP" -> "ip\"" \o e.raw \o "\""
          [] e.op = "Field" -> e.name
          [] e.op = "LitArray" -> "[" \o UnparseList(e.xs) \o "]"
          [] e.op = "Call" -> e.name \o "(" \o UnparseList(e.xs) \o ")"
          [] e.op = "Bracket" -> sub(e.l, 5) \o "[" \o Unparse(e.r) \o "]"
          [] e.op = "Strict" -> "strict " \o sub(e.x, 5)
          [] e.op = "Not" -> "not " \o sub(e.x, 3)
          [] e.op = "And" -> sub(e.l, 2) \o " and " \o sub(e.r, 3)
          [] e.op = "Or" -> sub(e.l, 1) \o " or " \o sub(e.r, 2)
          [] e.op = "Cmp" -> left(e.l) \o " " \o e.cmp \o " " \o right(e.r)
          [] e.op = "In" -> left(e.l) \o " in " \o Unparse(e.r)
          [] e.op = "BitAnd" -> left(e.l) \o " & " \o right(e.r)
          [] e.op \in StringOps -> left(e.l) \o " " \o e.op \o " " \o right(e.r)

UnparseList(xs) ==
    CASE xs = <<>> -> "" [] Len(xs) = 1 -> Unparse(xs[1])
      [] OTHER -> Unparse(xs[1]) \o ", " \o UnparseList(Tail(xs))

-----------------------------------------------------------------------------
(* The meaning of a tree, as pkg/rule/REFERENCE.md gives it.               *)

(* A missing field or key is not resolved, and neither is a call of one,   *)
(* but to_int and to_float coerce it to 0 (REFERENCE.md:522-523).          *)
Coercions == {"to_int", "to_float"}

RECURSIVE Denotes(_, _)
Denotes(e, ev) ==
    CASE e.op \in {"Lit", "LitIP"} -> {e.v}
      [] e.op = "Field" -> Resolve(e.name, ev)
      [] e.op = "Bracket" ->
           {m[2][e.r.v[2]] : m \in {v \in Resolve(e.l.name, ev) :
                                      v[1] = "Map" /\ e.r.v[2] \in DOMAIN v[2]}}
      [] e.op = "Strict" -> Denotes(e.x, ev)
      [] e.op = "Call" ->
           LET value(x) == IF e.name \in Coercions /\ Denotes(x, ev) = {}
                           THEN {<<"Invalid">>} ELSE Denotes(x, ev)
               vals == [i \in 1..Len(e.xs) |-> value(e.xs[i])]
           IN  {Apply(e.name, args) :
                  args \in {a \in [1..Len(e.xs) -> UNION {vals[i] : i \in 1..Len(e.xs)}] :
                              /\ \A i \in 1..Len(e.xs) : a[i] \in vals[i]
                              /\ e.name = "cidr_matches" => a[1][1] = "IP"}}
      [] OTHER -> {}

Network(e) == Unwrap(e).op = "LitIP" /\ Unwrap(e).cidr

(* A comparison holds between two resolved values of one kind, and for a   *)
(* network on the right between an address and its members; on the left a  *)
(* network is equal to no address (REFERENCE.md:344-360).                  *)
Holds(cmp, l, x, r, y) ==
    IF Network(r) /\ x[1] = "IP"
    THEN cmp \in {"eq", "ne"} /\ ((x[2] \in Networks[Unwrap(r).raw]) <=> cmp = "eq")
    ELSE /\ x[1] = y[1]
         /\ CASE cmp = "eq" -> x[2] = y[2] /\ ~Network(l)
              [] cmp = "ne" -> x[2] # y[2] \/ Network(l)
              [] cmp = "lt" -> compareLess(x, y)
              [] cmp = "gt" -> compareLess(y, x)
              [] cmp = "le" -> ~compareLess(y, x)
              [] cmp = "ge" -> ~compareLess(x, y)

(* An operand of and, or and not that is a value must be a Bool; not fires *)
(* on nothing else (REFERENCE.md:306-308, 801).                            *)
IsValue(e) == Unwrap(e).op \notin Predicates \cup {"And", "Or", "Not"}

IsBool(e, ev) == \E v \in Denotes(e, ev) : v[1] = "Bool"

(* The mask y in x: its bits are set where both have a byte, and x is zero *)
(* beyond it (REFERENCE.md:421-434).                                       *)
Masked(x, y) ==
    \A i \in 1..Len(x) : IF i <= Len(y) THEN BitsSet(x[i], y[i]) ELSE x[i] = 0

(* strict changes nothing, in is a chain of eq, a value that is not        *)
(* resolved satisfies no comparison.                                       *)
RECURSIVE Means(_, _)
Means(e, ev) ==
    CASE e.op = "Or" -> Means(e.l, ev) \/ Means(e.r, ev)
      [] e.op = "And" -> Means(e.l, ev) /\ Means(e.r, ev)
      [] e.op = "Not" -> ~Means(e.x, ev) /\ (IsValue(e.x) => IsBool(e.x, ev))
      [] e.op = "Strict" -> Means(e.x, ev)
      [] e.op = "Cmp" -> \E x \in Denotes(e.l, ev), y \in Denotes(e.r, ev) :
                           Holds(e.cmp, e.l, x, e.r, y)
      [] e.op = "In" -> \E x \in Denotes(e.l, ev), i \in 1..Len(e.r.xs) :
                          Holds("eq", e.l, x, e.r.xs[i], e.r.xs[i].v)
      [] e.op \in {"contains", "starts_with", "ends_with"} ->
           \E x \in Denotes(e.l, ev), y \in Denotes(e.r, ev) :
             \E i \in 0..(Len(AsString(x)) - Len(AsString(y))) :
               /\ x[1] = "String" /\ y[1] = "String"
               /\ SubSeq(x[2], i + 1, i + Len(y[2])) = y[2]
               /\ e.op = "starts_with" => i = 0
               /\ e.op = "ends_with" => i + Len(y[2]) = Len(x[2])
      [] e.op = "wildcard" -> \E x \in Denotes(e.l, ev) :
                                /\ x[1] = "String" /\ e.r.v[2] # ""
                                /\ WildcardMatch(e.r.v[2], x[2])
      [] e.op = "matches" -> \E x \in Denotes(e.l, ev) :
                               LET s == IF x[1] = "Bytes" THEN BytesText(x[2])
                                        ELSE AsString(x)
                               IN  x[1] \in {"String", "Bytes"} /\ Contains(s, e.r.v[2])
      [] e.op = "BitAnd" -> \E x \in Denotes(e.l, ev), y \in Denotes(e.r, ev) :
                              x[1] = "Bytes" /\ y[1] = "Bytes" /\ Masked(x[2], y[2])
      [] OTHER -> <<"Bool", TRUE>> \in Denotes(e, ev)

-----------------------------------------------------------------------------
(* A string as a sequence of bytes.                                        *)
Bytes(s) == [i \in 1..Len(s) |-> SubSeq(s, i, i)]

RECURSIVE LexFrom(_, _)
LexFrom(src, x) == IF Lexed(x) THEN x.tokens ELSE LexFrom(src, LexStep(src, x))

Lex(s) == LexFrom(Bytes(s), NewLexer)

Init ==
    /\ \/ stage = "text" /\ intended \in Rules /\ source = Bytes(Unparse(intended))
       \/ stage = "text" /\ intended = NoTree /\ source \in WordTexts
       \/ stage = "bytes" /\ intended = NoTree /\ source \in ByteTexts
    /\ LexInit
    /\ tree = NoTree /\ plan = NoTree /\ event = <<>> /\ verdict = FALSE

LexText == LexNext /\ UNCHANGED <<stage, intended, tree, plan, event, verdict>>

ParseTokens ==
    /\ stage = "text" /\ Lexed(lexer)
    /\ LET result == Parse(lexer.tokens)
       IN  IF result.ok THEN tree' = result.node /\ stage' = "tree"
           ELSE stage' = "rejected" /\ UNCHANGED tree
    /\ UNCHANGED <<source, lexer, intended, plan, event, verdict>>

CompileTree ==
    /\ stage = "tree"
    /\ plan' = Compile(tree, Scheme)
    /\ stage' = IF plan'.op = "Error" THEN "rejected" ELSE "plan"
    /\ UNCHANGED <<source, lexer, intended, tree, event, verdict>>

EvalPlan(ev) ==
    /\ stage = "plan"
    /\ event' = ev
    /\ verdict' = eval(plan, ev)
    /\ stage' = "verdict"
    /\ UNCHANGED <<source, lexer, intended, tree, plan>>

Next == LexText \/ ParseTokens \/ CompileTree \/ \E ev \in Events : EvalPlan(ev)

Spec == Init /\ [][Next]_vars

-----------------------------------------------------------------------------
(* Properties.                                                             *)

WithoutParens(toks) ==
    LET plain(t) == t.kind \notin {"TLParen", "TRParen"}
        kept == SelectSeq(toks, plain)
    IN  [i \in 1..Len(kept) |-> <<kept[i].kind, kept[i].value>>]

(* The text of a tree is parsed to that tree: precedence, associativity    *)
(* and the placement of strict and brackets are those of the printer.  And *)
(* whatever else is accepted is the text of its tree, but for redundant    *)
(* parentheses: no token is skipped or made up.                            *)
ParsedAsWritten ==
    /\ stage = "tree" =>
         /\ intended # NoTree => tree = intended
         /\ WithoutParens(Lex(Unparse(tree))) = WithoutParens(lexer.tokens)
    /\ stage = "rejected" /\ tree = NoTree => intended = NoTree

(* A call coerces a missing value.                                         *)
RECURSIVE CoercesMissing(_, _)
CoercesMissing(e, ev) ==
    \/ e.op = "Strict" /\ CoercesMissing(e.x, ev)
    \/ /\ e.op = "Call"
       /\ \E i \in 1..Len(e.xs) : \/ CoercesMissing(e.xs[i], ev)
                                  \/ e.name \in Coercions /\ Denotes(e.xs[i], ev) = {}

(* Where eval.go departs from REFERENCE.md: a network under strict on the  *)
(* right, or any on the left, is compared as an address; a mask of another *)
(* length fails; a call with a missing argument is missing; a Bool field   *)
(* is no predicate; and not of what is no Bool fires.                      *)
RECURSIVE Diverges(_, _)
Diverges(e, ev) ==
    \/ e.op = "Cmp" /\ e.r.op = "Strict" /\ Network(e.r)
    \/ e.op \in {"Cmp", "In"} /\ Network(e.l) /\ ~Network(e.r)
    \/ e.op = "BitAnd" /\ \E x \in Denotes(e.l, ev), y \in Denotes(e.r, ev) :
                            {x[1], y[1]} = {"Bytes"} /\ Len(x[2]) # Len(y[2])
    \/ e.op \in Predicates /\ (CoercesMissing(e.l, ev) \/ CoercesMissing(e.r, ev))
    \/ e.op \in {"Field", "Bracket"} /\ <<"Bool", TRUE>> \in Denotes(e, ev)
    \/ e.op = "Not" /\ (Diverges(e.x, ev) \/ (IsValue(e.x) /\ ~IsBool(e.x, ev)))
    \/ e.op = "Strict" /\ Diverges(e.x, ev)
    \/ e.op \in {"And", "Or"} /\ (Diverges(e.l, ev) \/ Diverges(e.r, ev))


Conforms(ev) == \A f \in DOMAIN ev : f \in DOMAIN Scheme /\ ev[f][1] = Scheme[f]

(* The type check earns its keep: in an accepted comparison of typed       *)
(* operands, ne is the negation of eq on every event whose values have the *)
(* kinds the scheme declares and that resolves both operands.  (A kind     *)
(* mismatch at run time makes both false.)                                 *)
NeIsNotEq ==
    LET l == Unwrap(Unwrap(plan).l)
        r == Unwrap(Unwrap(plan).r)
        eq == Compile([tree EXCEPT !.cmp = "eq"], Scheme)
        typed == "Invalid" \notin {nodeKind(l), nodeKind(r)}
        resolved == Denotes(tree.l, event) # {} /\ Denotes(tree.r, event) # {}
    IN  (stage = "verdict" /\ tree.op = "Cmp") =>
          ((tree.cmp = "ne" /\ typed /\ Conforms(event) /\ resolved) =>
             (eq.op # "Error" /\ (verdict <=> ~eval(eq, event))))
=============================================================================
