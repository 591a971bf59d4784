------------------------------ MODULE RuleEval ------------------------------
(***************************************************************************)
(* The evaluator of pkg/rule/compiler/eval.go with the function bodies of  *)
(* strings.go, strings_alloc.go, strings_regex.go, ip.go and coerce.go,    *)
(* and the values of pkg/rule/types.go.  An event is a function from the   *)
(* fields it resolves to their values.  The pair (Value, bool) a Go        *)
(* function returns is the set of the value, or {} for not resolved.       *)
(***************************************************************************)
EXTENDS RuleCompiler

(* As<Kind>: the Go zero value when the kind differs.                      *)
AsString(v) == IF v[1] = "String" THEN v[2] ELSE ""

AsInt(v) == IF v[1] = "Int" THEN v[2] ELSE 0

(* Value.Equal: kinds first.                                               *)
Equal(x, y) == x[1] = y[1] /\ x[1] # "Invalid" /\ x[2] = y[2]

(* The byte order of strings.                                              *)
RECURSIVE StringLess(_, _)
StringLess(s, t) ==
    LET order == "/0123456789ABCDEFGHIJKLMNOPQRSTUVWXYZ_abcdefghijklmnopqrstuvwxyz"
        rank(c) == CHOOSE i \in 1..Len(order) : CharAt(order, i) = c
    IN  IF s = "" \/ t = "" THEN t # "" /\ s = ""
        ELSE IF CharAt(s, 1) = CharAt(t, 1) THEN StringLess(Tail(s), Tail(t))
        ELSE rank(CharAt(s, 1)) < rank(CharAt(t, 1))

compareLess(x, y) ==
    IF x[1] = "String" THEN StringLess(x[2], y[2])
    ELSE x[1] \in Orderable /\ x[2] < y[2]

Contains(s, t) ==
    \E i \in 0..(Len(s) - Len(t)) : SubSeq(s, i + 1, i + Len(t)) = t

HasPrefix(s, t) == Len(t) <= Len(s) /\ SubSeq(s, 1, Len(t)) = t

HasSuffix(s, t) ==
    Len(t) <= Len(s) /\ SubSeq(s, Len(s) - Len(t) + 1, Len(s)) = t

(* The anchored regular expression that compileWildcardPattern builds.     *)
RECURSIVE WildcardMatch(_, _)
WildcardMatch(pattern, s) ==
    LET c == CharAt(pattern, 1) IN
    CASE pattern = "" -> s = ""
      [] c = "*" -> \E i \in 0..Len(s) :
                      WildcardMatch(Tail(pattern), SubSeq(s, i + 1, Len(s)))
      [] OTHER -> /\ s # "" /\ c \in {"?", CharAt(s, 1)}
                  /\ WildcardMatch(Tail(pattern), Tail(s))

-----------------------------------------------------------------------------
(* The functions.                                                          *)

(* strings.ToLower and strings.ToUpper: the letters of from become those   *)
(* of to.                                                                  *)
RECURSIVE MapLetters(_, _, _)
MapLetters(s, from, to) ==
    LET at == {i \in 1..Len(from) : CharAt(from, i) = CharAt(s, 1)}
    IN  IF s = "" THEN ""
        ELSE (IF at = {} THEN CharAt(s, 1) ELSE CharAt(to, Min(at))) \o MapLetters(Tail(s), from, to)

evalLower(s) == MapLetters(s, "ABCDEFGHIJKLMNOPQRSTUVWXYZ", "abcdefghijklmnopqrstuvwxyz")

evalUpper(s) == MapLetters(s, "abcdefghijklmnopqrstuvwxyz", "ABCDEFGHIJKLMNOPQRSTUVWXYZ")

RECURSIVE evalRemoveBytes(_, _)
evalRemoveBytes(s, set) ==
    IF s = "" THEN ""
    ELSE (IF Contains(set, CharAt(s, 1)) THEN "" ELSE CharAt(s, 1))
         \o evalRemoveBytes(Tail(s), set)

evalSubstring(s, start, end) ==
    LET first == IF start < 0 THEN 0 ELSE start
        last == IF end > Len(s) THEN Len(s) ELSE end
    IN  IF first >= last THEN "" ELSE SubSeq(s, first + 1, last)

RECURSIVE evalConcat(_)
evalConcat(args) ==
    IF args = <<>> THEN "" ELSE AsString(Head(args)) \o evalConcat(Tail(args))

(* External, regexp.ReplaceAllString for a pattern without operators.      *)
RECURSIVE ReplaceAll(_, _, _)
ReplaceAll(s, pattern, repl) ==
    CASE s = "" -> IF pattern = "" THEN repl ELSE ""
      [] s # "" /\ pattern = "" ->
           repl \o CharAt(s, 1) \o ReplaceAll(Tail(s), pattern, repl)
      [] s # "" /\ pattern # "" /\ HasPrefix(s, pattern) ->
           repl \o ReplaceAll(SubSeq(s, Len(pattern) + 1, Len(s)), pattern, repl)
      [] OTHER -> CharAt(s, 1) \o ReplaceAll(Tail(s), pattern, repl)

(* A pattern that does not compile at run time leaves the subject alone.   *)
evalRegexReplace(s, pattern, repl) ==
    IF RegexCompiles(pattern) THEN ReplaceAll(s, pattern, repl) ELSE s

(* A malformed network at run time contains nothing.                       *)
cidrContainsIP(ip, text) == text \in DOMAIN Networks /\ ip \in Networks[text]

(* strconv.ParseInt of a text; one that is no int64 counts as 0.           *)
ParseInt(s) ==
    LET n == Number(s, Len(s))
    IN  IF s # "" /\ (\A i \in 1..Len(s) : CharAt(s, i) \in Digit) /\ n <= MaxInt
        THEN n ELSE 0

(* Addresses and times are numbers here, and a float is twice its value:   *)
(* truncation is toward zero.                                              *)
evalToInt(v) ==
    CASE v[1] \in {"Int", "IP", "Timestamp", "Duration"} -> v[2]
      [] v[1] = "Float" -> IF v[2] < 0 THEN -((-v[2]) \div 2) ELSE v[2] \div 2
      [] v[1] = "Bool" -> IF v[2] THEN 1 ELSE 0
      [] v[1] = "String" -> ParseInt(v[2])
      [] OTHER -> 0

(* A time has no float.                                                    *)
evalToFloat(v) ==
    CASE v[1] = "Float" -> v[2]
      [] v[1] \in {"Int", "IP"} -> 2 * v[2]
      [] v[1] = "Bool" -> IF v[2] THEN 2 ELSE 0
      [] v[1] = "String" ->
           IF v[2] \in DOMAIN Literals["TFloat"] THEN Literals["TFloat"][v[2]]
           ELSE 2 * ParseInt(v[2])
      [] OTHER -> 0

Apply(f, a) ==
    CASE f = "lower" -> <<"String", evalLower(AsString(a[1]))>>
      [] f = "upper" -> <<"String", evalUpper(AsString(a[1]))>>
      [] f = "len" -> <<"Int", Len(AsString(a[1]))>>
      [] f = "substring" ->
           <<"String", evalSubstring(AsString(a[1]), AsInt(a[2]), AsInt(a[3]))>>
      [] f = "concat" -> <<"String", evalConcat(a)>>
      [] f = "remove_bytes" ->
           <<"String", evalRemoveBytes(AsString(a[1]), AsString(a[2]))>>
      [] f = "regex_replace" ->
           <<"String", evalRegexReplace(AsString(a[1]), AsString(a[2]), AsString(a[3]))>>
      [] f = "to_int" -> <<"Int", evalToInt(a[1])>>
      [] f = "to_float" -> <<"Float", evalToFloat(a[1])>>
      [] f = "unix_time" -> <<"Int", IF a[1][1] = "Timestamp" THEN a[1][2] ELSE 0>>
      [] f = "ip_to_int" -> <<"Int", IF a[1][1] = "IP" THEN a[1][2] ELSE 0>>
      [] f = "cidr_matches" -> <<"Bool", cidrContainsIP(a[1][2], AsString(a[2]))>>

-----------------------------------------------------------------------------
Resolve(name, event) == IF name \in DOMAIN event THEN {event[name]} ELSE {}

(* A predicate has no value; cidr_matches needs an address.                *)
RECURSIVE evalValue(_, _)
evalValue(o, event) ==
    CASE o.op \in {"Lit", "LitIP"} -> {o.v}
      [] o.op = "Field" -> Resolve(o.name, event)
      [] o.op = "Bracket" ->
           {m[2][o.key] : m \in {v \in Resolve(o.name, event) :
                                   v[1] = "Map" /\ o.key \in DOMAIN v[2]}}
      [] o.op = "Strict" -> evalValue(o.x, event)
      [] o.op = "Call" ->
           LET vals == [i \in 1..Len(o.args) |-> evalValue(o.args[i], event)]
               args == [i \in 1..Len(o.args) |-> CHOOSE v \in vals[i] : TRUE]
           IN  IF \/ \E i \in 1..Len(o.args) : vals[i] = {}
                  \/ o.name = "cidr_matches" /\ args[1][1] # "IP"
               THEN {} ELSE {Apply(o.name, args)}
      [] OTHER -> {}

(* Only the right op itself is looked at for a CIDR literal, not what a    *)
(* strict op wraps.                                                        *)
evalCmp(o, event) ==
    \E l \in evalValue(o.l, event), r \in evalValue(o.r, event) :
      IF l[1] = "IP" /\ r[1] = "IP" /\ o.r.op = "LitIP" /\ o.r.cidr
      THEN CASE o.cmp = "eq" -> l[2] \in o.r.net
             [] o.cmp = "ne" -> l[2] \notin o.r.net
             [] OTHER -> FALSE
      ELSE /\ l[1] = r[1]
           /\ CASE o.cmp = "eq" -> Equal(l, r)
                [] o.cmp = "ne" -> ~Equal(l, r)
                [] o.cmp = "lt" -> compareLess(l, r)
                [] o.cmp = "le" -> compareLess(l, r) \/ Equal(l, r)
                [] o.cmp = "gt" -> compareLess(r, l)
                [] o.cmp = "ge" -> compareLess(r, l) \/ Equal(l, r)

(* contains, starts_with, ends_with.                                       *)
evalStringOp(o, event) ==
    \E l \in evalValue(o.l, event), r \in evalValue(o.r, event) :
      /\ l[1] = "String" /\ r[1] = "String"
      /\ CASE o.op = "contains" -> Contains(l[2], r[2])
           [] o.op = "starts_with" -> HasPrefix(l[2], r[2])
           [] o.op = "ends_with" -> HasSuffix(l[2], r[2])

(* Bytes as text: 97 is the letter a, no other byte is in a pattern.       *)
RECURSIVE BytesText(_)
BytesText(b) ==
    IF b = <<>> THEN ""
    ELSE (IF Head(b) = 97 THEN "a" ELSE "-") \o BytesText(Tail(b))

(* A regular expression without operators matches what contains it; an     *)
(* empty wildcard matches nothing.                                         *)
evalPattern(o, event) ==
    \E l \in evalValue(o.l, event) :
      IF o.op = "matches"
      THEN \/ l[1] = "String" /\ Contains(l[2], o.pattern)
           \/ l[1] = "Bytes" /\ Contains(BytesText(l[2]), o.pattern)
      ELSE l[1] = "String" /\ o.pattern # "" /\ WildcardMatch(o.pattern, l[2])


evalIn(o, event) ==
    \E x \in evalValue(o.l, event) : \E i \in 1..Len(o.r.xs) :
      LET e == o.r.xs[i]
      IN  IF x[1] = "IP" /\ e.op = "LitIP" /\ e.cidr THEN x[2] \in e.net
          ELSE Equal(x, e.v)

(* Every bit of the mask r is set in l, byte by byte.                      *)
BitsSet(l, r) == \A bit \in 0..7 : (r \div 2^bit) % 2 <= (l \div 2^bit) % 2

evalBitAnd(o, event) ==
    \E l \in evalValue(o.l, event), r \in evalValue(o.r, event) :
      /\ l[1] = "Bytes" /\ r[1] = "Bytes" /\ Len(l[2]) = Len(r[2])
      /\ \A i \in 1..Len(l[2]) : BitsSet(l[2][i], r[2][i])

(* The verdict of a plan.  A field, even a boolean one, is no predicate.   *)
RECURSIVE eval(_, _)
eval(o, event) ==
    CASE o.op = "Lit" -> o.v = <<"Bool", TRUE>>
      [] o.op = "And" -> eval(o.l, event) /\ eval(o.r, event)
      [] o.op = "Or" -> eval(o.l, event) \/ eval(o.r, event)
      [] o.op = "Not" -> ~eval(o.x, event)
      [] o.op = "Strict" -> eval(o.x, event)
      [] o.op = "Cmp" -> evalCmp(o, event)
      [] o.op \in {"contains", "starts_with", "ends_with"} -> evalStringOp(o, event)
      [] o.op \in {"matches", "wildcard"} -> evalPattern(o, event)
      [] o.op = "In" -> evalIn(o, event)
      [] o.op = "BitAnd" -> evalBitAnd(o, event)
      [] o.op = "Call" -> \E v \in evalValue(o, event) : v = <<"Bool", TRUE>>
      [] OTHER -> FALSE
=============================================================================
