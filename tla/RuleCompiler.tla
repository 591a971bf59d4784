---------------------------- MODULE RuleCompiler ----------------------------
(***************************************************************************)
(* The compiler of pkg/rule/compiler/compiler.go: an AST of RuleParser and *)
(* a scheme (a function from the field names to their kinds) give a plan,  *)
(* a tree of ops, or an error code.  Positions and messages are left out.  *)
(* Scalar literals, And, Or and Not keep the shape of their node.          *)
(***************************************************************************)
EXTENDS RuleParser

(* The function table: parameter kinds, result kind, whether the last      *)
(* parameter repeats.  "Any" is KindInvalid in ParamKinds.  The clock and   *)
(* the functions that are one call of a text library are left out.         *)
FuncSpec(params, ret, variadic) == [params |-> params, ret |-> ret, variadic |-> variadic]

Lookup ==
    [f \in {"lower", "upper", "len", "substring", "concat", "remove_bytes", "to_int",
            "to_float", "ip_to_int", "unix_time", "regex_replace", "cidr_matches"} |->
       CASE f \in {"lower", "upper"} -> FuncSpec(<<"String">>, "String", FALSE)
         [] f = "len" -> FuncSpec(<<"String">>, "Int", FALSE)
         [] f = "substring" -> FuncSpec(<<"String", "Int", "Int">>, "String", FALSE)
         [] f = "concat" -> FuncSpec(<<"String">>, "String", TRUE)
         [] f = "remove_bytes" -> FuncSpec(<<"String", "String">>, "String", FALSE)
         [] f = "to_int" -> FuncSpec(<<"Any">>, "Int", FALSE)
         [] f = "to_float" -> FuncSpec(<<"Any">>, "Float", FALSE)
         [] f = "unix_time" -> FuncSpec(<<"Timestamp">>, "Int", FALSE)
         [] f = "ip_to_int" -> FuncSpec(<<"IP">>, "Int", FALSE)
         [] f = "regex_replace" -> FuncSpec(<<"String", "String", "String">>, "String", FALSE)
         [] f = "cidr_matches" -> FuncSpec(<<"IP", "String">>, "Bool", FALSE)]

(* External, package regexp: the patterns in use have no operator, and     *)
(* those with a parenthesis do not compile.                                *)
RegexCompiles(pattern) == \A i \in 1..Len(pattern) : CharAt(pattern, i) # "("

Orderable == {"Int", "Float", "String", "Timestamp", "Duration"}

Predicates == {"Cmp", "In", "BitAnd"} \cup StringOps

Error(code) == [op |-> "Error", code |-> code]

(* The operands are compiled from left to right, the first error returned. *)
Compiled(o, next) == IF o.op = "Error" THEN o ELSE next

Check(cond, code, o) == IF cond THEN o ELSE Error(code)

-----------------------------------------------------------------------------
(* The kind of the value an op yields; "Invalid" for a bracket access.     *)
nodeKind(o) ==
    CASE o.op \in {"Lit", "LitIP"} -> o.v[1]
      [] o.op = "LitArray" -> "Array"
      [] o.op = "Field" -> o.kind
      [] o.op = "Bracket" -> "Invalid"
      [] o.op = "Call" -> Lookup[o.name].ret
      [] OTHER -> "Bool"

Unwrap(o) == IF o.op = "Strict" THEN o.x ELSE o

(* Mutant: the kinds of the two operands are not compared.                 *)
checkCmpOperandsLoose(cmp, l, r) ==
    LET k == nodeKind(Unwrap(l))
    IN  cmp \in {"eq", "ne"} \/ k \in Orderable

(* eq and ne accept a bracket access on either side, an order does not.    *)
checkCmpOperands(cmp, l, r) ==
    LET lk == nodeKind(Unwrap(l))
        rk == nodeKind(Unwrap(r))
    IN  IF cmp \in {"eq", "ne"} THEN lk = rk \/ "Invalid" \in {lk, rk}
        ELSE lk = rk /\ lk \in Orderable

(* A strict operand makes the whole op strict, and stays in it.            *)
Hoist(o, operands) ==
    IF \E x \in operands : x.op = "Strict" THEN [op |-> "Strict", x |-> o] ELSE o

compileCmp(cmp, l, r) ==
    Check(checkCmpOperands(cmp, l, r), "type_mismatch",
          Hoist([op |-> "Cmp", cmp |-> cmp, l |-> l, r |-> r], {l, r}))

(* contains, starts_with, ends_with.                                       *)
compileStringOp(op, l, r) ==
    Check(nodeKind(l) = "String" /\ nodeKind(r) = "String", "type_mismatch",
          Hoist(Binary(op, l, r), {l, r}))

(* The pattern of matches is compiled now, that of wildcard at first use.  *)
compilePattern(op, l, pattern) ==
    LET literal == pattern.op = "Lit" /\ pattern.v[1] = "String"
        kinds == IF op = "matches" THEN {"String", "Bytes"} ELSE {"String"}
        code == IF op = "matches" THEN "bad_regex" ELSE "type_mismatch"
    IN  Check(nodeKind(l) \in kinds, "type_mismatch",
          Check(literal, code,
            Check(op = "matches" => RegexCompiles(pattern.v[2]), code,
                  [op |-> op, l |-> l, pattern |-> pattern.v[2]])))

(* The set has one kind, the kind of the element.                          *)
compileIn(element, set) ==
    LET kinds == {nodeKind(set.xs[i]) : i \in 1..Len(set.xs)}
    IN  Check(kinds = {nodeKind(element)}, "type_mismatch",
              Hoist(Binary("In", element, set), {element}))

compileBitAnd(l, r) ==
    LET lits == {x \in {l, r} : x.op = "Lit"}
    IN  Check(/\ nodeKind(l) = "Bytes" /\ nodeKind(r) = "Bytes"
              /\ \A x, y \in lits : Len(x.v[2]) = Len(y.v[2]), "type_mismatch",
              Binary("BitAnd", l, r))

compileStrict(o) ==
    Check(o.op \in Predicates \cup {"Lit", "LitIP"}, "bad_strict_placement",
          [op |-> "Strict", x |-> o])

compileLitIP(n) ==
    [op |-> "LitIP", v |-> n.v,
     net |-> IF n.cidr THEN Networks[n.raw] ELSE {}, cidr |-> n.cidr]

compileLitArray(n) ==
    LET literal(x) == x.op \in {"Lit", "LitIP"}
    IN  Check(\A i \in 1..Len(n.xs) : literal(n.xs[i]), "bad_array_element",
              [op |-> "LitArray",
               xs |-> [i \in 1..Len(n.xs) |->
                         IF n.xs[i].op = "Lit" THEN n.xs[i]
                         ELSE compileLitIP(n.xs[i])]])

compileFieldRef(n, sch) ==
    IF n.name \in DOMAIN sch
    THEN [op |-> "Field", name |-> n.name, kind |-> sch[n.name]]
    ELSE Error("unknown_field")

compileBracketAccess(n, sch) ==
    LET field == compileFieldRef(n.l, sch)
        key == n.r
    IN  Check(n.l.op = "Field", "bad_bracket_access",
          Compiled(field,
            Check(field.kind = "Map" /\ key.op = "Lit" /\ key.v[1] = "String",
                  "bad_bracket_access",
                  [op |-> "Bracket", name |-> field.name, key |-> key.v[2]])))

(* A literal pattern of regex_replace and a literal network of             *)
(* cidr_matches must be well-formed; another argument is left to run time. *)
compileRegexReplace(args) ==
    Check(args[2].op = "Lit" => RegexCompiles(args[2].v[2]), "bad_regex",
          [op |-> "Call", name |-> "regex_replace", args |-> args])

compileCIDRMatcher(args) ==
    Check(args[2].op = "Lit" => args[2].v[2] \in DOMAIN Networks, "invalid_literal",
          [op |-> "Call", name |-> "cidr_matches", args |-> args])

(* The arity, then the arguments from left to right; args are compiled.    *)
compileFuncCall(name, args) ==
    LET spec == Lookup[name]
        n == Len(spec.params)
        want(i) == spec.params[IF i < n THEN i ELSE n]
        errors == {i \in 1..Len(args) :
                     \/ args[i].op = "Error"
                     \/ want(i) # "Any" /\ nodeKind(args[i]) # want(i)}
        first == args[Min(errors)]
    IN  IF name \notin DOMAIN Lookup THEN Error("unknown_function")
        ELSE Check(IF spec.variadic THEN Len(args) >= n - 1 ELSE Len(args) = n,
                   "bad_func_arity",
               CASE errors # {} ->
                      Compiled(first, Error("bad_func_arg_type"))
                 [] errors = {} /\ name = "regex_replace" -> compileRegexReplace(args)
                 [] errors = {} /\ name = "cidr_matches" -> compileCIDRMatcher(args)
                 [] OTHER -> [op |-> "Call", name |-> name, args |-> args])

RECURSIVE compileNode(_, _)
compileNode(n, sch) ==
    LET x == compileNode(n.x, sch)
        l == compileNode(n.l, sch)
        r == compileNode(n.r, sch)
        both(next) == Compiled(l, Compiled(r, next))
    IN  CASE n.op = "Lit" -> n
          [] n.op = "LitIP" -> compileLitIP(n)
          [] n.op = "LitArray" -> compileLitArray(n)
          [] n.op = "Field" -> compileFieldRef(n, sch)
          [] n.op = "Bracket" -> compileBracketAccess(n, sch)
          [] n.op = "Call" ->
               compileFuncCall(n.name, [i \in 1..Len(n.xs) |-> compileNode(n.xs[i], sch)])
          [] n.op \in {"And", "Or"} -> both(Binary(n.op, l, r))
          [] n.op = "Not" -> Compiled(x, [op |-> "Not", x |-> x])
          [] n.op = "Cmp" -> both(compileCmp(n.cmp, l, r))
          [] n.op \in {"contains", "starts_with", "ends_with"} ->
               both(compileStringOp(n.op, l, r))
          [] n.op \in {"matches", "wildcard"} -> Compiled(l, compilePattern(n.op, l, n.r))
          [] n.op = "In" -> both(compileIn(l, r))
          [] n.op = "BitAnd" -> both(compileBitAnd(l, r))
          [] n.op = "Strict" -> Compiled(x, compileStrict(x))

(* NewCompiler and Compile.                                                *)
Compile(ast, sch) == compileNode(ast, sch)
=============================================================================
