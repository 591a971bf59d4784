------------------------------ MODULE MCRules -------------------------------
(* Rules of every production over a few fields and literals; addresses are *)
(* 0..3 and "3/1" is the network {2, 3} written with a host bit set.       *)
EXTENDS RuleLanguage

MCLiterals ==
    [TFloat |-> ("1.5" :> 3), TDuration |-> ("5s" :> 5) @@ ("5ms" :> 1),
     TTimestamp |-> ("now" :> 7), TIP |-> ("2" :> 2) @@ ("3" :> 3) @@ ("3/1" :> 3)]

MCNetworks == "3/1" :> {2, 3}

MCScheme == ("n.s" :> "String") @@ ("n.i" :> "Int") @@ ("n.b" :> "Bool")
            @@ ("n.ip" :> "IP") @@ ("n.y" :> "Bytes") @@ ("n.m" :> "Map")

Str(s) == <<"String", s>>

MCEvents ==
    {<<>>,
     ("n.s" :> Str("a")) @@ ("n.i" :> <<"Int", 1>>) @@ ("n.b" :> <<"Bool", TRUE>>)
       @@ ("n.ip" :> <<"IP", 2>>) @@ ("n.y" :> <<"Bytes", <<97>>>>)
       @@ ("n.m" :> <<"Map", ("k" :> Str("a"))>>),
     ("n.s" :> Str("Ab")) @@ ("n.i" :> <<"Int", 2>>) @@ ("n.ip" :> <<"IP", 3>>)
       @@ ("n.y" :> <<"Bytes", <<3>>>>) @@ ("n.m" :> <<"Map", ("k" :> <<"IP", 2>>)>>),
     ("n.s" :> Str("3/1")) @@ ("n.ip" :> <<"IP", 0>>) @@ ("n.b" :> <<"Bool", FALSE>>)
       @@ ("n.y" :> <<"Bytes", <<1, 1>>>>) @@ ("n.m" :> <<"Map", ("j" :> Str("a"))>>),
     ("n.s" :> Str("1.5")) @@ ("n.i" :> <<"Int", -1>>),
     ("n.s" :> <<"Int", 1>>) @@ ("n.ip" :> Str("2")) @@ ("n.m" :> Str("k"))}

F(name) == [op |-> "Field", name |-> name]
S(s) == Lit("String", s)
I(n) == Lit("Int", n)
Call(f, xs) == [op |-> "Call", name |-> f, xs |-> xs]
Strict(x) == [op |-> "Strict", x |-> x]
Not(x) == [op |-> "Not", x |-> x]
Arr(xs) == [op |-> "LitArray", xs |-> xs]
Cmp(cmp, l, r) == [op |-> "Cmp", cmp |-> cmp, l |-> l, r |-> r]
Attr == Binary("Bracket", F("n.m"), S("k"))

Operands ==
    {F("n.s"), F("n.i"), F("n.b"), F("n.ip"), F("n.y"), F("n.x"), S("a"), I(1),
     Lit("Bool", TRUE), LitIP("2"), LitIP("3/1"), Lit("Bytes", <<97>>), Attr,
     Call("lower", <<F("n.s")>>), Call("len", <<F("n.s")>>),
     Strict(S("a")), Strict(LitIP("3/1")), Strict(F("n.s")), Cmp("eq", F("n.i"), I(1))}

Comparisons ==
    {Cmp(cmp, l, r) : cmp \in {"eq", "ne", "lt"}, l \in Operands, r \in Operands}
    \cup {Cmp(cmp, l, r) : cmp \in {"le", "gt", "ge"},
                           l \in {F("n.s"), F("n.i")}, r \in {S("a"), I(1), I(2)}}
    \cup {Cmp("eq", l, l) : l \in {Lit("Float", 3), Lit("Duration", 5),
                                   Lit("Timestamp", 7)}}

Calls ==
    {Call("cidr_matches", <<F("n.ip"), x>>) : x \in {S("3/1"), S("z"), F("n.s"), I(1)}}
    \cup {Call("lower", <<>>), Call("none", <<I(1)>>), F("n.b"), Lit("Bool", TRUE)}
    \cup {Cmp("eq", c, S("a")) :
            c \in {Call("concat", <<>>), Call("concat", <<F("n.s"), S("a")>>),
                   Call("substring", <<F("n.s"), I(0), I(1)>>),
                   Call("substring", <<F("n.s"), I(1), I(9)>>),
                   Call("substring", <<F("n.s"), F("n.i"), I(1)>>),
                   Call("lower", <<Call("upper", <<F("n.s")>>)>>),
                   Call("remove_bytes", <<F("n.s"), S("b")>>),
                   Call("regex_replace", <<F("n.s"), S("A"), S("a")>>),
                   Call("regex_replace", <<F("n.s"), S("("), S("a")>>),
                   Call("regex_replace", <<S("a"), F("n.s"), S("b")>>),
                   Binary("Bracket", F("n.s"), S("k")), Binary("Bracket", Attr, S("k"))}}
    \cup {Cmp("eq", c, I(1)) :
            c \in {Call("to_int", <<F("n.s")>>), Call("to_int", <<F("n.b")>>),
                   Call("to_int", <<Attr>>), Call("ip_to_int", <<F("n.ip")>>),
                   Call("to_int", <<Call("to_float", <<F("n.s")>>)>>),
                   Call("to_int", <<Call("to_float", <<Attr>>)>>),
                   Call("unix_time", <<Lit("Timestamp", 7)>>)}}
    \cup {Cmp("eq", Call("to_int", <<Attr>>), I(0))}

StringTests ==
    {Binary(op, l, r) : op \in {"contains", "starts_with", "ends_with"},
                        l \in {F("n.s"), S("ab"), Attr, Strict(S("a"))},
                        r \in {F("n.s"), S("b"), S(""), I(1)}}
    \cup {Binary(op, l, S(r)) : op \in {"matches", "wildcard"},
                                l \in {F("n.s"), F("n.y"), F("n.i")},
                                r \in {"a", "(", "", "A*", "?b", "*/?"}}

Sets == {Arr(<<>>), Arr(<<S("a"), S("3/1")>>), Arr(<<I(1)>>), Arr(<<I(1), S("a")>>),
         Arr(<<LitIP("2"), LitIP("3/1")>>), Arr(<<F("n.i")>>), Arr(<<Lit("Bool", TRUE)>>)}

Memberships ==
    {Binary("In", x, set) : set \in Sets,
       x \in {F("n.s"), F("n.i"), F("n.ip"), Attr, Strict(Lit("Bool", TRUE)),
              Strict(S("a")), LitIP("2")}}

Masks == {Binary("BitAnd", l, r) : l, r \in {F("n.y"), F("n.s"), Lit("Bytes", <<1>>),
                                             Lit("Bytes", <<97>>), Lit("Bytes", <<1, 1>>)}}

Atoms == {Cmp("eq", F("n.s"), S("a")), Cmp("ne", F("n.i"), I(1)),
          Binary("In", F("n.ip"), Arr(<<LitIP("3/1")>>))}

Logic ==
    LET pairs == {Binary(op, a, b) : op \in {"And", "Or"}, a, b \in Atoms}
        some == {Binary(op, a, b) : op \in {"And", "Or"}, a \in Atoms,
                                    b \in {Not(x) : x \in Atoms}}
    IN  pairs \cup some \cup {Not(x) : x \in pairs \cup some}
        \cup {Binary(op, x, a) : op \in {"And", "Or"}, x \in pairs, a \in Atoms}
        \cup {Binary(op, a, x) : op \in {"And", "Or"}, x \in pairs, a \in Atoms}
        \cup {Not(x) : x \in {F("n.b"), F("n.s"), I(1), Lit("Bool", TRUE), Attr,
                              Call("cidr_matches", <<F("n.ip"), S("3/1")>>)}}
        \cup {Binary(op, F("n.b"), a) : op \in {"And", "Or"}, a \in Atoms}
        \cup {Strict(x) : x \in Atoms \cup {Not(a) : a \in Atoms}}

MCRuleSet == Comparisons \cup Calls \cup StringTests \cup Memberships \cup Masks \cup Logic

Words == {"n.s", "eq", "\"a\"", "ip\"9\"", "(", ")", "and", "or", "not", "strict",
          "[", "]", ",", "in", "99"}

Spaced(ws) ==
    LET upTo[i \in 1..Len(ws)] ==
          IF i = 1 THEN Bytes(ws[1]) ELSE upTo[i - 1] \o <<" ">> \o Bytes(ws[i])
    IN  upTo[Len(ws)]

MCWordTexts ==
    {Spaced(<<a, b>>) : a, b \in Words} \cup {Spaced(<<a, b, c>>) : a, b, c \in Words}
    \cup {Spaced(<<"n.s", "eq", a, b>>) : a, b \in Words}
    \cup {Spaced(<<"n.s", "in", "[", a, b, c>>) : a, b, c \in Words}
    \cup {Spaced(<<"n.s", "(", a, b, c>>) : a, b, c \in {"1", ",", ")", "eq", "[", "]"}}

Fragments == {Bytes(s) : s \in {"", "a", "a.", "or", "ip\"", "0x\"", "\"", "\\", "n", "1",
                                "1e", "0", ".", "5ms", "#", "\r", "\n", " ", "A", "&", "+"}}
             \cup {<<"c2", "b5", "s">>}

MCByteTexts == {a \o b \o c : a, b, c \in Fragments}
=============================================================================
