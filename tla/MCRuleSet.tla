----------------------------- MODULE MCRuleSet ------------------------------
(* Two fields in scope, one in another namespace and one malformed; rules  *)
(* that hold on one, the other or both of two events.                      *)
EXTENDS RuleSet, TLC

CONSTANTS p1, p2, n1, n2, n3, e1, e2

Decl(full, ns, ok) == [full |-> full, ns |-> ns, ok |-> ok]

MCDecls == {Decl("core.s", "core", TRUE), Decl("http._", "http", TRUE),
            Decl("dns.q", "dns", TRUE), Decl("Http._", "Http", FALSE)}

MCNamespaces == {"core", "http", "Http"}

MCExprs == {"s", "m", "q", "bad"}

MCNeeds == [x \in MCExprs |-> CASE x = "s" -> {"core.s"} [] x = "m" -> {"http._", "core.s"}
                                [] x = "q" -> {"dns.q"} [] x = "bad" -> {}]

MCHolds == [x \in MCExprs |-> CASE x = "s" -> {e1, e2} [] x = "m" -> {e2} [] OTHER -> {e1}]

MCBuilderDecls == <<Decl("core.s", "core", TRUE)>>

(* Profiles("Http", "http", "http"): malformed, taken, registered before.  *)
MCMarkers == <<Decl("Http._", "Http", FALSE), Decl("http._", "http", TRUE),
               Decl("http._", "http", TRUE)>>

MCBuilderRules == {[name |-> n1, expr |-> "s"], [name |-> n2, expr |-> "m"],
                   [name |-> n3, expr |-> "q"]}

Symmetry == Permutations({p1, p2})
=============================================================================
