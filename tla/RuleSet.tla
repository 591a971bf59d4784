------------------------------ MODULE RuleSet -------------------------------
(***************************************************************************)
(* The field catalog, the rule set and its builder: pkg/rule/scheme.go,    *)
(* pkg/rule/ruleset/ruleset.go and pkg/rule/builder/builder.go.            *)
(*                                                                         *)
(* Processes register fields, build the rule set, change its rules and     *)
(* match events, all at once.  What compiling and evaluating a rule means  *)
(* is the subject of RuleLanguage; here an expression is known by the      *)
(* fields it needs and by the events it holds on.  Calls that fail and     *)
(* change nothing, and the calls that only read (Fields, Has, Rules), are  *)
(* stutters.                                                               *)
(***************************************************************************)
EXTENDS Integers, Sequences, FiniteSets

CONSTANTS
    Procs, Names, Exprs, Events,
    Decls,          \* the fields that may be registered: [full, ns, ok]
    Namespaces,     \* the profile, core and the extra profiles
    Needs,          \* [Exprs -> sets of full names]
    Malformed,      \* the expressions parser.Parse rejects
    Holds,          \* [Exprs -> sets of events]
    BuilderDecls,   \* what a builder registers: the core fields, its Field calls
    Markers,        \* the marker fields of its Profiles calls
    BuilderRules,   \* the map given to CompileRules: pairs of name, expression
    None,           \* no process, no call
    MaxSlots,       \* bound on the number of successful Adds
    MaxMatches      \* bound on the number of matches

ASSUME NeedsAssumption == Needs \in [Exprs -> SUBSET {d.full : d \in Decls}]
ASSUME HoldsAssumption == Holds \in [Exprs -> SUBSET Events]
ASSUME NoneAssumption == None \notin Procs
ASSUME BuilderAssumption ==
    /\ BuilderDecls \in Seq(Decls) /\ Markers \in Seq(Decls)
    /\ BuilderRules \subseteq [name : Names, expr : Exprs]
    /\ IsFiniteSet(BuilderRules)
    /\ \A r, s \in BuilderRules : r.name = s.name => r = s

VARIABLES
    catalog,   \* Catalog.fields, a set of declarations
    rev,       \* Catalog.rev
    locked,    \* the process that holds Catalog.mu, or None
    private,   \* the catalog belongs to a builder
    scheme,    \* RuleSet.scheme: [built, fields, rev]
    rules,     \* RuleSet.rules: a sequence of [name, expr, matches]
    pc, call, at,  \* what a process does, on what, its place in a walk
    slots, matched, \* how many Adds and matches there were
    order,     \* history: the declarations in the order they were inserted
    answers    \* history: how often Match answered a name since its Add

vars == <<catalog, rev, locked, private, scheme, rules, pc, call, at,
          slots, matched, order, answers>>

catalogVars == <<catalog, rev, locked, private, scheme, order>>
rulesVars == <<rules, slots, matched, answers>>

Slot == [name : Names, expr : Exprs, matches : Nat]
Call == [name : Names, expr : Exprs]

-----------------------------------------------------------------------------
(* The catalog.                                                            *)

Registered(full) == \E d \in catalog : d.full = full

(* The validation of Register: an invalid namespace, name or type.         *)
WellFormed(d) == d.ok

(* Register up to the insertion, with the lock held.                       *)
Register(p, d) ==
    /\ pc[p] = "idle" /\ locked = None /\ ~private
    /\ WellFormed(d) /\ ~Registered(d.full)
    /\ locked' = p
    /\ catalog' = catalog \cup {d}
    /\ order' = Append(order, d)
    /\ pc' = [pc EXCEPT ![p] = "bump"]
    /\ UNCHANGED <<rev, private, scheme, call, at, rulesVars>>

(* The rest of Register: the revision, which Revision reads without the    *)
(* lock, is raised, and the lock released.                                 *)
RegisterBump(p) ==
    /\ pc[p] = "bump"
    /\ rev' = rev + 1
    /\ locked' = None
    /\ pc' = [pc EXCEPT ![p] = "idle"]
    /\ UNCHANGED <<catalog, private, scheme, order, call, at, rulesVars>>

(* Mutant: the snapshot is taken without the lock.                         *)
LockFree == TRUE

(* The read lock of Project can be taken.                                  *)
ReadLock == locked = None

Project(fields, revision) ==
    [built |-> TRUE, fields |-> {d \in fields : d.ns \in Namespaces}, rev |-> revision]

(* ruleset.New on the shared catalog.                                      *)
New(p) ==
    /\ pc[p] = "idle" /\ ReadLock /\ ~scheme.built
    /\ scheme' = Project(catalog, rev)
    /\ UNCHANGED <<catalog, rev, locked, private, order, pc, call, at, rulesVars>>

-----------------------------------------------------------------------------
(* The rules.                                                              *)

(* compileExpr, against the scheme captured at construction.               *)
Compiles(expr, sch) ==
    expr \notin Malformed /\ Needs[expr] \subseteq {d.full : d \in sch.fields}

IndexOf(name) == {i \in 1..Len(rules) : rules[i].name = name}

(* The markers Register takes: Ruleset ignores the error of a malformed    *)
(* one, and of one registered before.                                      *)
Kept == {i \in 1..Len(Markers) :
           /\ WellFormed(Markers[i])
           /\ \A j \in 1..Len(BuilderDecls) : BuilderDecls[j].full # Markers[i].full
           /\ \A j \in 1..(i - 1) :
                WellFormed(Markers[j]) => Markers[j].full # Markers[i].full}

(* Builder.New, Field, Profiles, Ruleset and CompileRules, on a catalog    *)
(* nobody else knows.  Ruleset fails on a field that cannot be registered. *)
(* CompileRules ranges over a map, in any order, and stops at the first    *)
(* rule that does not compile: the rules before it are in the set.         *)
Build ==
    /\ ~scheme.built /\ catalog = {} /\ locked = None
    /\ \A i \in 1..Len(BuilderDecls) :
         /\ WellFormed(BuilderDecls[i])
         /\ \A j \in 1..(i - 1) : BuilderDecls[i].full # BuilderDecls[j].full
    /\ private' = TRUE
    /\ \E nth \in [1..Cardinality(Kept) -> Kept] :
         /\ \A i, j \in 1..Cardinality(Kept) : i < j => nth[i] < nth[j]
         /\ order' = BuilderDecls \o [i \in 1..Cardinality(Kept) |-> Markers[nth[i]]]
    /\ catalog' = {order'[i] : i \in 1..Len(order')}
    /\ rev' = Len(order')
    /\ scheme' = Project(catalog', rev')
    /\ \E n \in 0..Cardinality(BuilderRules) : \E seq \in [1..n -> BuilderRules] :
         /\ \A i, j \in 1..n : i # j => seq[i] # seq[j]
         /\ \A i \in 1..n : Compiles(seq[i].expr, scheme')
         /\ \/ n = Cardinality(BuilderRules)
            \/ \E r \in BuilderRules : ~Compiles(r.expr, scheme')
         /\ rules' = [i \in 1..n |-> [name |-> seq[i].name, expr |-> seq[i].expr,
                                      matches |-> 0]]
         /\ slots' = n
    /\ UNCHANGED <<locked, pc, call, at, matched, answers>>

(* Add and Replace up to the lock: the expression is compiled, a bad one   *)
(* is returned as an error.                                                *)
Begin(p, c, what) ==
    /\ pc[p] = "idle" /\ scheme.built
    /\ Compiles(c.expr, scheme)
    /\ pc' = [pc EXCEPT ![p] = what]
    /\ call' = [call EXCEPT ![p] = c]
    /\ UNCHANGED <<catalogVars, at, rulesVars>>

(* Mutant: a reader does not keep writers out.                             *)
NoExclusion == TRUE

(* RuleSet.mu is free for a writer: no Match holds it for reading.         *)
WriteLock == \A p \in Procs : pc[p] # "walk"

Return(p) ==
    /\ pc' = [pc EXCEPT ![p] = "idle"]
    /\ call' = [call EXCEPT ![p] = None]
    /\ at' = [at EXCEPT ![p] = 1]
    /\ UNCHANGED catalogVars

(* Mutant: the name is not looked up again after the expression has been   *)
(* compiled.                                                               *)
AddUnchecked(p) ==
    /\ pc[p] = "add" /\ WriteLock /\ slots < MaxSlots
    /\ rules' = Append(rules, [name |-> call[p].name, expr |-> call[p].expr, matches |-> 0])
    /\ answers' = [answers EXCEPT ![call[p].name] = 0]
    /\ slots' = slots + 1
    /\ Return(p) /\ UNCHANGED matched

(* The rest of Add; a name that is taken is ErrRuleExists.                 *)
Add(p) ==
    /\ pc[p] = "add" /\ WriteLock /\ slots < MaxSlots
    /\ LET c == call[p]
       IN  IF IndexOf(c.name) # {} THEN UNCHANGED rulesVars
           ELSE /\ rules' = Append(rules, [name |-> c.name, expr |-> c.expr, matches |-> 0])
                /\ answers' = [answers EXCEPT ![c.name] = 0]
                /\ slots' = slots + 1
                /\ UNCHANGED matched
    /\ Return(p)

(* Mutant: the counter starts again.                                       *)
ReplaceReset(p) ==
    /\ pc[p] = "replace" /\ WriteLock
    /\ rules' = [i \in 1..Len(rules) |->
                   IF rules[i].name = call[p].name
                   THEN [rules[i] EXCEPT !.expr = call[p].expr, !.matches = 0]
                   ELSE rules[i]]
    /\ Return(p) /\ UNCHANGED <<slots, matched, answers>>

(* The rest of Replace; without such a rule it is ErrRuleNotFound.         *)
Replace(p) ==
    /\ pc[p] = "replace" /\ WriteLock
    /\ rules' = [i \in 1..Len(rules) |->
                   IF rules[i].name = call[p].name
                   THEN [rules[i] EXCEPT !.expr = call[p].expr] ELSE rules[i]]
    /\ Return(p) /\ UNCHANGED <<slots, matched, answers>>

Remove(p, name) ==
    /\ pc[p] = "idle" /\ scheme.built /\ WriteLock
    /\ \E i \in IndexOf(name) :
         rules' = [j \in 1..(Len(rules) - 1) |-> rules[IF j < i THEN j ELSE j + 1]]
    /\ UNCHANGED <<catalogVars, pc, call, at, slots, matched, answers>>

(* Match takes the read lock ...                                           *)
Match(p, ev) ==
    /\ pc[p] = "idle" /\ scheme.built
    /\ pc' = [pc EXCEPT ![p] = "walk"]
    /\ call' = [call EXCEPT ![p] = ev]
    /\ UNCHANGED <<catalogVars, rulesVars, at>>

(* ... and walks the rules: one that does not hold is passed,              *)
MatchNext(p) ==
    /\ pc[p] = "walk" /\ at[p] <= Len(rules)
    /\ call[p] \notin Holds[rules[at[p]].expr]
    /\ at' = [at EXCEPT ![p] = @ + 1]
    /\ UNCHANGED <<catalogVars, rulesVars, pc, call>>

(* one that holds is counted and answered,                                 *)
MatchFound(p) ==
    /\ pc[p] = "walk" /\ at[p] <= Len(rules) /\ matched < MaxMatches
    /\ call[p] \in Holds[rules[at[p]].expr]
    /\ rules' = [rules EXCEPT ![at[p]].matches = @ + 1]
    /\ answers' = [answers EXCEPT ![rules[at[p]].name] = @ + 1]
    /\ matched' = matched + 1
    /\ Return(p) /\ UNCHANGED slots

(* and after the last one there is no answer.                              *)
MatchNone(p) ==
    /\ pc[p] = "walk" /\ at[p] > Len(rules)
    /\ Return(p) /\ UNCHANGED rulesVars

-----------------------------------------------------------------------------
Init ==
    /\ catalog = {} /\ rev = 0 /\ locked = None /\ private = FALSE /\ order = <<>>
    /\ scheme = [built |-> FALSE, fields |-> {}, rev |-> 0]
    /\ rules = <<>> /\ slots = 0 /\ matched = 0
    /\ pc = [p \in Procs |-> "idle"]
    /\ call = [p \in Procs |-> None]
    /\ at = [p \in Procs |-> 1]
    /\ answers = [n \in Names |-> 0]

Step(p) ==
    \/ \E d \in Decls : Register(p, d)
    \/ RegisterBump(p)
    \/ New(p)
    \/ \E c \in Call, what \in {"add", "replace"} : Begin(p, c, what)
    \/ Add(p)
    \/ Replace(p)
    \/ \E n \in Names : Remove(p, n)
    \/ \E ev \in Events : Match(p, ev)
    \/ MatchNext(p)
    \/ MatchFound(p)
    \/ MatchNone(p)

Next == Build \/ \E p \in Procs : Step(p)

Spec == Init /\ [][Next]_vars

-----------------------------------------------------------------------------
(* Properties.                                                             *)

(* A name stands for one rule at most, though Add looks for it only after  *)
(* the expression was compiled without the lock.                           *)
UniqueNames ==
    \A i, j \in 1..Len(rules) : rules[i].name = rules[j].name => i = j

(* First match wins: while a Match walks, no rule of the set that stands   *)
(* before its place holds on its event, whatever the others do.            *)
FirstMatchWins ==
    \A p \in Procs : pc[p] = "walk" =>
      \A i \in 1..Len(rules) :
        i < at[p] => call[p] \notin Holds[rules[i].expr]

(* Stats reports for every loaded name how often Match answered it since   *)
(* it was added: Replace keeps the counter, a new Add starts another.      *)
StatsCountAnswers ==
    \A i \in 1..Len(rules) : rules[i].matches = answers[rules[i].name]

(* A scheme is the catalog at its revision: the fields it has are those of *)
(* the first rev registrations, and no rule in the set needs another one.  *)
SchemeIsSnapshot ==
    /\ scheme.built =>
         /\ scheme.rev <= Len(order)
         /\ scheme.fields = {d \in {order[i] : i \in 1..scheme.rev} : d.ns \in Namespaces}
    /\ \A i \in 1..Len(rules) : Compiles(rules[i].expr, scheme)
=============================================================================
