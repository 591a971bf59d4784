--------------------------- MODULE RuleSetProofs ----------------------------
(***************************************************************************)
(* The invariants of RuleSet hold for any processes, rules and fields.     *)
(***************************************************************************)
EXTENDS RuleSet, FiniteSetTheorems, TLAPS

TypeInv ==
    /\ catalog \subseteq Decls /\ rev \in Nat /\ private \in BOOLEAN
    /\ locked \in Procs \cup {None}
    /\ scheme \in [built : BOOLEAN, fields : SUBSET Decls, rev : Nat]
    /\ order \in Seq(Decls)
    /\ rules \in Seq(Slot)
    /\ pc \in [Procs -> {"idle", "bump", "add", "replace", "walk"}]
    /\ call \in [Procs -> Call \cup Events \cup {None}]
    /\ at \in [Procs -> Nat \ {0}]
    /\ answers \in [Names -> Nat]

(* The catalog is what was inserted, and its revision lags one behind only *)
(* while the lock is held.                                                 *)
CatalogInv ==
    /\ catalog = {order[i] : i \in 1..Len(order)}
    /\ rev = IF locked = None THEN Len(order) ELSE Len(order) - 1
    /\ \A p \in Procs : pc[p] = "bump" <=> locked = p

(* Before the rule set is built nothing of it is used, and a call in       *)
(* flight holds an expression that compiled against its scheme.            *)
CallInv ==
    /\ ~scheme.built => rules = <<>> /\ answers = [n \in Names |-> 0]
    /\ \A p \in Procs :
         /\ pc[p] \in {"add", "replace", "walk"} => scheme.built
         /\ pc[p] \in {"add", "replace"} =>
              call[p] \in Call /\ Compiles(call[p].expr, scheme)
         /\ pc[p] # "walk" => at[p] = 1

IInv == /\ TypeInv /\ CatalogInv /\ CallInv
        /\ UniqueNames /\ FirstMatchWins /\ StatsCountAnswers /\ SchemeIsSnapshot

-----------------------------------------------------------------------------
(* Before the first call everything holds.                                 *)
LEMMA InitIInv == Init => IInv
<1> SUFFICES ASSUME Init PROVE IInv
  OBVIOUS
<1> USE DEF Init
<1>1. TypeInv
  <2>1. rules \in Seq(Slot) /\ order \in Seq(Decls)
    OBVIOUS
  <2>2. scheme \in [built : BOOLEAN, fields : SUBSET Decls, rev : Nat]
    OBVIOUS
  <2>3. call \in [Procs -> Call \cup Events \cup {None}]
    OBVIOUS
  <2>4. private \in BOOLEAN /\ locked \in Procs \cup {None} /\ catalog \subseteq Decls
    OBVIOUS
  <2>5. /\ pc \in [Procs -> {"idle", "bump", "add", "replace", "walk"}]
        /\ at \in [Procs -> Nat \ {0}] /\ answers \in [Names -> Nat] /\ rev \in Nat
    OBVIOUS
  <2> HIDE DEF Init
  <2> QED
    BY <2>1, <2>2, <2>3, <2>4, <2>5 DEF TypeInv
<1>2. CatalogInv
  BY NoneAssumption DEF CatalogInv
<1>3. CallInv
  BY DEF CallInv
<1>4. UniqueNames /\ FirstMatchWins /\ StatsCountAnswers /\ SchemeIsSnapshot
  BY DEF UniqueNames, FirstMatchWins, StatsCountAnswers, SchemeIsSnapshot
<1> QED
  BY <1>1, <1>2, <1>3, <1>4 DEF IInv

(* A step that leaves scheme and catalog alone and stores nothing but      *)
(* compiled expressions keeps the snapshot.                                *)
LEMMA SnapshotKept ==
    ASSUME SchemeIsSnapshot, scheme' = scheme, order' = order,
           \A i \in 1..Len(rules') : Compiles(rules'[i].expr, scheme)
    PROVE  SchemeIsSnapshot'
<1>1. \A i \in 1..Len(rules') : Compiles(rules'[i].expr, scheme')
  OBVIOUS
<1>2. scheme'.built =>
        /\ scheme'.rev <= Len(order')
        /\ scheme'.fields = {d \in {order'[i] : i \in 1..scheme'.rev} : d.ns \in Namespaces}
  BY DEF SchemeIsSnapshot
<1> QED
  BY <1>1, <1>2 DEF SchemeIsSnapshot

(* A step that leaves scheme, order and rules alone keeps the snapshot.    *)
LEMMA SnapshotUntouched ==
    ASSUME SchemeIsSnapshot, scheme' = scheme, order' = order, rules' = rules
    PROVE  SchemeIsSnapshot'
BY SnapshotKept DEF SchemeIsSnapshot

(* The steps on the catalog leave the rules alone, and a scheme that was   *)
(* taken stays the snapshot it was.                                        *)
LEMMA RegisterStep ==
    ASSUME IInv, NEW p \in Procs, NEW d \in Decls, Register(p, d)
    PROVE  IInv'
<1> USE DEF IInv, Register, rulesVars
<1>1. TypeInv'
  BY DEF TypeInv
<1>2. /\ Len(order') = Len(order) + 1
      /\ \A i \in 1..Len(order) : order'[i] = order[i]
      /\ order'[Len(order) + 1] = d
  BY DEF TypeInv
<1>3. CatalogInv'
  <2>1. catalog' = {order'[i] : i \in 1..Len(order')}
    <3> DEFINE m == Len(order)
    <3>1. m \in Nat /\ catalog = {order[i] : i \in 1..m} /\ catalog' = catalog \cup {d}
      BY DEF TypeInv, CatalogInv
    <3>2. 1..Len(order') = 1..m \cup {m + 1} /\ m + 1 \in 1..Len(order')
      BY <1>2, <3>1
    <3> HIDE DEF m, Register, IInv
    <3>3. (\A i \in 1..m : order'[i] = order[i]) /\ order'[m + 1] = d
      BY <1>2 DEF m
    <3> QED
      BY <3>1, <3>2, <3>3
  <2>2. rev' = Len(order') - 1 /\ locked' # None
    BY <1>2, NoneAssumption DEF TypeInv, CatalogInv
  <2>3. \A q \in Procs : pc'[q] = "bump" <=> locked' = q
    BY NoneAssumption DEF TypeInv, CatalogInv
  <2> QED
    BY <2>1, <2>2, <2>3 DEF CatalogInv
<1>4. CallInv'
  BY DEF CallInv, TypeInv, Compiles
<1>5. UniqueNames' /\ FirstMatchWins' /\ StatsCountAnswers'
  BY DEF UniqueNames, FirstMatchWins, StatsCountAnswers, TypeInv
<1>6. SchemeIsSnapshot'
  <2>1. ASSUME scheme.built
        PROVE  /\ scheme.rev <= Len(order')
               /\ {order'[i] : i \in 1..scheme.rev} = {order[i] : i \in 1..scheme.rev}
    BY <1>2, <2>1 DEF SchemeIsSnapshot, TypeInv
  <2> QED
    BY <2>1 DEF SchemeIsSnapshot, Compiles
<1> QED
  BY <1>1, <1>3, <1>4, <1>5, <1>6

(* Register's second step, the revision, keeps the invariant.              *)
LEMMA BumpStep ==
    ASSUME IInv, NEW p \in Procs, RegisterBump(p)
    PROVE  IInv'
<1> USE DEF IInv, RegisterBump, rulesVars
<1>1. TypeInv'
  BY DEF TypeInv
<1>2. CatalogInv'
  BY NoneAssumption DEF CatalogInv, TypeInv
<1>3. CallInv'
  BY DEF CallInv, TypeInv, Compiles
<1>4. UniqueNames' /\ FirstMatchWins' /\ StatsCountAnswers'
  BY DEF UniqueNames, FirstMatchWins, StatsCountAnswers, TypeInv
<1>5. SchemeIsSnapshot'
  BY SnapshotUntouched
<1> QED
  BY <1>1, <1>2, <1>3, <1>4, <1>5

(* New takes the snapshot under the lock.                                  *)
LEMMA NewStep ==
    ASSUME IInv, NEW p \in Procs, New(p)
    PROVE  IInv'
<1> USE DEF IInv, New, rulesVars, ReadLock, Project
<1>1. TypeInv'
  BY DEF TypeInv
<1>2. CatalogInv'
  BY DEF CatalogInv
<1>3. CallInv'
  BY DEF CallInv
<1>4. UniqueNames' /\ FirstMatchWins' /\ StatsCountAnswers'
  BY DEF UniqueNames, FirstMatchWins, StatsCountAnswers
<1>5. SchemeIsSnapshot'
  BY DEF SchemeIsSnapshot, CatalogInv, CallInv, TypeInv
<1> QED
  BY <1>1, <1>2, <1>3, <1>4, <1>5

(* What the builder registers is a sequence of declarations.               *)
LEMMA BuildOrder ==
    ASSUME Build
    PROVE  order' \in Seq(Decls) /\ Len(order') \in Nat
<1>1. IsFiniteSet(1..Len(Markers)) /\ Kept \subseteq 1..Len(Markers)
  BY FS_Interval, BuilderAssumption DEF Kept
<1>2. Cardinality(Kept) \in Nat
  BY <1>1, FS_Subset, FS_CardinalityType
<1>3. PICK nth \in [1..Cardinality(Kept) -> Kept] :
        order' = BuilderDecls \o [i \in 1..Cardinality(Kept) |-> Markers[nth[i]]]
  BY DEF Build
<1> DEFINE tail == [i \in 1..Cardinality(Kept) |-> Markers[nth[i]]]
<1>4. \A i \in 1..Cardinality(Kept) : Markers[nth[i]] \in Decls
  <2> TAKE i \in 1..Cardinality(Kept)
  <2>1. nth[i] \in 1..Len(Markers)
    BY <1>1
  <2> QED
    BY <2>1, BuilderAssumption
<1>5. tail \in Seq(Decls)
  BY <1>2, <1>4
<1>6. order' = BuilderDecls \o tail
  BY <1>3
<1> HIDE DEF tail
<1> QED
  BY <1>5, <1>6, BuilderAssumption

(* The builder's catalog and scheme.                                       *)
LEMMA BuildCatalog ==
    ASSUME Build
    PROVE  /\ ~scheme.built /\ locked = None /\ private' = TRUE
           /\ catalog' = {order'[i] : i \in 1..Len(order')} /\ rev' = Len(order')
           /\ scheme' = [built |-> TRUE, rev |-> rev',
                         fields |-> {d \in catalog' : d.ns \in Namespaces}]
           /\ UNCHANGED <<locked, pc, call, at, answers>>
BY DEF Build, Project

(* The builder registers, projects and adds before anybody else can look.  *)
LEMMA BuildStep ==
    ASSUME IInv, Build
    PROVE  IInv'
<1>1. PICK n \in 0..Cardinality(BuilderRules) : \E seq \in [1..n -> BuilderRules] :
         /\ \A i, j \in 1..n : i # j => seq[i] # seq[j]
         /\ \A i \in 1..n : Compiles(seq[i].expr, scheme')
         /\ rules' = [i \in 1..n |-> [name |-> seq[i].name, expr |-> seq[i].expr,
                                      matches |-> 0]]
  BY DEF Build
<1>2. PICK seq \in [1..n -> BuilderRules] :
         /\ \A i, j \in 1..n : i # j => seq[i] # seq[j]
         /\ \A i \in 1..n : Compiles(seq[i].expr, scheme')
         /\ rules' = [i \in 1..n |-> [name |-> seq[i].name, expr |-> seq[i].expr,
                                      matches |-> 0]]
  BY <1>1
<1>3. n \in Nat
  BY FS_CardinalityType, BuilderAssumption
<1>4. \A i \in 1..n : seq[i] \in [name : Names, expr : Exprs]
  BY <1>2, BuilderAssumption
<1>5. rules' \in Seq(Slot) /\ Len(rules') = n
  BY <1>2, <1>3, <1>4 DEF Slot
<1>6. catalog' \subseteq Decls /\ rev' \in Nat
  BY BuildCatalog, BuildOrder
<1>7. TypeInv'
  <2>1. ASSUME NEW visible, visible = {d \in catalog' : d.ns \in Namespaces}
        PROVE  scheme' \in [built : BOOLEAN, fields : SUBSET Decls, rev : Nat]
    <3>1. visible \in SUBSET Decls
      BY <1>6, <2>1
    <3>2. scheme' = [built |-> TRUE, rev |-> rev', fields |-> visible]
      BY <2>1, BuildCatalog
    <3> QED
      BY <1>6, <3>1, <3>2
  <2>2. scheme' \in [built : BOOLEAN, fields : SUBSET Decls, rev : Nat]
    BY <2>1
  <2>3. private' \in BOOLEAN /\ UNCHANGED <<locked, pc, call, at, answers>>
    BY BuildCatalog
  <2>4. order' \in Seq(Decls)
    BY BuildOrder
  <2> QED
    BY <1>5, <1>6, <2>2, <2>3, <2>4 DEF TypeInv, IInv
<1>8. CatalogInv'
  BY BuildCatalog DEF CatalogInv, IInv
<1>9. scheme'.built
  BY BuildCatalog
<1>10. CallInv'
  BY <1>9, BuildCatalog DEF CallInv, IInv
<1>11. UniqueNames'
  BY <1>2, <1>5, BuilderAssumption DEF UniqueNames
<1>12. FirstMatchWins'
  BY BuildCatalog DEF FirstMatchWins, CallInv, IInv
<1>13. StatsCountAnswers'
  <2>1. answers' = [m \in Names |-> 0]
    BY BuildCatalog DEF CallInv, IInv
  <2>2. \A i \in 1..n : rules'[i].matches = 0 /\ rules'[i].name \in Names
    BY <1>2, <1>4
  <2> QED
    BY <1>5, <2>1, <2>2 DEF StatsCountAnswers
<1>14. SchemeIsSnapshot'
  <2>1. \A i \in 1..Len(rules') : Compiles(rules'[i].expr, scheme')
    BY <1>2, <1>5
  <2>2. scheme'.rev = Len(order') /\ scheme'.rev <= Len(order')
    BY BuildCatalog, BuildOrder
  <2>3. scheme'.fields = {d \in catalog' : d.ns \in Namespaces}
    BY BuildCatalog
  <2>4. scheme'.fields =
          {d \in {order'[i] : i \in 1..scheme'.rev} : d.ns \in Namespaces}
    BY <2>2, <2>3, BuildCatalog
  <2> QED
    BY <2>1, <2>2, <2>4 DEF SchemeIsSnapshot
<1> QED
  BY <1>7, <1>8, <1>10, <1>11, <1>12, <1>13, <1>14 DEF IInv

-----------------------------------------------------------------------------
(* Compiling outside the lock is harmless because the scheme never changes *)
(* again.                                                                  *)
LEMMA BeginStep ==
    ASSUME IInv, NEW p \in Procs, NEW c \in Call, NEW what \in {"add", "replace"},
           Begin(p, c, what)
    PROVE  IInv'
<1> USE DEF IInv, Begin, rulesVars, catalogVars
<1>1. TypeInv'
  BY DEF TypeInv
<1>2. CatalogInv'
  BY DEF CatalogInv, TypeInv
<1>3. CallInv'
  BY DEF CallInv, TypeInv, Compiles
<1>4. UniqueNames' /\ FirstMatchWins' /\ StatsCountAnswers'
  BY DEF UniqueNames, FirstMatchWins, StatsCountAnswers, TypeInv
<1>5. SchemeIsSnapshot'
  BY SnapshotUntouched
<1> QED
  BY <1>1, <1>2, <1>3, <1>4, <1>5

(* What the return of a call does to everything but the rules.             *)
LEMMA ReturnStep ==
    ASSUME IInv, NEW p \in Procs, Return(p), pc[p] \in {"add", "replace", "walk"},
           rules' \in Seq(Slot), answers' \in [Names -> Nat]
    PROVE  TypeInv' /\ CatalogInv' /\ CallInv'
<1> USE DEF IInv, Return, catalogVars
<1>1. TypeInv'
  BY DEF TypeInv
<1>2. CatalogInv'
  BY DEF CatalogInv, TypeInv
<1>3. CallInv'
  BY DEF CallInv, TypeInv, Compiles
<1> QED
  BY <1>1, <1>2, <1>3

(* Add under the write lock keeps the invariant.                           *)
LEMMA AddStep ==
    ASSUME IInv, NEW p \in Procs, Add(p)
    PROVE  IInv'
<1> USE DEF IInv, Add, rulesVars
<1> DEFINE c == call[p]
           slot == [name |-> c.name, expr |-> c.expr, matches |-> 0]
<1>1. c \in Call /\ Compiles(c.expr, scheme)
  BY DEF CallInv
<1>2. scheme' = scheme /\ order' = order /\ pc'[p] = "idle"
      /\ \A q \in Procs : pc'[q] # "walk"
  BY DEF Return, catalogVars, WriteLock, TypeInv
<1>3. CASE IndexOf(c.name) # {}
  <2>1. UNCHANGED <<rules, answers>>
    BY <1>3
  <2>2. TypeInv' /\ CatalogInv' /\ CallInv'
    BY <2>1, ReturnStep DEF TypeInv
  <2>3. UniqueNames' /\ FirstMatchWins' /\ StatsCountAnswers' /\ SchemeIsSnapshot'
    BY <1>2, <2>1, SnapshotUntouched DEF UniqueNames, FirstMatchWins, StatsCountAnswers
  <2> QED
    BY <2>2, <2>3
<1>4. CASE IndexOf(c.name) = {}
  <2>1. rules' = Append(rules, slot) /\ answers' = [answers EXCEPT ![c.name] = 0]
    BY <1>4
  <2>2. slot \in Slot
    BY <1>1 DEF Slot, Call
  <2>3. /\ rules' \in Seq(Slot) /\ Len(rules') = Len(rules) + 1
        /\ \A i \in 1..Len(rules) : rules'[i] = rules[i] /\ rules[i].name # c.name
        /\ rules'[Len(rules) + 1] = slot
    <3>1. rules \in Seq(Slot)
      BY DEF TypeInv
    <3>2. \A i \in 1..Len(rules) : rules[i].name # c.name
      BY <1>4 DEF IndexOf
    <3> HIDE DEF slot, Add
    <3> QED
      BY <2>1, <2>2, <3>1, <3>2
  <2>4. TypeInv' /\ CatalogInv' /\ CallInv'
    BY <2>1, <2>3, ReturnStep DEF TypeInv
  <2>5. UniqueNames'
    <3>1. Len(rules) \in Nat
      BY DEF TypeInv
    <3> HIDE DEF Add
    <3> QED
      BY <2>3, <3>1 DEF UniqueNames
  <2>6. FirstMatchWins'
    BY <1>2 DEF FirstMatchWins
  <2>7. StatsCountAnswers'
    <3> SUFFICES ASSUME NEW i \in 1..Len(rules')
                 PROVE  rules'[i].matches = answers'[rules'[i].name]
      BY DEF StatsCountAnswers
    <3>1. CASE i \in 1..Len(rules)
      <4>1. rules'[i] = rules[i] /\ rules[i].name # c.name
        BY <2>3, <3>1
      <4>2. rules[i].name \in Names /\ answers \in [Names -> Nat]
        <5>1. rules[i] \in Slot /\ answers \in [Names -> Nat]
          BY <3>1 DEF TypeInv
        <5> QED
          BY <5>1 DEF Slot
      <4>3. answers'[rules[i].name] = answers[rules[i].name]
        BY <2>1, <4>1, <4>2
      <4> QED
        BY <3>1, <4>1, <4>3 DEF StatsCountAnswers
    <3>2. CASE i = Len(rules) + 1
      <4>1. rules'[i].matches = 0 /\ rules'[i].name = c.name
        <5>1. slot.matches = 0 /\ slot.name = c.name
          OBVIOUS
        <5> HIDE DEF slot, Add, IInv
        <5>2. rules'[i] = slot
          BY <2>3, <3>2
        <5> QED
          BY <5>1, <5>2
      <4>2. c.name \in Names /\ answers \in [Names -> Nat]
        BY <1>1 DEF TypeInv, Call
      <4> HIDE DEF Add, IInv, c
      <4>3. answers'[c.name] = 0
        BY <2>1, <4>2
      <4> QED
        BY <4>1, <4>3
    <3> QED
      BY <2>3, <3>1, <3>2 DEF TypeInv
  <2>8. SchemeIsSnapshot'
    <3>1. Len(rules) \in Nat
      BY DEF TypeInv
    <3>2. \A i \in 1..Len(rules') : Compiles(rules'[i].expr, scheme)
      <4> SUFFICES ASSUME NEW i \in 1..Len(rules')
                   PROVE  Compiles(rules'[i].expr, scheme)
        OBVIOUS
      <4> HIDE DEF Add
      <4>1. CASE i \in 1..Len(rules)
        <5>1. rules'[i] = rules[i]
          BY <2>3, <4>1
        <5>2. Compiles(rules[i].expr, scheme)
          BY <4>1 DEF SchemeIsSnapshot
        <5> QED
          BY <5>1, <5>2
      <4>2. CASE i = Len(rules) + 1
        <5>1. rules'[i].expr = c.expr
          BY <2>3, <4>2
        <5> QED
          BY <1>1, <5>1
      <4> QED
        <5>1. Len(rules') = Len(rules) + 1
          BY <2>3
        <5> HIDE DEF IInv
        <5>2. i \in 1..Len(rules) \/ i = Len(rules) + 1
          BY <3>1, <5>1
        <5> QED
          BY <4>1, <4>2, <5>2
    <3> QED
      BY <1>2, <3>2, SnapshotKept
  <2> QED
    BY <2>4, <2>5, <2>6, <2>7, <2>8
<1> QED
  BY <1>3, <1>4

(* Replace under the write lock keeps the invariant.                       *)
LEMMA ReplaceStep ==
    ASSUME IInv, NEW p \in Procs, Replace(p)
    PROVE  IInv'
<1> USE DEF IInv, Replace
<1>1. call[p] \in Call /\ Compiles(call[p].expr, scheme)
  BY DEF CallInv
<1>2. scheme' = scheme /\ order' = order /\ \A q \in Procs : pc'[q] # "walk"
  BY DEF Return, catalogVars, WriteLock, TypeInv
<1>3. /\ rules' \in Seq(Slot) /\ Len(rules') = Len(rules)
      /\ \A i \in 1..Len(rules) :
           /\ rules'[i].name = rules[i].name /\ rules'[i].matches = rules[i].matches
           /\ rules'[i].expr \in {rules[i].expr, call[p].expr}
  <2>1. rules \in Seq(Slot) /\ \A i \in 1..Len(rules) : rules[i] \in Slot
    BY DEF TypeInv
  <2>2. \A i \in 1..Len(rules) :
          [rules[i] EXCEPT !.expr = call[p].expr]
            = [name |-> rules[i].name, expr |-> call[p].expr, matches |-> rules[i].matches]
    BY <2>1, SMTT(30) DEF Slot
  <2>3. \A i \in 1..Len(rules) : [rules[i] EXCEPT !.expr = call[p].expr] \in Slot
    BY <1>1, <2>1, <2>2 DEF Slot, Call
  <2>4. rules' \in Seq(Slot) /\ Len(rules') = Len(rules)
    BY <2>1, <2>3
  <2> QED
    BY <2>2, <2>4
<1>4. TypeInv' /\ CatalogInv' /\ CallInv'
  BY <1>3, ReturnStep DEF TypeInv
<1>5. UniqueNames'
  BY <1>3 DEF UniqueNames
<1>6. FirstMatchWins'
  BY <1>2 DEF FirstMatchWins
<1>7. StatsCountAnswers'
  BY <1>3 DEF StatsCountAnswers
<1>8. SchemeIsSnapshot'
  <2>1. \A i \in 1..Len(rules') : Compiles(rules'[i].expr, scheme)
    BY <1>1, <1>3 DEF SchemeIsSnapshot
  <2> QED
    BY <1>2, <2>1, SnapshotKept
<1> QED
  BY <1>4, <1>5, <1>6, <1>7, <1>8

(* Remove keeps the invariant.                                             *)
LEMMA RemoveStep ==
    ASSUME IInv, NEW p \in Procs, NEW name \in Names, Remove(p, name)
    PROVE  IInv'
<1> USE DEF IInv, Remove
<1>1. PICK k \in IndexOf(name) :
         rules' = [j \in 1..(Len(rules) - 1) |-> rules[IF j < k THEN j ELSE j + 1]]
  OBVIOUS
<1> DEFINE old(j) == IF j < k THEN j ELSE j + 1
<1>2. k \in 1..Len(rules) /\ Len(rules) \in Nat /\ Len(rules) - 1 \in Nat
  BY <1>1 DEF IndexOf, TypeInv
<1>3. \A j \in 1..(Len(rules) - 1) : old(j) \in 1..Len(rules) /\ rules[old(j)] \in Slot
  BY <1>2 DEF TypeInv
<1>4. /\ rules' \in Seq(Slot) /\ Len(rules') = Len(rules) - 1
      /\ \A j \in 1..(Len(rules) - 1) : rules'[j] = rules[old(j)]
  BY <1>1, <1>2, <1>3
<1>5. TypeInv' /\ CatalogInv'
  <2>1. UNCHANGED <<catalogVars, pc, call, at, answers>>
    OBVIOUS
  <2>2. TypeInv'
    <3> HIDE DEF Remove
    <3> QED
      BY <1>4, <2>1 DEF TypeInv, catalogVars
  <2>3. CatalogInv'
    <3> HIDE DEF Remove
    <3> QED
      BY <2>1 DEF CatalogInv, catalogVars
  <2> QED
    BY <2>2, <2>3
<1>10. CallInv'
  BY DEF CallInv, catalogVars, Compiles
<1>6. UniqueNames'
  BY <1>2, <1>3, <1>4 DEF UniqueNames
<1>7. FirstMatchWins'
  BY DEF FirstMatchWins, WriteLock
<1>8. StatsCountAnswers'
  <2> HIDE DEF old
  <2> SUFFICES ASSUME NEW j \in 1..Len(rules')
               PROVE  rules'[j].matches = answers'[rules'[j].name]
    BY DEF StatsCountAnswers
  <2>1. old(j) \in 1..Len(rules) /\ rules'[j] = rules[old(j)]
    BY <1>3, <1>4
  <2> QED
    BY <2>1 DEF StatsCountAnswers
<1>9. SchemeIsSnapshot'
  <2> HIDE DEF old
  <2>1. \A j \in 1..Len(rules') : Compiles(rules'[j].expr, scheme)
    BY <1>3, <1>4 DEF SchemeIsSnapshot
  <2> QED
    BY <2>1, SnapshotKept DEF catalogVars
<1> QED
  BY <1>5, <1>6, <1>7, <1>8, <1>9, <1>10

-----------------------------------------------------------------------------
(* A Match starts before the first rule, so nothing is passed yet ...      *)
LEMMA MatchStep ==
    ASSUME IInv, NEW p \in Procs, NEW ev \in Events, Match(p, ev)
    PROVE  IInv'
<1> USE DEF IInv, Match, rulesVars, catalogVars
<1>1. TypeInv'
  BY DEF TypeInv
<1>2. CatalogInv'
  BY DEF CatalogInv, TypeInv
<1>5. CallInv'
  BY DEF CallInv, TypeInv, Compiles
<1>3. UniqueNames' /\ StatsCountAnswers' /\ SchemeIsSnapshot'
  BY SnapshotUntouched DEF UniqueNames, StatsCountAnswers
<1>4. FirstMatchWins'
  BY DEF FirstMatchWins, CallInv, TypeInv
<1> QED
  BY <1>1, <1>2, <1>3, <1>4, <1>5

(* ... and passes a rule only when it does not hold.                       *)
LEMMA MatchNextStep ==
    ASSUME IInv, NEW p \in Procs, MatchNext(p)
    PROVE  IInv'
<1> USE DEF IInv, MatchNext, rulesVars, catalogVars
<1>1. TypeInv'
  BY DEF TypeInv
<1>2. CatalogInv'
  BY DEF CatalogInv, TypeInv
<1>5. CallInv'
  BY DEF CallInv, TypeInv, Compiles
<1>3. UniqueNames' /\ StatsCountAnswers' /\ SchemeIsSnapshot'
  BY SnapshotUntouched DEF UniqueNames, StatsCountAnswers
<1>4. FirstMatchWins'
  BY DEF FirstMatchWins, TypeInv
<1> QED
  BY <1>1, <1>2, <1>3, <1>4, <1>5

(* A Match that found its rule counts the answer and keeps the invariant.  *)
LEMMA MatchFoundStep ==
    ASSUME IInv, NEW p \in Procs, MatchFound(p)
    PROVE  IInv'
<1> USE DEF IInv, MatchFound
<1> DEFINE k == at[p]
<1>1. k \in 1..Len(rules) /\ rules[k] \in Slot
  BY DEF TypeInv
<1>2. /\ rules' \in Seq(Slot) /\ Len(rules') = Len(rules)
      /\ \A i \in 1..Len(rules) :
           /\ rules'[i].name = rules[i].name /\ rules'[i].expr = rules[i].expr
           /\ rules'[i].matches = IF i = k THEN rules[i].matches + 1 ELSE rules[i].matches
  <2>1. [rules[k] EXCEPT !.matches = @ + 1]
          = [name |-> rules[k].name, expr |-> rules[k].expr, matches |-> rules[k].matches + 1]
    BY <1>1 DEF Slot
  <2>2. [rules[k] EXCEPT !.matches = @ + 1] \in Slot
    BY <1>1, <2>1 DEF Slot
  <2>3. rules' = [rules EXCEPT ![k] = [rules[k] EXCEPT !.matches = @ + 1]]
    OBVIOUS
  <2>4. rules \in Seq(Slot)
    BY DEF TypeInv
  <2>5. /\ rules' \in Seq(Slot) /\ Len(rules') = Len(rules)
        /\ \A i \in 1..Len(rules) :
             rules'[i] = IF i = k THEN [rules[k] EXCEPT !.matches = @ + 1] ELSE rules[i]
    BY <1>1, <2>2, <2>3, <2>4
  <2> QED
    BY <2>1, <2>5
<1>3. answers' \in [Names -> Nat]
  BY <1>1, SMTT(30) DEF TypeInv, Slot
<1>4. TypeInv' /\ CatalogInv' /\ CallInv'
  BY <1>2, <1>3, ReturnStep
<1>5. UniqueNames'
  BY <1>2 DEF UniqueNames
<1>6. FirstMatchWins'
  BY <1>2 DEF FirstMatchWins, Return, catalogVars, TypeInv
<1>7. StatsCountAnswers'
  <2> SUFFICES ASSUME NEW i \in 1..Len(rules)
               PROVE  rules'[i].matches = answers'[rules[i].name]
    BY <1>2 DEF StatsCountAnswers
  <2>1. CASE i = k
    BY <1>1, <1>2, <2>1 DEF StatsCountAnswers, TypeInv, Slot
  <2>2. CASE i # k
    <3>1. rules[i].name # rules[k].name
      BY <1>1, <2>2 DEF UniqueNames
    <3> QED
      BY <1>1, <1>2, <2>2, <3>1 DEF StatsCountAnswers, TypeInv, Slot
  <2> QED
    BY <2>1, <2>2
<1>8. SchemeIsSnapshot'
  BY <1>2 DEF SchemeIsSnapshot, Compiles, Return, catalogVars
<1> QED
  BY <1>4, <1>5, <1>6, <1>7, <1>8

(* A Match that reached the end keeps the invariant.                       *)
LEMMA MatchNoneStep ==
    ASSUME IInv, NEW p \in Procs, MatchNone(p)
    PROVE  IInv'
<1> USE DEF IInv, MatchNone, rulesVars
<1>1. TypeInv' /\ CatalogInv' /\ CallInv'
  BY ReturnStep DEF TypeInv
<1>2. UniqueNames' /\ StatsCountAnswers' /\ SchemeIsSnapshot'
  BY SnapshotUntouched DEF UniqueNames, StatsCountAnswers, Return, catalogVars
<1>3. FirstMatchWins'
  BY DEF FirstMatchWins, Return, TypeInv
<1> QED
  BY <1>1, <1>2, <1>3

(* A step that changes nothing keeps the invariant.                        *)
LEMMA StutterStep ==
    ASSUME IInv, UNCHANGED vars
    PROVE  IInv'
<1> USE DEF IInv, vars
<1>1. TypeInv' /\ CatalogInv'
  BY DEF TypeInv, CatalogInv
<1>2. CallInv'
  BY DEF CallInv, Compiles
<1>3. UniqueNames' /\ FirstMatchWins' /\ StatsCountAnswers' /\ SchemeIsSnapshot'
  BY SnapshotUntouched DEF UniqueNames, FirstMatchWins, StatsCountAnswers
<1> QED
  BY <1>1, <1>2, <1>3

(* The invariant of the catalog, the scheme and the rules.                 *)
LEMMA IInvAlways == Spec => []IInv
<1>1. ASSUME IInv, [Next]_vars PROVE IInv'
  <2>1. CASE Build
    BY <1>1, <2>1, BuildStep
  <2>2. ASSUME NEW p \in Procs, Step(p) PROVE IInv'
    BY <1>1, <2>2, RegisterStep, BumpStep, NewStep, BeginStep, AddStep, ReplaceStep,
       RemoveStep, MatchStep, MatchNextStep, MatchFoundStep, MatchNoneStep DEF Step
  <2>3. CASE UNCHANGED vars
    BY <1>1, <2>3, StutterStep
  <2> QED
    BY <1>1, <2>1, <2>2, <2>3 DEF Next
<1> QED
  BY <1>1, InitIInv, PTL DEF Spec

-----------------------------------------------------------------------------
(* Add checks for the name when it has the lock, so two Adds of one name   *)
(* that compiled at the same time store it once.                           *)
THEOREM NamesStayUnique == Spec => []UniqueNames
BY IInvAlways, PTL DEF IInv

(* Match answers the first rule of the set that holds, against any number  *)
(* of concurrent Adds, Replaces and Removes.                               *)
THEOREM MatchIsFirst == Spec => []FirstMatchWins
BY IInvAlways, PTL DEF IInv

(* The counters Stats reports are the numbers of answers.                  *)
THEOREM StatsAreExact == Spec => []StatsCountAnswers
BY IInvAlways, PTL DEF IInv

(* A scheme is the snapshot its revision names, and the rules stay within  *)
(* it, though the catalog grows on.                                        *)
THEOREM SchemeStaysSnapshot == Spec => []SchemeIsSnapshot
BY IInvAlways, PTL DEF IInv
=============================================================================
