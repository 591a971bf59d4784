------------------------- MODULE ChannelSwitchProofs -------------------------
(***************************************************************************)
(* Proofs about the Named Channel Switch for any number of names, sinks,   *)
(* hosts and readers.                                                      *)
(*                                                                         *)
(* SwitchInv holds however often a sink is closed: readers are never       *)
(* stranded and the map holds open queues only.  RefInv, that reference    *)
(* counts are exact and no writer loses its queue, holds while no sink has *)
(* been closed twice.                                                      *)
(***************************************************************************)
EXTENDS ChannelSwitch, TLAPS

(* The inductive invariant of the switch.                                  *)
SafeInv == TypeOK /\ SwitchInv

(* The map's 0, no queue, is never open, nor is a queue not yet built.     *)
LEMMA ZeroNotOpen == ASSUME TypeOK PROVE 0 \notin open /\ built + 1 \notin open
  BY DEF TypeOK

(* A queue built for a writer is new: no map entry, handle or file names   *)
(* it.                                                                     *)
LEMMA FreshQueue ==
    ASSUME TypeOK
    PROVE  /\ built + 1 \in Nat \ {0} /\ built + 1 \notin open
           /\ \A n \in Names : ncsQueues[n] # built + 1 /\ fileOf[n] # built + 1
           /\ \A u \in Writers \cup Readers : handle[u] # built + 1
  BY DEF TypeOK

(* A writer joins the queue of its name, or finds the name free and        *)
(* registers a queue that nobody else knows.                               *)
LEMMA AttachSafe ==
    ASSUME SafeInv, NEW w \in Writers, NEW q \in Nat, Attach(w, q),
           pc[w] \in {"new", "built"},
           name' = name, fileOf' = fileOf, closes' = closes,
           built' \in Nat, built <= built',
           open' \in SUBSET (1..built'), open \subseteq open',
           \A k \in open' : k \in open \/ k = q,
           ncsQueues[name[w]] = 0 =>
             /\ q \in open' /\ q <= built'
             /\ \A n \in Names : ncsQueues[n] # q
             /\ \A m \in Names \ {name[w]} : fileOf[m] # q
             /\ \A r \in Readers : handle[r] # q
             /\ \A h \in Hosts : pc[h] = "built" /\ h # w => handle[h] # q,
           ncsQueues[name[w]] # 0 => open' = open
    PROVE  SafeInv'
<1> DEFINE n == name[w]
<1>0. /\ n \in Names /\ w \in Writers \cup Readers
      /\ ncsQueues \in [Names -> 0..built] /\ ncsRefs \in [Names -> Nat]
      /\ handle \in [Writers \cup Readers -> 0..built]
      /\ pc \in [Writers -> {"new", "opening", "built", "attached", "detached", "failed"}]
      /\ built \in Nat
  BY DEF SafeInv, TypeOK
<1>1. /\ ncsQueues' = IF ncsQueues[n] = 0 THEN [ncsQueues EXCEPT ![n] = q]
                      ELSE ncsQueues
      /\ ncsRefs' = [ncsRefs EXCEPT ![n] = @ + 1]
      /\ pc' = [pc EXCEPT ![w] = "attached"]
      /\ handle' = [handle EXCEPT ![w] = ncsQueues'[n]]
  BY DEF Attach
<1>2. \A m \in Names :
        ncsQueues'[m] = IF m = n /\ ncsQueues[n] = 0 THEN q ELSE ncsQueues[m]
  BY <1>0, <1>1
<1>3. \A m \in Names : ncsQueues'[m] \in 0..built'
  BY <1>0, <1>2
<1>4. TypeOK'
  <2>1. ncsQueues' \in [Names -> 0..built']
    BY <1>0, <1>1, <1>3
  <2>2. handle' \in [Writers \cup Readers -> 0..built']
    BY <1>0, <1>1, <1>3
  <2>3. fileOf' \in [Names -> open' \cup {0}]
    BY DEF SafeInv, TypeOK
  <2>4. ncsRefs' \in [Names -> Nat]
    BY <1>0, <1>1
  <2>5. pc' \in [Writers -> {"new", "opening", "built", "attached", "detached", "failed"}]
    BY <1>0, <1>1
  <2> QED
    BY <2>1, <2>2, <2>3, <2>4, <2>5 DEF SafeInv, TypeOK
<1>5. \A u \in (Writers \cup Readers) \ {w} : handle'[u] = handle[u]
  BY <1>0, <1>1
<1>6. \A h \in Hosts : pc'[h] = "built" => h # w /\ pc[h] = "built"
  BY <1>0, <1>1 DEF Writers
<1>7. RegisteredIsOpen'
  <2> SUFFICES ASSUME NEW m \in Names, ncsQueues'[m] # 0
               PROVE  /\ ncsQueues'[m] \in open'
                      /\ \A k \in Names \ {m} : ncsQueues'[k] # ncsQueues'[m]
    BY DEF RegisteredIsOpen
  <2>1. CASE m = n /\ ncsQueues[n] = 0
    BY <1>0, <1>2, <2>1
  <2>2. CASE ~(m = n /\ ncsQueues[n] = 0)
    BY <1>0, <1>2, <2>2 DEF SafeInv, SwitchInv, RegisteredIsOpen
  <2> QED
    BY <2>1, <2>2
<1>8. ReaderNotStranded'
  <2> SUFFICES ASSUME NEW r \in Readers, handle'[r] \in open'
               PROVE  handle'[r] = ncsQueues'[name[r]]
    BY DEF ReaderNotStranded
  <2>1. r # w /\ handle'[r] = handle[r] /\ name[r] \in Names
    BY <1>5, UsersAssumption DEF SafeInv, TypeOK
  <2>2. handle[r] \in open
    BY <2>1
  <2>3. handle[r] = ncsQueues[name[r]] /\ handle[r] # 0
    BY <2>2, ZeroNotOpen DEF SafeInv, SwitchInv, ReaderNotStranded
  <2> QED
    BY <1>2, <2>1, <2>3
<1>9. ASSUME NEW h \in Hosts, pc'[h] = "built"
      PROVE  /\ handle'[h] \in open'
             /\ \A m \in Names : ncsQueues'[m] # handle'[h]
             /\ \A g \in Hosts \ {h} : pc'[g] = "built" => handle'[g] # handle'[h]
             /\ \A m \in Names \ {name'[h]} : fileOf'[m] # handle'[h]
  <2>1. h # w /\ pc[h] = "built" /\ handle'[h] = handle[h]
    BY <1>5, <1>6, <1>9 DEF Writers
  <2>2. \A g \in Hosts \ {h} : pc'[g] = "built" => handle'[g] = handle[g] /\ pc[g] = "built"
    BY <1>5, <1>6 DEF Writers
  <2>3. /\ handle[h] \in open
        /\ \A m \in Names : ncsQueues[m] # handle[h]
        /\ \A g \in Hosts \ {h} : pc[g] = "built" => handle[g] # handle[h]
        /\ \A m \in Names \ {name[h]} : fileOf[m] # handle[h]
    BY <2>1 DEF SafeInv, SwitchInv
  <2>4. \A m \in Names : ncsQueues'[m] # handle[h]
    BY <1>2, <2>1, <2>3
  <2> QED
    BY <2>1, <2>2, <2>3, <2>4
<1>10. \A k \in Names : \A m \in Names \ {k} :
         ncsQueues'[k] # 0 => fileOf'[m] # ncsQueues'[k]
  BY <1>2 DEF SafeInv, SwitchInv
<1> QED
  BY <1>4, <1>7, <1>8, <1>9, <1>10 DEF SafeInv, SwitchInv

(* The last reference closes the registered queue, which no other name and *)
(* no host still waiting to attach knows, and removes the name with it.    *)
LEMMA DetachSafe ==
    ASSUME SafeInv, NEW w \in Writers, DetachWriter(name[w]), pc[w] # "built",
           pc' = [pc EXCEPT ![w] = "detached"],
           name' = name, handle' = handle, built' = built,
           closes' \in [Sinks -> Nat]
    PROVE  SafeInv'
<1> DEFINE n == name[w]
<1>0. /\ n \in Names /\ w \in Writers \cup Readers
      /\ ncsQueues \in [Names -> 0..built] /\ ncsRefs \in [Names -> Nat]
      /\ fileOf \in [Names -> open \cup {0}] /\ open \in SUBSET (1..built)
      /\ pc' \in [Writers -> {"new", "opening", "built", "attached", "detached", "failed"}]
      /\ \A h \in Hosts : pc'[h] = "built" => pc[h] = "built"
  BY DEF SafeInv, TypeOK, Writers
<1>1. CASE ncsRefs[n] > 1
  <2>1. UNCHANGED <<ncsQueues, open, fileOf>> /\ ncsRefs' \in [Names -> Nat]
    BY <1>0, <1>1 DEF DetachWriter
  <2>2. TypeOK'
    BY <1>0, <2>1 DEF SafeInv, TypeOK
  <2>3. SwitchInv'
    BY <1>0, <2>1 DEF SafeInv, SwitchInv, RegisteredIsOpen, ReaderNotStranded
  <2> QED
    BY <2>2, <2>3 DEF SafeInv
<1>2. CASE ncsRefs[n] <= 1 /\ ncsQueues[n] = 0
  <2>1. UNCHANGED <<ncsQueues, ncsRefs, open, fileOf>>
    BY <1>0, <1>2 DEF DetachWriter
  <2>2. TypeOK'
    BY <1>0, <2>1 DEF SafeInv, TypeOK
  <2>3. SwitchInv'
    BY <1>0, <2>1 DEF SafeInv, SwitchInv, RegisteredIsOpen, ReaderNotStranded
  <2> QED
    BY <2>2, <2>3 DEF SafeInv
<1>3. CASE ncsRefs[n] <= 1 /\ ncsQueues[n] # 0
  <2>1. /\ open' = open \ {ncsQueues[n]}
        /\ fileOf' = [fileOf EXCEPT ![n] = IF @ = ncsQueues[n] THEN 0 ELSE @]
        /\ ncsRefs' = [ncsRefs EXCEPT ![n] = 0]
        /\ ncsQueues' = [ncsQueues EXCEPT ![n] = 0]
    BY <1>0, <1>3 DEF DetachWriter, CloseQueue, DeleteName
  <2>2. \A m \in Names : m # n => fileOf[m] # ncsQueues[n]
    BY <1>0, <1>3 DEF SafeInv, SwitchInv
  <2>3. \A m \in Names :
          fileOf'[m] = IF m = n /\ fileOf[n] = ncsQueues[n] THEN 0 ELSE fileOf[m]
    BY <1>0, <2>1
  <2>4. \A m \in Names : ncsQueues'[m] = IF m = n THEN 0 ELSE ncsQueues[m]
    BY <1>0, <2>1
  <2>5. TypeOK'
    <3>1. \A m \in Names : fileOf'[m] \in open' \cup {0}
      BY <1>0, <2>1, <2>2, <2>3
    <3>2. fileOf' \in [Names -> open' \cup {0}]
      BY <1>0, <2>1, <3>1
    <3>3. ncsQueues' \in [Names -> 0..built'] /\ ncsRefs' \in [Names -> Nat]
      BY <1>0, <2>1 DEF SafeInv, TypeOK
    <3> QED
      BY <1>0, <2>1, <3>2, <3>3 DEF SafeInv, TypeOK
  <2>6. RegisteredIsOpen'
    <3> SUFFICES ASSUME NEW m \in Names, ncsQueues'[m] # 0
                 PROVE  /\ ncsQueues'[m] \in open'
                        /\ \A k \in Names \ {m} : ncsQueues'[k] # ncsQueues'[m]
      BY DEF RegisteredIsOpen
    <3>1. m # n /\ ncsQueues'[m] = ncsQueues[m]
      BY <2>4
    <3> QED
      BY <1>0, <1>3, <2>1, <2>4, <3>1 DEF SafeInv, SwitchInv, RegisteredIsOpen
  <2>7. ReaderNotStranded'
    <3> SUFFICES ASSUME NEW r \in Readers, handle[r] \in open'
                 PROVE  handle[r] = ncsQueues'[name[r]]
      BY DEF ReaderNotStranded
    <3>1. handle[r] = ncsQueues[name[r]] /\ name[r] \in Names
      BY <2>1 DEF SafeInv, SwitchInv, ReaderNotStranded, TypeOK
    <3> QED
      BY <2>1, <2>4, <3>1
  <2>8. ASSUME NEW h \in Hosts, pc'[h] = "built"
        PROVE  /\ handle'[h] \in open'
               /\ \A m \in Names : ncsQueues'[m] # handle'[h]
               /\ \A g \in Hosts \ {h} : pc'[g] = "built" => handle'[g] # handle'[h]
               /\ \A m \in Names \ {name'[h]} : fileOf'[m] # handle'[h]
    <3>1. /\ handle[h] \in open
          /\ \A m \in Names : ncsQueues[m] # handle[h]
          /\ \A g \in Hosts \ {h} : pc[g] = "built" => handle[g] # handle[h]
          /\ \A m \in Names \ {name[h]} : fileOf[m] # handle[h]
      BY <1>0, <2>8 DEF SafeInv, SwitchInv
    <3>2. handle[h] # 0 /\ handle[h] # ncsQueues[n]
      BY <1>0, <3>1
    <3> QED
      BY <1>0, <2>1, <2>3, <2>4, <3>1, <3>2
  <2>9. \A k \in Names : \A m \in Names \ {k} :
          ncsQueues'[k] # 0 => fileOf'[m] # ncsQueues'[k]
    BY <1>0, <2>3, <2>4 DEF SafeInv, SwitchInv
  <2> QED
    BY <2>5, <2>6, <2>7, <2>8, <2>9 DEF SafeInv, SwitchInv
<1> QED
  BY <1>0, <1>1, <1>2, <1>3

(* A host that built a queue is its only holder.                           *)
LEMMA BuildSafe ==
    ASSUME SafeInv, NEW h \in Hosts, RegisterRedis(h) \/ OpenFile(h)
    PROVE  SafeInv'
<1> DEFINE q == built + 1
<1>0. /\ h \in Writers /\ h \in Writers \cup Readers /\ h \notin Readers
      /\ name[h] \in Names /\ handle \in [Writers \cup Readers -> 0..built]
      /\ pc \in [Writers -> {"new", "opening", "built", "attached", "detached", "failed"}]
      /\ built \in Nat /\ open \in SUBSET (1..built)
      /\ fileOf \in [Names -> open \cup {0}]
      /\ ncsQueues \in [Names -> 0..built]
  BY UsersAssumption DEF SafeInv, TypeOK, Writers
<1>1. /\ built' = q /\ open' = open \cup {q}
      /\ handle' = [handle EXCEPT ![h] = q]
      /\ pc' = [pc EXCEPT ![h] = "built"]
      /\ UNCHANGED <<ncsQueues, ncsRefs, name, closes>>
      /\ pc[h] # "built"
  BY DEF RegisterRedis, OpenFile
<1>2. fileOf' = fileOf \/ fileOf' = [fileOf EXCEPT ![name[h]] = q]
  BY DEF RegisterRedis, OpenFile
<1>3. /\ fileOf' \in [Names -> open' \cup {0}]
      /\ \A m \in Names \ {name[h]} : fileOf'[m] = fileOf[m]
      /\ \A m \in Names : fileOf'[m] \in {fileOf[m], q}
  <2>1. CASE fileOf' = fileOf
    BY <1>0, <1>1, <2>1
  <2>2. CASE fileOf' = [fileOf EXCEPT ![name[h]] = q]
    BY <1>0, <1>1, <2>2
  <2> QED
    BY <1>2, <2>1, <2>2
<1>4. TypeOK'
  <2>1. q \in 1..q /\ open' \in SUBSET (1..q) /\ ncsQueues' \in [Names -> 0..q]
    BY <1>0, <1>1
  <2>2. handle' \in [Writers \cup Readers -> 0..q]
    BY <1>0, <1>1
  <2> QED
    BY <1>0, <1>1, <1>3, <2>1, <2>2 DEF SafeInv, TypeOK
<1>5. RegisteredIsOpen'
  BY <1>1 DEF SafeInv, SwitchInv, RegisteredIsOpen
<1>6. ReaderNotStranded'
  <2> SUFFICES ASSUME NEW r \in Readers, handle'[r] \in open'
               PROVE  handle'[r] = ncsQueues[name[r]]
    BY <1>1 DEF ReaderNotStranded
  <2>1. handle'[r] = handle[r] /\ handle[r] \in 0..built
    BY <1>0, <1>1
  <2>2. handle[r] \in open
    BY <1>0, <1>1, <2>1
  <2> QED
    BY <2>1, <2>2 DEF SafeInv, SwitchInv, ReaderNotStranded
<1>7. \A g \in Hosts : pc'[g] = "built" => g = h \/ (pc[g] = "built" /\ handle'[g] = handle[g])
  BY <1>0, <1>1 DEF Writers
<1>8. handle'[h] = q /\ \A u \in Writers \cup Readers : handle[u] # q
  BY <1>0, <1>1
<1>9. \A m \in Names : ncsQueues[m] # q /\ fileOf[m] # q
  BY <1>0
<1>10. ASSUME NEW g \in Hosts, pc'[g] = "built"
       PROVE  /\ handle'[g] \in open'
              /\ \A m \in Names : ncsQueues'[m] # handle'[g]
              /\ \A f \in Hosts \ {g} : pc'[f] = "built" => handle'[f] # handle'[g]
              /\ \A m \in Names \ {name'[g]} : fileOf'[m] # handle'[g]
  <2>1. CASE g = h
    <3>1. \A f \in Hosts \ {h} : pc'[f] = "built" => handle'[f] # q
      BY <1>7, <1>8 DEF Writers
    <3> QED
      BY <1>1, <1>3, <1>8, <1>9, <2>1, <3>1
  <2>2. CASE g # h
    <3>1. /\ handle'[g] = handle[g] /\ pc[g] = "built" /\ handle[g] # q
          /\ g \in Writers
      BY <1>7, <1>8, <1>10, <2>2 DEF Writers
    <3>2. /\ handle[g] \in open
          /\ \A m \in Names : ncsQueues[m] # handle[g]
          /\ \A f \in Hosts \ {g} : pc[f] = "built" => handle[f] # handle[g]
          /\ \A m \in Names \ {name[g]} : fileOf[m] # handle[g]
      BY <3>1 DEF SafeInv, SwitchInv
    <3>3. \A f \in Hosts \ {g} : pc'[f] = "built" => handle'[f] # handle[g]
      BY <1>7, <1>8, <3>1, <3>2
    <3> QED
      BY <1>1, <1>3, <3>1, <3>2, <3>3
  <2> QED
    BY <2>1, <2>2
<1>11. \A k \in Names : \A m \in Names \ {k} :
         ncsQueues'[k] # 0 => fileOf'[m] # ncsQueues'[k]
  BY <1>1, <1>3, <1>9 DEF SafeInv, SwitchInv
<1> QED
  BY <1>4, <1>5, <1>6, <1>10, <1>11 DEF SafeInv, SwitchInv

(* The other steps change one writer's pc or one reader's handle.          *)
LEMMA OtherSafe ==
    ASSUME SafeInv,
           \/ \E h \in Hosts : RegisterBbolt(h) \/ RegisterFails(h)
           \/ \E r \in Readers : AttachReader(r) \/ ReaderLeaves(r)
    PROVE  SafeInv'
<1>1. ASSUME NEW h \in Hosts, RegisterBbolt(h) \/ RegisterFails(h) PROVE SafeInv'
  <2>1. /\ pc' \in [Writers -> {"new", "opening", "built", "attached", "detached", "failed"}]
        /\ \A g \in Hosts : pc'[g] = "built" => pc[g] = "built"
        /\ UNCHANGED <<ncsQueues, ncsRefs, built, open, fileOf, name, handle, closes>>
    BY <1>1 DEF RegisterBbolt, RegisterFails, SafeInv, TypeOK, Writers
  <2>2. TypeOK'
    BY <2>1 DEF SafeInv, TypeOK
  <2>3. SwitchInv'
    BY <2>1 DEF SafeInv, SwitchInv, RegisteredIsOpen, ReaderNotStranded
  <2> QED
    BY <2>2, <2>3 DEF SafeInv
<1>2. ASSUME NEW r \in Readers, AttachReader(r) \/ ReaderLeaves(r) PROVE SafeInv'
  <2>0. /\ name[r] \in Names /\ ncsQueues \in [Names -> 0..built] /\ built \in Nat
        /\ handle \in [Writers \cup Readers -> 0..built]
        /\ open \in SUBSET (1..built)
    BY DEF SafeInv, TypeOK
  <2>1. /\ handle' \in [Writers \cup Readers -> 0..built]
        /\ \A u \in (Writers \cup Readers) \ {r} : handle'[u] = handle[u]
        /\ handle'[r] \in {0, ncsQueues[name[r]]}
        /\ UNCHANGED <<ncsQueues, ncsRefs, built, open, fileOf, pc, name, closes>>
    BY <1>2, <2>0 DEF AttachReader, ReaderLeaves
  <2>2. TypeOK'
    BY <2>1 DEF SafeInv, TypeOK
  <2>3. \A h \in Hosts : handle'[h] = handle[h]
    BY <2>1, UsersAssumption DEF Writers
  <2>4. ReaderNotStranded'
    BY <2>0, <2>1 DEF SafeInv, SwitchInv, ReaderNotStranded
  <2>5. SwitchInv'
    BY <2>1, <2>3, <2>4 DEF SafeInv, SwitchInv, RegisteredIsOpen
  <2> QED
    BY <2>2, <2>5 DEF SafeInv
<1> QED
  BY <1>1, <1>2

(* Every step keeps the type invariant and SwitchInv.                      *)
LEMMA SafeStep == ASSUME SafeInv, [Next]_vars PROVE SafeInv'
<1>0. /\ built \in Nat /\ open \in SUBSET (1..built)
      /\ ncsQueues \in [Names -> 0..built]
      /\ fileOf \in [Names -> open \cup {0}]
      /\ handle \in [Writers \cup Readers -> 0..built]
      /\ name \in [Writers \cup Readers -> Names]
      /\ closes \in [Sinks -> Nat]
  BY DEF SafeInv, TypeOK
<1>1. ASSUME NEW w \in Writers, AttachWriter(w) PROVE SafeInv'
  <2>0. /\ pc[w] \in {"new", "built"} /\ name' = name /\ fileOf' = fileOf
        /\ closes' = closes
    BY <1>1 DEF AttachWriter
  <2>1. CASE ncsQueues[name[w]] # 0
    <3>1. Attach(w, 0) /\ built' = built /\ open' = open
      BY <1>1, <2>1 DEF AttachWriter
    <3> QED
      BY <1>0, <2>0, <2>1, <3>1, AttachSafe
  <2>2. CASE ncsQueues[name[w]] = 0
    <3>1. /\ built' = built + 1 /\ open' = open \cup {built + 1}
          /\ Attach(w, built + 1)
      BY <1>1, <2>2 DEF AttachWriter
    <3>2. /\ built' \in Nat /\ built <= built' /\ open' \in SUBSET (1..built')
          /\ open \subseteq open' /\ built + 1 \in Nat
          /\ built + 1 \in open' /\ built + 1 <= built'
          /\ \A k \in open' : k \in open \/ k = built + 1
      BY <1>0, <3>1
    <3>3. /\ \A n \in Names : ncsQueues[n] # built + 1 /\ fileOf[n] # built + 1
          /\ \A r \in Readers : handle[r] # built + 1
          /\ \A h \in Hosts : handle[h] # built + 1
      BY FreshQueue DEF SafeInv, Writers
    <3> QED
      BY <2>0, <2>2, <3>1, <3>2, <3>3, AttachSafe
  <2> QED
    BY <2>1, <2>2
<1>2. ASSUME NEW h \in Hosts, AttachWriterWithQueue(h) PROVE SafeInv'
  <2>1. /\ pc[h] = "built" /\ Attach(h, handle[h])
        /\ UNCHANGED <<built, open, fileOf, name, closes>>
    BY <1>2 DEF AttachWriterWithQueue
  <2>2. h \in Writers /\ handle[h] \in Nat /\ handle[h] <= built
    BY <1>0 DEF Writers
  <2>3. /\ handle[h] \in open
        /\ \A n \in Names : ncsQueues[n] # handle[h]
        /\ \A g \in Hosts : pc[g] = "built" /\ g # h => handle[g] # handle[h]
        /\ \A m \in Names \ {name[h]} : fileOf[m] # handle[h]
    BY <2>1 DEF SafeInv, SwitchInv
  <2>4. \A r \in Readers : handle[r] # handle[h]
    <3> SUFFICES ASSUME NEW r \in Readers, handle[r] = handle[h] PROVE FALSE
      OBVIOUS
    <3>1. handle[r] = ncsQueues[name[r]] /\ name[r] \in Names
      BY <1>0, <2>3 DEF SafeInv, SwitchInv, ReaderNotStranded
    <3> QED
      BY <2>3, <3>1
  <2> QED
    BY <1>0, <2>1, <2>2, <2>3, <2>4, AttachSafe
<1>3. ASSUME NEW h \in Hosts, HostDetach(h) PROVE SafeInv'
  BY <1>0, <1>3, DetachSafe DEF HostDetach, Writers
<1>4. ASSUME NEW s \in Sinks, SinkClose(s) PROVE SafeInv'
  <2>1. /\ s \in Writers /\ pc[s] # "built" /\ DetachWriter(name[s])
        /\ pc' = [pc EXCEPT ![s] = "detached"]
        /\ name' = name /\ handle' = handle /\ built' = built
        /\ closes' \in [Sinks -> Nat]
    BY <1>0, <1>4 DEF SinkClose, Writers
  <2> QED
    BY <2>1, DetachSafe
<1>5. CASE UNCHANGED vars
  BY <1>5 DEF vars, SafeInv, TypeOK, SwitchInv, RegisteredIsOpen, ReaderNotStranded
<1> QED
  BY <1>1, <1>2, <1>3, <1>4, <1>5, BuildSafe, OtherSafe DEF Next, RegisterStep

(* The empty switch satisfies the invariant.                               *)
LEMMA SafeInit == ASSUME Init PROVE SafeInv
<1>1. TypeOK
  BY DEF Init, TypeOK
<1>2. SwitchInv
  BY DEF Init, SwitchInv, RegisteredIsOpen, ReaderNotStranded, Writers
<1> QED
  BY <1>1, <1>2 DEF SafeInv

(* Every variable of the switch keeps its type.                            *)
THEOREM TypeCorrect == Spec => []TypeOK
<1>1. SafeInv => TypeOK
  BY DEF SafeInv
<1> QED
  BY <1>1, SafeInit, SafeStep, PTL DEF Spec

(* However often sinks are closed, the map holds open queues only, no two  *)
(* names share one, and no reader is stranded on a queue that nobody will  *)
(* close.                                                                  *)
THEOREM SwitchCorrect == Spec => []SwitchInv
<1>1. SafeInv => SwitchInv
  BY DEF SafeInv
<1> QED
  BY <1>1, SafeInit, SafeStep, PTL DEF Spec

(* A reader of a registered name gets an open queue, and a reader whose    *)
(* queue left the map finds it closed.                                     *)
THEOREM ReadersCorrect == Spec => [](RegisteredIsOpen /\ ReaderNotStranded)
<1>1. SafeInv => RegisteredIsOpen /\ ReaderNotStranded
  BY DEF SafeInv, SwitchInv
<1> QED
  BY <1>1, SafeInit, SafeStep, PTL DEF Spec

-----------------------------------------------------------------------------
(* The writers, while no sink has been closed twice.                       *)
INSTANCE FiniteSetTheorems

(* The inductive invariant of the reference counts: a sink that detached   *)
(* has used up its one Close.                                              *)
RefInv ==
    /\ RefsExact
    /\ CloseIdempotent
    /\ \A s \in Sinks : pc[s] = "detached" => closes[s] >= 1

(* The writers attached to a name, which ncsRefs counts, are finitely many.*)
LEMMA AttachedFinite ==
    ASSUME NEW n PROVE IsFiniteSet(Attached(n)) /\ Cardinality(Attached(n)) \in Nat
<1>1. IsFiniteSet(Writers)
  BY UsersAssumption, FS_Union DEF Writers
<1>2. Attached(n) \subseteq Writers
  BY DEF Attached
<1>3. IsFiniteSet(Attached(n))
  BY <1>1, <1>2, FS_Subset
<1> QED
  BY <1>3, FS_CardinalityType

(* A writer that attaches adds itself, and one reference, to its name.     *)
LEMMA AttachRef ==
    ASSUME SafeInv, SafeInv', RefInv, NEW w \in Writers, NEW q, Attach(w, q),
           pc[w] \in {"new", "built"}, name' = name, closes' = closes,
           open \subseteq open',
           ncsQueues[name[w]] = 0 => q \in open'
    PROVE  RefInv'
<1> DEFINE n == name[w]
<1>0. /\ n \in Names /\ ncsQueues \in [Names -> 0..built] /\ ncsRefs \in [Names -> Nat]
      /\ handle \in [Writers \cup Readers -> 0..built] /\ built \in Nat
      /\ pc \in [Writers -> {"new", "opening", "built", "attached", "detached", "failed"}]
      /\ name \in [Writers \cup Readers -> Names]
      /\ 0 \notin open /\ 0 \notin open'
  BY DEF SafeInv, TypeOK
<1>1. /\ ncsQueues' = IF ncsQueues[n] = 0 THEN [ncsQueues EXCEPT ![n] = q]
                      ELSE ncsQueues
      /\ ncsRefs' = [ncsRefs EXCEPT ![n] = @ + 1]
      /\ pc' = [pc EXCEPT ![w] = "attached"]
      /\ handle' = [handle EXCEPT ![w] = ncsQueues'[n]]
  BY DEF Attach
<1>2. \A m \in Names :
        ncsQueues'[m] = IF m = n /\ ncsQueues[n] = 0 THEN q ELSE ncsQueues[m]
  BY <1>0, <1>1
<1>3. \A u \in Writers \ {w} : pc'[u] = pc[u] /\ handle'[u] = handle[u]
  BY <1>0, <1>1
<1>4. pc'[w] = "attached" /\ handle'[w] = ncsQueues'[n] /\ ncsQueues'[n] # 0
  BY <1>0, <1>1, <1>2
<1>5. Attached(n)' = Attached(n) \cup {w} /\ w \notin Attached(n)
  BY <1>3, <1>4 DEF Attached
<1>6. \A m \in Names \ {n} : Attached(m)' = Attached(m)
  BY <1>3, <1>4 DEF Attached
<1>7. Cardinality(Attached(n)') = Cardinality(Attached(n)) + 1
  <2>1. IsFiniteSet(Attached(n))
    BY AttachedFinite
  <2> QED
    BY <1>5, <2>1, FS_AddElement
<1>8. RefsExact'
  <2> SUFFICES ASSUME NEW m \in Names
               PROVE  /\ ncsRefs'[m] = Cardinality(Attached(m)')
                      /\ ncsQueues'[m] = 0 <=> Attached(m)' = {}
    BY DEF RefsExact
  <2>1. CASE m = n
    BY <1>0, <1>1, <1>4, <1>5, <1>7, <2>1 DEF RefInv, RefsExact
  <2>2. CASE m # n
    BY <1>0, <1>1, <1>2, <1>6, <2>2 DEF RefInv, RefsExact
  <2> QED
    BY <2>1, <2>2
<1>9. CloseIdempotent'
  <2> SUFFICES ASSUME NEW u \in Writers, pc'[u] = "attached"
               PROVE  handle'[u] = ncsQueues'[name[u]] /\ handle'[u] \in open'
    BY DEF CloseIdempotent
  <2>1. CASE u = w
    BY <1>0, <1>4, <2>1 DEF SafeInv, SwitchInv, RegisteredIsOpen
  <2>2. CASE u # w
    <3>1. handle[u] = ncsQueues[name[u]] /\ handle[u] \in open /\ name[u] \in Names
      BY <1>0, <1>3, <2>2 DEF RefInv, CloseIdempotent
    <3> QED
      BY <1>0, <1>2, <1>3, <2>2, <3>1
  <2> QED
    BY <2>1, <2>2
<1>10. \A s \in Sinks : pc'[s] = "detached" => closes'[s] >= 1
  BY <1>3, <1>4 DEF RefInv, Writers
<1> QED
  BY <1>8, <1>9, <1>10 DEF RefInv

(* A writer that detaches takes itself, and one reference, away; the queue *)
(* is closed exactly when no other writer is attached.                     *)
LEMMA DetachRef ==
    ASSUME SafeInv, RefInv, NEW w \in Writers, DetachWriter(name[w]),
           pc[w] = "attached", pc' = [pc EXCEPT ![w] = "detached"],
           name' = name, handle' = handle,
           \A s \in Sinks : pc'[s] = "detached" => closes'[s] >= 1
    PROVE  RefInv'
<1> DEFINE n == name[w]
<1>0. /\ n \in Names /\ ncsQueues \in [Names -> 0..built] /\ ncsRefs \in [Names -> Nat]
      /\ pc \in [Writers -> {"new", "opening", "built", "attached", "detached", "failed"}]
      /\ name \in [Writers \cup Readers -> Names] /\ 0 \notin open
  BY DEF SafeInv, TypeOK
<1>1. pc'[w] = "detached" /\ \A u \in Writers \ {w} : pc'[u] = pc[u]
  BY <1>0
<1>2. Attached(n)' = Attached(n) \ {w} /\ w \in Attached(n)
  BY <1>1 DEF Attached
<1>3. \A m \in Names \ {n} : Attached(m)' = Attached(m)
  BY <1>1 DEF Attached
<1>4. /\ ncsRefs[n] = Cardinality(Attached(n)) /\ ncsQueues[n] # 0
      /\ Cardinality(Attached(n)') = ncsRefs[n] - 1
      /\ ncsRefs[n] <= 1 => Attached(n)' = {}
      /\ ncsRefs[n] > 1 => Attached(n)' # {}
  <2>1. ncsRefs[n] = Cardinality(Attached(n)) /\ ncsQueues[n] # 0
    BY <1>0, <1>2 DEF RefInv, RefsExact
  <2>2. IsFiniteSet(Attached(n))
    BY AttachedFinite
  <2>3. IsFiniteSet(Attached(n)') /\ Cardinality(Attached(n)') = ncsRefs[n] - 1
    BY <1>2, <2>1, <2>2, FS_RemoveElement
  <2>4. Cardinality(Attached(n)') \in Nat /\ Cardinality({}) = 0
    BY <2>3, FS_CardinalityType, FS_EmptySet
  <2>5. Cardinality(Attached(n)') = 0 <=> Attached(n)' = {}
    BY <2>3, FS_EmptySet
  <2> QED
    BY <1>0, <2>1, <2>3, <2>4, <2>5
<1>5. CASE ncsRefs[n] > 1
  <2>1. UNCHANGED <<ncsQueues, open>> /\ ncsRefs' = [ncsRefs EXCEPT ![n] = @ - 1]
    BY <1>0, <1>5 DEF DetachWriter
  <2>2. RefsExact'
    <3> SUFFICES ASSUME NEW m \in Names
                 PROVE  /\ ncsRefs'[m] = Cardinality(Attached(m)')
                        /\ ncsQueues'[m] = 0 <=> Attached(m)' = {}
      BY DEF RefsExact
    <3>1. CASE m = n
      BY <1>0, <1>4, <1>5, <2>1, <3>1
    <3>2. CASE m # n
      BY <1>0, <1>3, <2>1, <3>2 DEF RefInv, RefsExact
    <3> QED
      BY <3>1, <3>2
  <2>3. CloseIdempotent'
    BY <1>1, <2>1 DEF RefInv, CloseIdempotent
  <2> QED
    BY <2>2, <2>3 DEF RefInv
<1>6. CASE ncsRefs[n] <= 1
  <2>1. /\ open' = open \ {ncsQueues[n]}
        /\ ncsRefs' = [ncsRefs EXCEPT ![n] = 0]
        /\ ncsQueues' = [ncsQueues EXCEPT ![n] = 0]
    BY <1>0, <1>4, <1>6 DEF DetachWriter, CloseQueue, DeleteName
  <2>2. RefsExact'
    <3> SUFFICES ASSUME NEW m \in Names
                 PROVE  /\ ncsRefs'[m] = Cardinality(Attached(m)')
                        /\ ncsQueues'[m] = 0 <=> Attached(m)' = {}
      BY DEF RefsExact
    <3>1. CASE m = n
      BY <1>0, <1>4, <1>6, <2>1, <3>1, FS_EmptySet
    <3>2. CASE m # n
      BY <1>0, <1>3, <2>1, <3>2 DEF RefInv, RefsExact
    <3> QED
      BY <3>1, <3>2
  <2>3. CloseIdempotent'
    <3> SUFFICES ASSUME NEW u \in Writers, pc'[u] = "attached"
                 PROVE  handle[u] = ncsQueues'[name[u]] /\ handle[u] \in open'
      BY DEF CloseIdempotent
    <3>1. /\ pc[u] = "attached" /\ name[u] \in Names
          /\ handle[u] = ncsQueues[name[u]] /\ handle[u] \in open
      BY <1>0, <1>1 DEF RefInv, CloseIdempotent
    <3>2. u \in Attached(name[u])'
      BY DEF Attached
    <3>3. name[u] # n
      BY <1>4, <1>6, <3>2
    <3>4. ncsQueues[name[u]] # ncsQueues[n]
      BY <1>0, <1>4, <3>1, <3>3 DEF SafeInv, SwitchInv, RegisteredIsOpen
    <3> QED
      BY <1>0, <2>1, <3>1, <3>3, <3>4
  <2> QED
    BY <2>2, <2>3 DEF RefInv
<1> QED
  BY <1>0, <1>5, <1>6

(* Every step keeps the reference counts exact when no sink is closed      *)
(* twice.                                                                  *)
LEMMA RefStep ==
    ASSUME ClosedOnce', SafeInv, SafeInv', RefInv, [Next]_vars PROVE RefInv'
<1>0. /\ handle \in [Writers \cup Readers -> 0..built]
      /\ pc \in [Writers -> {"new", "opening", "built", "attached", "detached", "failed"}]
      /\ closes \in [Sinks -> Nat]
  BY DEF SafeInv, TypeOK
<1>1. ASSUME NEW w \in Writers, AttachWriter(w) PROVE RefInv'
  <2>0. pc[w] \in {"new", "built"} /\ name' = name /\ closes' = closes
    BY <1>1 DEF AttachWriter
  <2>1. CASE ncsQueues[name[w]] # 0
    <3>1. Attach(w, 0) /\ open' = open
      BY <1>1, <2>1 DEF AttachWriter
    <3> QED
      BY <2>0, <2>1, <3>1, AttachRef
  <2>2. CASE ncsQueues[name[w]] = 0
    <3>1. open' = open \cup {built + 1} /\ Attach(w, built + 1)
      BY <1>1, <2>2 DEF AttachWriter
    <3>2. open \subseteq open' /\ built + 1 \in open'
      BY <3>1
    <3> QED
      BY <2>0, <3>1, <3>2, AttachRef
  <2> QED
    BY <2>1, <2>2
<1>2. ASSUME NEW h \in Hosts, AttachWriterWithQueue(h) PROVE RefInv'
  <2>1. /\ h \in Writers /\ pc[h] = "built" /\ Attach(h, handle[h])
        /\ UNCHANGED <<open, name, closes>>
    BY <1>2 DEF AttachWriterWithQueue, Writers
  <2>2. handle[h] \in open
    BY <2>1 DEF SafeInv, SwitchInv
  <2> QED
    BY <2>1, <2>2, AttachRef
<1>3. ASSUME NEW h \in Hosts, HostDetach(h) PROVE RefInv'
  <2>1. /\ h \in Writers /\ pc[h] = "attached" /\ DetachWriter(name[h])
        /\ pc' = [pc EXCEPT ![h] = "detached"]
        /\ name' = name /\ handle' = handle /\ closes' = closes
    BY <1>3 DEF HostDetach, Writers
  <2>2. \A s \in Sinks : pc'[s] = "detached" => closes'[s] >= 1
    BY <1>0, <2>1, UsersAssumption DEF RefInv, Writers
  <2> QED
    BY <2>1, <2>2, DetachRef
<1>4. ASSUME NEW s \in Sinks, SinkClose(s) PROVE RefInv'
  <2>1. closes[s] < 1
    BY <1>0, <1>4 DEF SinkClose, ClosedOnce
  <2>2. /\ s \in Writers /\ pc[s] = "attached" /\ DetachWriter(name[s])
        /\ pc' = [pc EXCEPT ![s] = "detached"]
        /\ name' = name /\ handle' = handle
        /\ closes' = [closes EXCEPT ![s] = @ + 1]
    BY <1>0, <1>4, <2>1 DEF SinkClose, Writers, RefInv
  <2>3. \A t \in Sinks : pc'[t] = "detached" => closes'[t] >= 1
    BY <1>0, <2>2 DEF RefInv, Writers
  <2> QED
    BY <2>2, <2>3, DetachRef
<1>5. ASSUME NEW h \in Hosts,
             RegisterRedis(h) \/ RegisterBbolt(h) \/ OpenFile(h) \/ RegisterFails(h)
      PROVE  RefInv'
  <2>1. /\ pc[h] \in {"new", "opening"} /\ UNCHANGED <<ncsQueues, ncsRefs, name, closes>>
        /\ pc'[h] \in {"opening", "built", "failed"}
        /\ \A u \in Writers \ {h} : pc'[u] = pc[u] /\ handle'[u] = handle[u]
        /\ open \subseteq open'
    BY <1>0, <1>5 DEF RegisterRedis, RegisterBbolt, OpenFile, RegisterFails, Writers
  <2>2. \A n \in Names : Attached(n)' = Attached(n)
    BY <2>1 DEF Attached
  <2>3. RefsExact'
    BY <2>1, <2>2 DEF RefInv, RefsExact
  <2>4. CloseIdempotent'
    BY <2>1 DEF RefInv, CloseIdempotent
  <2>5. \A s \in Sinks : pc'[s] = "detached" => closes'[s] >= 1
    BY <2>1, UsersAssumption DEF RefInv, Writers
  <2> QED
    BY <2>3, <2>4, <2>5 DEF RefInv
<1>6. ASSUME NEW r \in Readers, AttachReader(r) \/ ReaderLeaves(r) PROVE RefInv'
  <2>1. /\ \A u \in Writers : handle'[u] = handle[u]
        /\ UNCHANGED <<ncsQueues, ncsRefs, open, pc, name, closes>>
    BY <1>0, <1>6, UsersAssumption DEF AttachReader, ReaderLeaves
  <2> QED
    BY <2>1 DEF RefInv, RefsExact, CloseIdempotent, Attached
<1>7. CASE UNCHANGED vars
  BY <1>7 DEF vars, RefInv, RefsExact, CloseIdempotent, Attached
<1> QED
  BY <1>1, <1>2, <1>3, <1>4, <1>5, <1>6, <1>7 DEF Next, RegisterStep

(* closes only grows: a state in which no sink was closed twice comes from *)
(* one.                                                                    *)
LEMMA ClosedOnceBefore == ASSUME SafeInv, ClosedOnce', [Next]_vars PROVE ClosedOnce
<1>0. closes \in [Sinks -> Nat]
  BY DEF SafeInv, TypeOK
<1>1. ASSUME NEW s \in Sinks, SinkClose(s) PROVE ClosedOnce
  BY <1>0, <1>1 DEF SinkClose, ClosedOnce
<1>2. CASE closes' = closes
  BY <1>2 DEF ClosedOnce
<1> QED
  BY <1>1, <1>2 DEF Next, vars, AttachWriter, RegisterStep, RegisterRedis,
     RegisterBbolt, OpenFile, RegisterFails, AttachWriterWithQueue, HostDetach,
     AttachReader, ReaderLeaves

(* While no sink has been closed twice, a name's reference count is the    *)
(* number of its writers and no writer loses its queue.                    *)
THEOREM WritersCorrect == Spec => [](RefsAreAttachments /\ AttachedShareOpenQueue)
<1> DEFINE Inv == ClosedOnce => RefInv
<1>1. Init => Inv
  <2>1. ASSUME Init PROVE \A n \in Names : Attached(n) = {}
    BY <2>1 DEF Init, Attached
  <2> QED
    BY <2>1, FS_EmptySet
       DEF Init, RefInv, RefsExact, CloseIdempotent, Writers
<1>2. SafeInv /\ SafeInv' /\ Inv /\ [Next]_vars => Inv'
  BY RefStep, ClosedOnceBefore
<1>3. Inv => RefsAreAttachments /\ AttachedShareOpenQueue
  BY DEF RefInv, RefsAreAttachments, AttachedShareOpenQueue
<1> HIDE DEF Inv
<1> QED
  BY <1>1, <1>2, <1>3, SafeInit, SafeStep, PTL DEF Spec

(* The reference counts of the names are exact while no sink has been      *)
(* closed twice: DetachWriter closes a queue with its last writer.         *)
COROLLARY RefsCorrect == Spec => []RefsAreAttachments
  BY WritersCorrect, PTL
==============================================================================
