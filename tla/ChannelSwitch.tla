---------------------------- MODULE ChannelSwitch ----------------------------
(***************************************************************************)
(* The Named Channel Switch of pkg/ncs/channelswitch.go: a map from names  *)
(* to shared queues with reference counts, behind one RWMutex.             *)
(*                                                                         *)
(* Its users are the sinks (pkg/sink/sentinel/sink.go: attach when they    *)
(* are built, detach when they are closed), the host that pre-registers a  *)
(* queue from its configuration, and the readers (executors, and           *)
(* pkg/source/sentinel/source.go).  A body under the mutex is one step;    *)
(* RegisterSinkFromConfig builds a bbolt or redis queue before it takes    *)
(* the mutex, so that is a step of its own.                                *)
(*                                                                         *)
(* Queues are numbered in the order they are built.  The bbolt queue of a  *)
(* name lives in one file, which bbolt.Open locks and Close unlocks.       *)
(***************************************************************************)
EXTENDS Integers, FiniteSets

CONSTANTS
    Names,      \* queue names
    Sinks,      \* sentinel sinks
    Hosts,      \* calls of RegisterSinkFromConfig
    Readers,    \* callers of AttachReader
    Backends,   \* queue types of the configurations, a subset of
                \* {"memory", "bbolt", "redis"}
    MaxQueues,  \* bound: number of queues built
    CloseCalls  \* how often the pipeline calls Close on a sink

Writers == Sinks \cup Hosts

ASSUME UsersAssumption ==
    /\ Sinks \cap Hosts = {} /\ Readers \cap Writers = {}
    /\ IsFiniteSet(Sinks) /\ IsFiniteSet(Hosts)
    /\ Backends \subseteq {"memory", "bbolt", "redis"}
    /\ MaxQueues \in Nat /\ CloseCalls \in Nat

VARIABLES
    ncsQueues,  \* [Names -> Nat], 0 where the name is not in the map
    ncsRefs,    \* [Names -> Nat], 0 where the name is not in the map
    built,      \* number of queues built
    open,       \* the queues that are not closed
    fileOf,     \* [Names -> Nat], the queue that has locked the file, or 0
    pc,         \* [Writers -> ...]: new, opening, built, attached, failed
    name,       \* [Writers \cup Readers -> Names]
    handle,     \* [Writers \cup Readers -> Nat]: the queue each one holds
    closes      \* [Sinks -> Nat]: calls of Close so far

vars == <<ncsQueues, ncsRefs, built, open, fileOf, pc, name, handle, closes>>

Init ==
    /\ ncsQueues = [n \in Names |-> 0]
    /\ ncsRefs = [n \in Names |-> 0]
    /\ built = 0 /\ open = {}
    /\ fileOf = [n \in Names |-> 0]
    /\ pc = [w \in Writers |-> "new"]
    /\ name \in [Writers \cup Readers -> Names]
    /\ handle = [u \in Writers \cup Readers |-> 0]
    /\ closes = [s \in Sinks |-> 0]

(* Mutant: a name that exists is joined without a reference.               *)
AttachUncounted(w, q) ==
    LET n == name[w] IN
    /\ ncsQueues' = IF ncsQueues[n] = 0 THEN [ncsQueues EXCEPT ![n] = q]
                    ELSE ncsQueues
    /\ ncsRefs' = IF ncsQueues[n] = 0 THEN [ncsRefs EXCEPT ![n] = 1] ELSE ncsRefs
    /\ pc' = [pc EXCEPT ![w] = "attached"]
    /\ handle' = [handle EXCEPT ![w] = ncsQueues'[n]]

(* What AttachWriter and AttachWriterWithQueue share: a name that exists   *)
(* gets one more reference, a new one gets q; handle is the queue returned *)
(* (a host does not keep it).                                              *)
Attach(w, q) ==
    LET n == name[w] IN
    /\ ncsQueues' = IF ncsQueues[n] = 0 THEN [ncsQueues EXCEPT ![n] = q]
                    ELSE ncsQueues
    /\ ncsRefs' = [ncsRefs EXCEPT ![n] = @ + 1]
    /\ pc' = [pc EXCEPT ![w] = "attached"]
    /\ handle' = [handle EXCEPT ![w] = ncsQueues'[n]]

(* AttachWriter: from NewSentinelThreatSink, and from                      *)
(* RegisterSinkFromConfig for a memory queue (or no configuration).        *)
AttachWriter(w) ==
    /\ pc[w] = "new"
    /\ w \in Hosts => "memory" \in Backends
    /\ \/ /\ ncsQueues[name[w]] # 0
          /\ Attach(w, 0)
          /\ UNCHANGED <<built, open>>
       \/ /\ ncsQueues[name[w]] = 0
          /\ built < MaxQueues
          /\ built' = built + 1
          /\ open' = open \cup {built + 1}
          /\ Attach(w, built + 1)
    /\ UNCHANGED <<fileOf, name, closes>>

(* RegisterSinkFromConfig: the backend is opened, outside the mutex.       *)
RegisterRedis(h) ==
    /\ pc[h] = "new"
    /\ "redis" \in Backends
    /\ built < MaxQueues
    /\ built' = built + 1
    /\ open' = open \cup {built + 1}
    /\ handle' = [handle EXCEPT ![h] = built + 1]
    /\ pc' = [pc EXCEPT ![h] = "built"]
    /\ UNCHANGED <<ncsQueues, ncsRefs, fileOf, name, closes>>

RegisterBbolt(h) ==
    /\ pc[h] = "new"
    /\ "bbolt" \in Backends
    /\ pc' = [pc EXCEPT ![h] = "opening"]
    /\ UNCHANGED <<ncsQueues, ncsRefs, built, open, fileOf, name, handle, closes>>

(* bbolt.Open, called without options, waits for the lock of the file.     *)
OpenFile(h) ==
    /\ pc[h] = "opening"
    /\ fileOf[name[h]] = 0
    /\ built < MaxQueues
    /\ built' = built + 1
    /\ open' = open \cup {built + 1}
    /\ fileOf' = [fileOf EXCEPT ![name[h]] = built + 1]
    /\ handle' = [handle EXCEPT ![h] = built + 1]
    /\ pc' = [pc EXCEPT ![h] = "built"]
    /\ UNCHANGED <<ncsQueues, ncsRefs, name, closes>>

(* redis.ParseURL or bbolt.Open fails, or the type is unknown.             *)
RegisterFails(h) ==
    /\ pc[h] = "new" /\ Backends \ {"memory"} # {}
    /\ pc' = [pc EXCEPT ![h] = "failed"]
    /\ UNCHANGED <<ncsQueues, ncsRefs, built, open, fileOf, name, handle, closes>>

(* A queue that loses against an earlier registration is dropped: it stays *)
(* open and, if it is a bbolt queue, keeps its file locked.                *)
AttachWriterWithQueue(h) ==
    /\ pc[h] = "built"
    /\ Attach(h, handle[h])
    /\ UNCHANGED <<built, open, fileOf, name, closes>>

(* Mutant: the queue is not closed.                                        *)
CloseQueueNot(n) == UNCHANGED <<open, fileOf>>

(* q.Close() on the registered queue.                                      *)
CloseQueue(n) ==
    /\ open' = open \ {ncsQueues[n]}
    /\ fileOf' = [fileOf EXCEPT ![n] = IF @ = ncsQueues[n] THEN 0 ELSE @]

DeleteName(n) ==
    /\ ncsRefs' = [ncsRefs EXCEPT ![n] = 0]
    /\ ncsQueues' = [ncsQueues EXCEPT ![n] = 0]

(* DetachWriter: the last reference closes the queue and drops the name;   *)
(* a name that is not in the map is left alone.                            *)
DetachWriter(n) ==
    \/ /\ ncsRefs[n] > 1
       /\ ncsRefs' = [ncsRefs EXCEPT ![n] = @ - 1]
       /\ UNCHANGED <<ncsQueues, open, fileOf>>
    \/ /\ ncsRefs[n] <= 1 /\ ncsQueues[n] # 0
       /\ CloseQueue(n)
       /\ DeleteName(n)
    \/ /\ ncsRefs[n] <= 1 /\ ncsQueues[n] = 0
       /\ UNCHANGED <<ncsQueues, ncsRefs, open, fileOf>>

(* SentinelThreatSink.Close.                                               *)
SinkClose(s) ==
    /\ pc[s] \in {"attached", "detached"}
    /\ closes[s] < CloseCalls
    /\ closes' = [closes EXCEPT ![s] = @ + 1]
    /\ pc' = [pc EXCEPT ![s] = "detached"]
    /\ DetachWriter(name[s])
    /\ UNCHANGED <<built, name, handle>>

(* The host gives up its own reference at shutdown.                        *)
HostDetach(h) ==
    /\ pc[h] = "attached"
    /\ pc' = [pc EXCEPT ![h] = "detached"]
    /\ DetachWriter(name[h])
    /\ UNCHANGED <<built, name, handle, closes>>

(* AttachReader; an error when the name is not in the map.                 *)
AttachReader(r) ==
    /\ handle[r] = 0
    /\ ncsQueues[name[r]] # 0
    /\ handle' = [handle EXCEPT ![r] = ncsQueues[name[r]]]
    /\ UNCHANGED <<ncsQueues, ncsRefs, built, open, fileOf, pc, name, closes>>

(* The reader's Pop returned ErrQueueClosed.                               *)
ReaderLeaves(r) ==
    /\ handle[r] # 0
    /\ handle[r] \notin open
    /\ handle' = [handle EXCEPT ![r] = 0]
    /\ UNCHANGED <<ncsQueues, ncsRefs, built, open, fileOf, pc, name, closes>>

RegisterStep(h) ==
    \/ RegisterRedis(h)
    \/ RegisterBbolt(h)
    \/ OpenFile(h)
    \/ RegisterFails(h)
    \/ AttachWriterWithQueue(h)

Next ==
    \/ \E w \in Writers : AttachWriter(w)
    \/ \E h \in Hosts : RegisterStep(h) \/ HostDetach(h)
    \/ \E s \in Sinks : SinkClose(s)
    \/ \E r \in Readers : AttachReader(r) \/ ReaderLeaves(r)

Spec == Init /\ [][Next]_vars

(* A call of RegisterSinkFromConfig goes on when it can.                   *)
FairSpec ==
    /\ Spec
    /\ \A h \in Hosts : WF_vars(OpenFile(h)) /\ WF_vars(AttachWriterWithQueue(h))

-----------------------------------------------------------------------------
(* Properties.                                                             *)

Attached(n) == {w \in Writers : pc[w] = "attached" /\ name[w] = n}

(* Every variable stays in its type; only open queues lock files.          *)
TypeOK ==
    /\ ncsQueues \in [Names -> 0..built] /\ ncsRefs \in [Names -> Nat]
    /\ built \in Nat /\ open \in SUBSET (1..built)
    /\ fileOf \in [Names -> open \cup {0}]
    /\ pc \in [Writers -> {"new", "opening", "built", "attached", "detached", "failed"}]
    /\ name \in [Writers \cup Readers -> Names]
    /\ handle \in [Writers \cup Readers -> 0..built]
    /\ closes \in [Sinks -> Nat]

ClosedOnce == \A s \in Sinks : closes[s] <= 1

RefsExact ==
    \A n \in Names :
      /\ ncsRefs[n] = Cardinality(Attached(n))
      /\ ncsQueues[n] = 0 <=> Attached(n) = {}

(* While no sink has been closed twice, the reference count of a name is   *)
(* the number of writers attached to it, and a name is in the map exactly  *)
(* while it has one.                                                       *)
RefsAreAttachments == ClosedOnce => RefsExact

(* All writers attached to a name hold the one queue that readers of the   *)
(* name get, and it is open.  It does not hold once a sink is closed       *)
(* twice: the second Close takes the reference of another writer.          *)
CloseIdempotent ==
    \A w \in Writers : pc[w] = "attached" =>
      handle[w] = ncsQueues[name[w]] /\ handle[w] \in open

(* While no sink has been closed twice, no writer's queue is closed or     *)
(* replaced under it by the detaching of others.                           *)
AttachedShareOpenQueue == ClosedOnce => CloseIdempotent

(* No reader is left blocked on a queue that nobody can push to or close   *)
(* any more: its queue is the registered one or is closed.                 *)
ReaderNotStranded ==
    \A r \in Readers :
      handle[r] \in open => handle[r] = ncsQueues[name[r]]

(* A queue that was closed is never registered again, so a reader that     *)
(* attaches always gets a queue that is open, and two names never share    *)
(* one.                                                                    *)
RegisteredIsOpen ==
    \A n \in Names : ncsQueues[n] # 0 =>
      /\ ncsQueues[n] \in open
      /\ \A m \in Names \ {n} : ncsQueues[m] # ncsQueues[n]

(* The inductive invariant behind the two properties above: besides them,  *)
(* a queue that was built and not yet attached is open, known to its       *)
(* builder alone, and a locked file belongs to a queue of its own name.    *)
SwitchInv ==
    /\ RegisteredIsOpen
    /\ ReaderNotStranded
    /\ \A h \in Hosts : pc[h] = "built" =>
         /\ handle[h] \in open
         /\ \A n \in Names : ncsQueues[n] # handle[h]
         /\ \A g \in Hosts \ {h} : pc[g] = "built" => handle[g] # handle[h]
         /\ \A m \in Names \ {name[h]} : fileOf[m] # handle[h]
    /\ \A n \in Names : \A m \in Names \ {n} :
         ncsQueues[n] # 0 => fileOf[m] # ncsQueues[n]

(* channelswitch.go:87 "the first registration wins, subsequent calls do   *)
(* fan-in": a call of RegisterSinkFromConfig returns.  Violated for bbolt: *)
(* the second call waits in bbolt.Open for the lock that the first queue   *)
(* holds.                                                                  *)
RegisterReturns ==
    \A h \in Hosts : (pc[h] = "opening") ~> (pc[h] # "opening")
==============================================================================
