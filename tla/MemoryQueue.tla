----------------------------- MODULE MemoryQueue -----------------------------
(***************************************************************************)
(* The in-memory queue of pkg/executor/queue/memory.go: a buffered channel *)
(* ch and a channel closed that Close closes; ch itself is never closed.   *)
(* Push is one select with a default case, so one step.  Pop blocks in a   *)
(* select and, when it takes the closed case, looks at ch once more.       *)
(* A select takes any of its ready cases.                                  *)
(*                                                                         *)
(* An event is the number of its acceptance.  A consumer is an executor:   *)
(* it calls Pop until Pop returns an error.                                *)
(***************************************************************************)
EXTENDS Integers, Sequences, FiniteSets

CONSTANTS
    Consumers,    \* goroutines that call Pop
    Cancellable,  \* the consumers whose context may be cancelled
    BufferSize,   \* the constructor's argument
    DefaultSize,  \* what an argument that is not positive stands for (1000)
    MaxPush       \* bound: number of accepted events

ASSUME SizesAssumption ==
    /\ BufferSize \in Int
    /\ DefaultSize \in Nat \ {0}
    /\ MaxPush \in Nat
    /\ Cancellable \subseteq Consumers

VARIABLES
    ch, closed,   \* the queue
    pc,           \* pop: in the select; drain: in the inner select;
                  \* closed, cancelled: Pop has returned that error
    cancelled,    \* consumers whose context is done
    accepted,     \* number of events accepted so far
    atClose,      \* history: its value when Close was called
    received      \* history: the events each consumer has received

vars == <<ch, closed, pc, cancelled, accepted, atClose, received>>

(* NewMemoryQueue.                                                         *)
Capacity == IF BufferSize <= 0 THEN DefaultSize ELSE BufferSize

Init ==
    /\ ch = <<>> /\ closed = FALSE
    /\ pc = [c \in Consumers |-> "pop"]
    /\ cancelled = {}
    /\ accepted = 0 /\ atClose = 0
    /\ received = [c \in Consumers |-> <<>>]

(* Push takes its send case.  The other three cases (closed, context done, *)
(* default: full) return an error and change nothing; closed being ready   *)
(* does not keep the select from taking the send case.                     *)
Push ==
    /\ accepted < MaxPush
    /\ Len(ch) < Capacity
    /\ accepted' = accepted + 1
    /\ ch' = Append(ch, accepted + 1)
    /\ UNCHANGED <<closed, pc, cancelled, atClose, received>>

(* Mutant: the payload taken from the channel is not returned.             *)
ReceiveDropped(c) ==
    /\ ch # <<>>
    /\ ch' = Tail(ch)
    /\ UNCHANGED received

(* payload := <-q.ch, returned by Pop; the consumer calls Pop again.       *)
Receive(c) ==
    /\ ch # <<>>
    /\ ch' = Tail(ch)
    /\ received' = [received EXCEPT ![c] = Append(@, Head(ch))]

PopReceive(c) ==
    /\ pc[c] = "pop"
    /\ Receive(c)
    /\ UNCHANGED <<closed, pc, cancelled, accepted, atClose>>

PopCancelled(c) ==
    /\ pc[c] = "pop"
    /\ c \in cancelled
    /\ pc' = [pc EXCEPT ![c] = "cancelled"]
    /\ UNCHANGED <<ch, closed, cancelled, accepted, atClose, received>>

(* Mutant: only a context wakes a blocked Pop.                             *)
PopClosedIgnored(c) ==
    /\ pc[c] = "pop"
    /\ closed /\ c \in cancelled
    /\ pc' = [pc EXCEPT ![c] = "drain"]
    /\ UNCHANGED <<ch, closed, cancelled, accepted, atClose, received>>

PopClosed(c) ==
    /\ pc[c] = "pop"
    /\ closed
    /\ pc' = [pc EXCEPT ![c] = "drain"]
    /\ UNCHANGED <<ch, closed, cancelled, accepted, atClose, received>>

(* Mutant: the closed case returns without a look at the channel.          *)
PopDrainSkipped(c) ==
    /\ pc[c] = "drain"
    /\ pc' = [pc EXCEPT ![c] = "closed"]
    /\ UNCHANGED <<ch, closed, cancelled, accepted, atClose, received>>

(* The inner select: receive, or by default ErrQueueClosed.                *)
PopDrain(c) ==
    /\ pc[c] = "drain"
    /\ \/ Receive(c) /\ pc' = [pc EXCEPT ![c] = "pop"]
       \/ ch = <<>> /\ pc' = [pc EXCEPT ![c] = "closed"] /\ UNCHANGED <<ch, received>>
    /\ UNCHANGED <<closed, cancelled, accepted, atClose>>

Cancel(c) ==
    /\ c \in Cancellable \ cancelled
    /\ cancelled' = cancelled \cup {c}
    /\ UNCHANGED <<ch, closed, pc, accepted, atClose, received>>

Close ==
    /\ ~closed
    /\ closed' = TRUE
    /\ atClose' = accepted
    /\ UNCHANGED <<ch, pc, cancelled, accepted, received>>

PopStep(c) == PopReceive(c) \/ PopCancelled(c) \/ PopClosed(c) \/ PopDrain(c)

Next ==
    \/ Push
    \/ Close
    \/ \E c \in Consumers : PopStep(c) \/ Cancel(c)

Spec == Init /\ [][Next]_vars

(* The Go scheduler runs every consumer that can go on; nobody is obliged  *)
(* to push, to cancel or to close.                                         *)
FairSpec == Spec /\ \A c \in Consumers : WF_vars(PopStep(c))

-----------------------------------------------------------------------------
(* Properties.                                                             *)

Received == UNION {{received[c][i] : i \in DOMAIN received[c]} : c \in Consumers}

(* Every variable stays in its type, the channel within its capacity.      *)
TypeOK ==
    /\ ch \in Seq(Nat) /\ Len(ch) <= Capacity
    /\ closed \in BOOLEAN
    /\ pc \in [Consumers -> {"pop", "drain", "closed", "cancelled"}]
    /\ cancelled \in SUBSET Cancellable
    /\ accepted \in Nat /\ atClose \in Nat
    /\ received \in [Consumers -> Seq(Nat)]

EQ == INSTANCE EventQueue
        WITH Lossy <- FALSE, Late <- {"push", "pop"}, open <- ~closed,
             backlog <- ch, transit <- {}, received <- received

(* The queue keeps the contract of the interface but for its clause on     *)
(* Close, without losing anything: first in first out, every event to one  *)
(* consumer, none dropped.  Both operations may succeed after Close, where *)
(* queue.go:46 says that they "must return an error": Pop hands out what   *)
(* is buffered (memory.go:60), and the select of Push (memory.go:45) may   *)
(* send although closed is ready, so that q.ch is not "stable" as          *)
(* memory.go:61 has it, and an event accepted late may stay there.         *)
ImplementsEventQueue == EQ!Spec

(* Once a consumer has been told ErrQueueClosed, every event accepted      *)
(* before Close has been received ("Drain any events buffered before       *)
(* Close() was called", memory.go:60).                                     *)
DrainedBeforeClosed ==
    (\E c \in Consumers : pc[c] = "closed") => 1..atClose \subseteq Received

(* Close releases every consumer, none stays blocked on the channel.       *)
CloseReleasesConsumers ==
    closed ~> \A c \in Consumers : pc[c] \in {"closed", "cancelled"}

(* While a consumer with a live context remains, an accepted event is      *)
(* received.                                                               *)
AcceptedIsReceived ==
    \A k \in 1..MaxPush :
      (accepted >= k /\ ~closed) ~> (k \in Received \/ closed
                                      \/ cancelled = Consumers)
==============================================================================
