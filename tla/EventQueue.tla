----------------------------- MODULE EventQueue -----------------------------
(***************************************************************************)
(* What the interface of pkg/executor/queue/queue.go promises between the  *)
(* sinks that Push and the executors that Pop: events leave the queue in   *)
(* the order they were accepted, each goes to one consumer at most, a      *)
(* consumer never receives an older event after a newer one, and "After    *)
(* Close, both Push and Pop must return an error" (queue.go:47): nothing   *)
(* is accepted or claimed then.  Late names the operations a backend lets  *)
(* succeed on a closed queue all the same; the interface wants it empty.   *)
(* A backend whose Pop claims an event before it returns it may lose       *)
(* claimed events (Lossy); one that does not loses nothing.                *)
(*                                                                         *)
(* An event is the number of its acceptance.                               *)
(***************************************************************************)
EXTENDS Integers, Sequences

CONSTANTS Consumers, Lossy, Late

VARIABLES
    open,      \* somebody has the queue open, and Close has not returned
    accepted,  \* number of events accepted so far
    backlog,   \* accepted events nobody has claimed, oldest first
    transit,   \* claimed events not yet returned by Pop
    received   \* events returned by Pop, for each consumer

vars == <<open, accepted, backlog, transit, received>>

Init ==
    /\ open \in BOOLEAN
    /\ accepted = 0
    /\ backlog = <<>>
    /\ transit = {}
    /\ received = [c \in Consumers |-> <<>>]

(* Only a Lossy backend forgets what is in transit: an interrupted Pop, or *)
(* a process that ends.                                                    *)
Keep == transit' = transit \/ (Lossy /\ transit' \in SUBSET transit)

Open ==
    /\ ~open /\ open' = TRUE
    /\ Keep
    /\ UNCHANGED <<accepted, backlog, received>>

(* Close, or the end of the process that had the queue open.               *)
Shut ==
    /\ open /\ open' = FALSE
    /\ Keep
    /\ UNCHANGED <<accepted, backlog, received>>

Accept ==
    /\ open \/ "push" \in Late
    /\ accepted' = accepted + 1
    /\ backlog' = Append(backlog, accepted + 1)
    /\ UNCHANGED <<open, transit, received>>

(* The claim of a caller that is already gone is lost at once; a closed    *)
(* queue has no other callers.                                             *)
Claim ==
    /\ backlog # <<>>
    /\ backlog' = Tail(backlog)
    /\ \/ open /\ transit' = transit \cup {Head(backlog)}
       \/ Lossy /\ transit' = transit
    /\ UNCHANGED <<open, accepted, received>>

Newest(c, k) == \A i \in DOMAIN received[c] : received[c][i] < k

(* A Pop called before Close may still return what it has claimed.         *)
Return(c, k) ==
    /\ k \in transit
    /\ Newest(c, k)
    /\ transit' = transit \ {k}
    /\ received' = [received EXCEPT ![c] = Append(@, k)]
    /\ UNCHANGED <<open, accepted, backlog>>

(* Claim and Return in one step.                                           *)
Take(c) ==
    /\ open \/ "pop" \in Late
    /\ backlog # <<>>
    /\ Newest(c, Head(backlog))
    /\ backlog' = Tail(backlog)
    /\ received' = [received EXCEPT ![c] = Append(@, Head(backlog))]
    /\ UNCHANGED <<open, accepted, transit>>

Lose ==
    /\ Lossy
    /\ \E kept \in SUBSET transit : transit' = kept
    /\ UNCHANGED <<open, accepted, backlog, received>>

Next ==
    \/ Open \/ Shut
    \/ Accept
    \/ Claim
    \/ \E c \in Consumers : (\E k \in transit : Return(c, k)) \/ Take(c)
    \/ Lose

Spec == Init /\ [][Next]_vars
=============================================================================
