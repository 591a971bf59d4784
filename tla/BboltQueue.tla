----------------------------- MODULE BboltQueue -----------------------------
(***************************************************************************)
(* The persistent queue of pkg/executor/queue/bbolt.go.                    *)
(*                                                                         *)
(* Every transaction of the database is made by one goroutine (writeLoop)  *)
(* that receives requests over the channel writes.  Push and Pop send a    *)
(* request and wait for the answer on a channel of capacity one; both also *)
(* watch the channel done that Close closes, and the caller's context.     *)
(* A Go select takes any of its ready cases, so done is never preferred to *)
(* another ready case: each case is an action (or a disjunct) of its own.  *)
(*                                                                         *)
(* A crash may happen between any two steps; what db.Update committed is   *)
(* what NewBboltQueue finds again.  An event is identified by the bucket   *)
(* key it is stored under, a payload by the Push call that carries it.     *)
(***************************************************************************)
EXTENDS Integers, Sequences, FiniteSets

CONSTANTS
    Pushers,     \* goroutines that call Push
    Poppers,     \* goroutines that call Pop
    Cancellable, \* the callers whose context may be cancelled
    WriteCap,    \* capacity of the channel writes (64 in the code)
    MaxPush,     \* bound: number of Push calls
    MaxFaults    \* bound: number of failing transactions

Callers == Pushers \cup Poppers

ASSUME CallersAssumption ==
    /\ Pushers \cap Poppers = {} /\ IsFiniteSet(Poppers)
    /\ Cancellable \subseteq Callers

ASSUME BoundsAssumption ==
    /\ WriteCap \in Nat \ {0}
    /\ MaxPush \in Nat
    /\ MaxFaults \in Nat

VARIABLES
    \* the file: counters (0 is an absent counter) and the stored events
    seq, read, store,
    \* the queue object: life of the process, done, writes, the write loop
    status, done, writes, loopPc, loopOp, loopRes,
    \* the callers: where each one is, its answer channel, its context
    pushPc, pushId, pushRes, popPc, popRes, cancelled,
    \* history: payload of every key ever written, keys handed to each
    \* popper, payloads whose Push returned nil
    log, delivered, acked,
    \* counters that the bounds cap
    pushes, faults

file     == <<seq, read, store>>
object   == <<status, done, writes, loopPc, loopOp, loopRes>>
pushVars == <<pushPc, pushId, pushRes>>
popVars  == <<popPc, popRes>>
history  == <<log, delivered, acked>>
counters == <<pushes, faults>>

vars == <<file, object, pushVars, popVars, cancelled, history, counters>>

-----------------------------------------------------------------------------
(* The requests (writeOp) and answers (popResult) on the channels.  sent   *)
(* says whether the answer channel holds the answer.                       *)

WriteOp == [kind : {"push", "pop"}, caller : Callers, payload : Nat]

NoOp == [kind |-> "none"]

PopResult == [sent : BOOLEAN, err : BOOLEAN, found : BOOLEAN, key : Nat]

NoResult == [sent |-> FALSE, err |-> FALSE, found |-> FALSE, key |-> 0]

PushRequest(c) == [kind |-> "push", caller |-> c, payload |-> pushId[c]]

PopRequest(c) == [kind |-> "pop", caller |-> c, payload |-> 0]

Init ==
    /\ seq = 0 /\ read = 0 /\ store = <<>>
    /\ status = "down" /\ done = FALSE /\ writes = <<>>
    /\ loopPc = "exited" /\ loopOp = NoOp /\ loopRes = NoResult
    /\ pushPc = [c \in Pushers |-> "idle"]
    /\ pushId = [c \in Pushers |-> 0]
    /\ pushRes = [c \in Pushers |-> "none"]
    /\ popPc = [c \in Poppers |-> "idle"]
    /\ popRes = [c \in Poppers |-> NoResult]
    /\ cancelled = {}
    /\ log = <<>> /\ acked = {}
    /\ delivered = [c \in Poppers |-> <<>>]
    /\ pushes = 0 /\ faults = 0

(* Mutant: NewBboltQueue resets the counters of a bucket that exists.      *)
NewBboltQueueResets ==
    /\ status = "down"
    /\ seq' = 1 /\ read' = 1
    /\ status' = "up" /\ done' = FALSE /\ writes' = <<>>
    /\ loopPc' = "select"
    /\ UNCHANGED <<store, loopOp, loopRes, pushVars, popVars, cancelled,
                   history, counters>>

(* NewBboltQueue: absent counters are written as 1, present ones are kept. *)
NewBboltQueue ==
    /\ status = "down"
    /\ seq' = IF seq = 0 THEN 1 ELSE seq
    /\ read' = IF read = 0 THEN 1 ELSE read
    /\ status' = "up" /\ done' = FALSE /\ writes' = <<>>
    /\ loopPc' = "select"
    /\ UNCHANGED <<store, loopOp, loopRes, pushVars, popVars, cancelled,
                   history, counters>>

-----------------------------------------------------------------------------
(* Push and safeSend.                                                      *)

(* A call that finds done closed returns ErrQueueClosed without a trace.   *)
PushStart(c) ==
    /\ status = "up" /\ ~done
    /\ pushPc[c] = "idle"
    /\ pushes < MaxPush
    /\ pushes' = pushes + 1
    /\ pushPc' = [pushPc EXCEPT ![c] = "send"]
    /\ pushId' = [pushId EXCEPT ![c] = pushes + 1]
    /\ UNCHANGED <<file, object, pushRes, popVars, cancelled, history, faults>>

(* The call returns: its locals and its context are gone.                  *)
PushLeaves(c) ==
    /\ pushPc' = [pushPc EXCEPT ![c] = "idle"]
    /\ pushId' = [pushId EXCEPT ![c] = 0]
    /\ pushRes' = [pushRes EXCEPT ![c] = "none"]
    /\ cancelled' = cancelled \ {c}

PushSend(c) ==
    /\ pushPc[c] = "send"
    /\ Len(writes) < WriteCap
    /\ writes' = Append(writes, PushRequest(c))
    /\ pushPc' = [pushPc EXCEPT ![c] = "wait"]
    /\ UNCHANGED <<file, status, done, loopPc, loopOp, loopRes, pushId,
                   pushRes, popVars, cancelled, history, counters>>

(* ErrQueueClosed or ctx.Err(), from either select: the request may stay   *)
(* in writes.                                                              *)
PushGiveUp(c) ==
    /\ pushPc[c] \in {"send", "wait"}
    /\ done \/ c \in cancelled
    /\ PushLeaves(c)
    /\ UNCHANGED <<file, object, popVars, history, counters>>

PushReturn(c) ==
    /\ pushPc[c] = "wait"
    /\ pushRes[c] # "none"
    /\ PushLeaves(c)
    /\ acked' = IF pushRes[c] = "nil" THEN acked \cup {pushId[c]} ELSE acked
    /\ UNCHANGED <<file, object, popVars, log, delivered, counters>>

-----------------------------------------------------------------------------
(* Pop and claimOnce.                                                      *)

(* The polling select with a default case, then claimOnce: a call that     *)
(* finds done closed or its context cancelled returns without a trace.     *)
PopStart(c) ==
    /\ status = "up" /\ ~done
    /\ popPc[c] = "idle"
    /\ popPc' = [popPc EXCEPT ![c] = "send"]
    /\ UNCHANGED <<file, object, pushVars, popRes, cancelled, history, counters>>

PopSend(c) ==
    /\ popPc[c] = "send"
    /\ Len(writes) < WriteCap
    /\ writes' = Append(writes, PopRequest(c))
    /\ popPc' = [popPc EXCEPT ![c] = "wait"]
    /\ UNCHANGED <<file, status, done, loopPc, loopOp, loopRes, pushVars,
                   popRes, cancelled, history, counters>>

(* Mutant: the wait for the answer watches the context too.                *)
PopGiveUpWaiting(c) ==
    /\ popPc[c] \in {"send", "wait", "tick"}
    /\ done \/ c \in cancelled
    /\ popPc' = [popPc EXCEPT ![c] = "idle"]
    /\ cancelled' = cancelled \ {c}
    /\ UNCHANGED <<file, object, pushVars, popRes, history, counters>>

(* ErrQueueClosed or ctx.Err().  A call that waits for its answer does not *)
(* watch the context: a claim must not be dropped.                         *)
PopGiveUp(c) ==
    /\ popPc[c] \in {"send", "tick"}
    /\ done \/ c \in cancelled
    /\ popPc' = [popPc EXCEPT ![c] = "idle"]
    /\ cancelled' = cancelled \ {c}
    /\ UNCHANGED <<file, object, pushVars, popRes, history, counters>>

(* Mutant: found is looked at before the error.                            *)
TakeAnswerFoundFirst(c) ==
    LET res == popRes[c] IN
    /\ res.sent
    /\ popRes' = [popRes EXCEPT ![c] = NoResult]
    /\ popPc' = [popPc EXCEPT ![c] =
                   IF res.err \/ res.found THEN "idle" ELSE "tick"]
    /\ cancelled' = IF res.err \/ res.found THEN cancelled \ {c} ELSE cancelled
    /\ delivered' = IF res.found
                    THEN [delivered EXCEPT ![c] = Append(@, res.key)]
                    ELSE delivered

(* What Pop does with the answer of claimOnce: an error is looked at       *)
(* before found.                                                           *)
TakeAnswer(c) ==
    LET res == popRes[c] IN
    /\ res.sent
    /\ popRes' = [popRes EXCEPT ![c] = NoResult]
    /\ \/ /\ ~res.err /\ ~res.found
          /\ popPc' = [popPc EXCEPT ![c] = "tick"]
          /\ UNCHANGED <<cancelled, delivered>>
       \/ /\ res.err \/ res.found
          /\ popPc' = [popPc EXCEPT ![c] = "idle"]
          /\ cancelled' = cancelled \ {c}
          /\ delivered' = IF res.err THEN delivered
                          ELSE [delivered EXCEPT ![c] = Append(@, res.key)]

PopReturn(c) ==
    /\ popPc[c] = "wait"
    /\ TakeAnswer(c)
    /\ UNCHANGED <<file, object, pushVars, log, acked, counters>>

(* Mutant: the waiting select watches the context in place of done.        *)
PopInterruptedByContext(c) ==
    /\ popPc[c] = "wait"
    /\ c \in cancelled
    /\ popPc' = [popPc EXCEPT ![c] = "drain"]
    /\ UNCHANGED <<file, object, pushVars, popRes, cancelled, history, counters>>

(* The waiting select takes its done case; a second select then looks at   *)
(* the answer channel without blocking.                                    *)
PopInterrupted(c) ==
    /\ popPc[c] = "wait"
    /\ done
    /\ popPc' = [popPc EXCEPT ![c] = "drain"]
    /\ UNCHANGED <<file, object, pushVars, popRes, cancelled, history, counters>>

PopDrain(c) ==
    /\ popPc[c] = "drain"
    /\ \/ TakeAnswer(c)
       \/ /\ ~popRes[c].sent
          /\ popPc' = [popPc EXCEPT ![c] = "idle"]
          /\ cancelled' = cancelled \ {c}
          /\ UNCHANGED <<popRes, delivered>>
    /\ UNCHANGED <<file, object, pushVars, log, acked, counters>>

(* Mutant: the tick does not go back to the head of the loop.              *)
PopTickStays(c) ==
    /\ popPc[c] = "tick"
    /\ ~done /\ c \notin cancelled
    /\ UNCHANGED vars

(* The ticker fires and the polling select at the head of the loop finds   *)
(* neither done nor the context closed.                                    *)
PopTick(c) ==
    /\ popPc[c] = "tick"
    /\ ~done /\ c \notin cancelled
    /\ popPc' = [popPc EXCEPT ![c] = "send"]
    /\ UNCHANGED <<file, object, pushVars, popRes, cancelled, history, counters>>

Cancel(c) ==
    /\ c \in Cancellable \ cancelled
    /\ IF c \in Pushers THEN pushPc[c] # "idle" ELSE popPc[c] # "idle"
    /\ cancelled' = cancelled \cup {c}
    /\ UNCHANGED <<file, object, pushVars, popVars, history, counters>>

-----------------------------------------------------------------------------
(* writeLoop: receive a request, commit its transaction, answer it.  The   *)
(* receive and the commit are one step: what happens between them is seen  *)
(* by nobody but a sender that waits for room in writes.                   *)

LoopReceive(kind) ==
    /\ loopPc = "select"
    /\ writes # <<>>
    /\ Head(writes).kind = kind
    /\ writes' = Tail(writes)
    /\ loopOp' = Head(writes)
    /\ loopPc' = "answer"
    /\ UNCHANGED <<status, done, pushVars, popVars, cancelled, delivered,
                   acked, pushes>>

(* The transaction fails: nothing is stored.  A claim whose commit fails   *)
(* has already filled in the payload it read.                              *)
LoopFault(kind) ==
    /\ LoopReceive(kind)
    /\ faults < MaxFaults
    /\ faults' = faults + 1
    /\ \E found \in IF kind = "pop" /\ read \in DOMAIN store
                    THEN BOOLEAN ELSE {FALSE} :
         loopRes' = [sent |-> TRUE, err |-> TRUE, found |-> found,
                     key |-> IF found THEN read ELSE 0]
    /\ UNCHANGED <<file, log>>

(* writePush: put the payload under seq and advance seq.                   *)
WritePush ==
    /\ LoopReceive("push")
    /\ store' = [k \in DOMAIN store \cup {seq} |->
                   IF k = seq THEN Head(writes).payload ELSE store[k]]
    /\ seq' = seq + 1
    /\ log' = Append(log, Head(writes).payload)
    /\ loopRes' = [sent |-> TRUE, err |-> FALSE, found |-> FALSE, key |-> 0]
    /\ UNCHANGED <<read, faults>>

(* readAndClaim: delete the event under read and advance read, or report   *)
(* that there is none.                                                     *)
ReadAndClaim ==
    /\ LoopReceive("pop")
    /\ \/ /\ read \in DOMAIN store
          /\ store' = [k \in DOMAIN store \ {read} |-> store[k]]
          /\ read' = read + 1
          /\ loopRes' = [sent |-> TRUE, err |-> FALSE, found |-> TRUE,
                         key |-> read]
       \/ /\ read \notin DOMAIN store
          /\ loopRes' = [sent |-> TRUE, err |-> FALSE, found |-> FALSE,
                         key |-> 0]
          /\ UNCHANGED <<store, read>>
    /\ UNCHANGED <<seq, log, faults>>

(* Mutant: the error of db.Update is not passed on.                        *)
PushAnswerNil(res) == "nil"

(* What safeSend returns for the answer of db.Update.                      *)
PushAnswer(res) == IF res.err THEN "err" ELSE "nil"

(* The answer reaches the caller that still waits for this very request;   *)
(* any other answer channel has been forgotten by its caller.              *)
LoopAnswer ==
    /\ loopPc = "answer"
    /\ loopPc' = "select"
    /\ LET c == loopOp.caller IN
       /\ pushRes' = IF /\ loopOp.kind = "push"
                        /\ pushPc[c] = "wait"
                        /\ pushId[c] = loopOp.payload
                     THEN [pushRes EXCEPT ![c] = PushAnswer(loopRes)]
                     ELSE pushRes
       /\ popRes' = IF loopOp.kind = "pop" /\ popPc[c] \in {"wait", "drain"}
                    THEN [popRes EXCEPT ![c] = loopRes]
                    ELSE popRes
    /\ loopRes' = NoResult /\ loopOp' = NoOp
    /\ UNCHANGED <<file, status, done, writes, pushPc, pushId, popPc,
                   cancelled, history, counters>>

(* Mutant: a send with a default case drops the answer at any time.        *)
LoopDropAnswerAlways ==
    /\ loopPc = "answer"
    /\ loopPc' = "select"
    /\ loopRes' = NoResult /\ loopOp' = NoOp
    /\ UNCHANGED <<file, status, done, writes, pushVars, popVars,
                   cancelled, history, counters>>

(* The answering select takes its done case instead.                       *)
LoopDropAnswer ==
    /\ loopPc = "answer"
    /\ done
    /\ loopPc' = "select"
    /\ loopRes' = NoResult /\ loopOp' = NoOp
    /\ UNCHANGED <<file, status, done, writes, pushVars, popVars,
                   cancelled, history, counters>>

(* Mutant: done is only looked at when a request arrives.                  *)
LoopExitOnRequest ==
    /\ loopPc = "select"
    /\ done /\ writes # <<>>
    /\ loopPc' = "exited"
    /\ UNCHANGED <<file, status, done, writes, loopOp, loopRes, pushVars,
                   popVars, cancelled, history, counters>>

LoopExit ==
    /\ loopPc = "select"
    /\ done
    /\ loopPc' = "exited"
    /\ UNCHANGED <<file, status, done, writes, loopOp, loopRes, pushVars,
                   popVars, cancelled, history, counters>>

-----------------------------------------------------------------------------
(* Close: close(done), wait for the write loop, close the database.        *)

Close ==
    /\ status = "up" /\ ~done
    /\ done' = TRUE
    /\ UNCHANGED <<file, status, writes, loopPc, loopOp, loopRes, pushVars,
                   popVars, cancelled, history, counters>>

CloseReturn ==
    /\ status = "up" /\ done /\ loopPc = "exited"
    /\ status' = "closed"
    /\ UNCHANGED <<file, done, writes, loopPc, loopOp, loopRes, pushVars,
                   popVars, cancelled, history, counters>>

(* The process ends: a crash at any moment, or after Close has returned.   *)
(* Everything but the file is gone.                                        *)
ProcessEnds ==
    /\ status # "down"
    /\ status' = "down" /\ done' = FALSE /\ writes' = <<>>
    /\ loopPc' = "exited" /\ loopRes' = NoResult /\ loopOp' = NoOp
    /\ pushPc' = [c \in Pushers |-> "idle"]
    /\ pushId' = [c \in Pushers |-> 0]
    /\ pushRes' = [c \in Pushers |-> "none"]
    /\ popPc' = [c \in Poppers |-> "idle"]
    /\ popRes' = [c \in Poppers |-> NoResult]
    /\ cancelled' = {}
    /\ UNCHANGED <<file, history, counters>>

LoopStep ==
    \/ WritePush
    \/ ReadAndClaim
    \/ LoopAnswer
    \/ LoopDropAnswer
    \/ LoopExit

PushStep(c) ==
    \/ PushSend(c)
    \/ PushGiveUp(c)
    \/ PushReturn(c)

PopStep(c) ==
    \/ PopSend(c)
    \/ PopGiveUp(c)
    \/ PopReturn(c)
    \/ PopInterrupted(c)
    \/ PopDrain(c)
    \/ PopTick(c)

Next ==
    \/ NewBboltQueue
    \/ \E c \in Pushers : PushStart(c) \/ PushStep(c)
    \/ \E c \in Poppers : PopStart(c) \/ PopStep(c)
    \/ \E c \in Callers : Cancel(c)
    \/ LoopStep
    \/ \E kind \in {"push", "pop"} : LoopFault(kind)
    \/ Close
    \/ CloseReturn
    \/ ProcessEnds

Spec == Init /\ [][Next]_vars

(* The Go scheduler runs every goroutine that can go on, and an executor   *)
(* calls Pop again after each event; nobody is obliged to push, to cancel, *)
(* to close or to crash.                                                   *)
Fairness ==
    /\ WF_vars(LoopStep)
    /\ WF_vars(CloseReturn)
    /\ \A c \in Pushers : WF_vars(PushStep(c))
    /\ \A c \in Poppers : WF_vars(PopStart(c) \/ PopStep(c))

FairSpec == Spec /\ Fairness

-----------------------------------------------------------------------------
(* Properties.                                                             *)

(* Len(): the distance between the two counters.                           *)
QueueLen == IF seq < read THEN 0 ELSE seq - read

(* The keys handed to some popper; the claimed keys on their way to a      *)
(* popper that will still look at its answer; the claimed keys that are    *)
(* neither, which no Pop will ever return.                                 *)
Delivered ==
    UNION {{delivered[c][i] : i \in DOMAIN delivered[c]} : c \in Poppers}

Claimed(res) == res.sent /\ res.found /\ ~res.err

Awaited(op) == op.kind = "pop" /\ popPc[op.caller] \in {"wait", "drain"}

InFlight ==
    {popRes[c].key : c \in {p \in Poppers : Claimed(popRes[p])}}
    \cup {k \in {loopRes.key} : Claimed(loopRes) /\ Awaited(loopOp)}

Lost == (1..(read - 1)) \ (Delivered \cup InFlight)

(* Every variable stays in its type.                                       *)
TypeOK ==
    /\ seq \in Nat /\ read \in Nat
    /\ store \in [DOMAIN store -> Nat]
    /\ status \in {"down", "up", "closed"}
    /\ done \in BOOLEAN
    /\ writes \in Seq(WriteOp)
    /\ loopPc \in {"select", "answer", "exited"}
    /\ loopOp \in WriteOp \cup {NoOp}
    /\ loopPc = "answer" => loopOp \in WriteOp
    /\ loopRes \in PopResult
    /\ pushPc \in [Pushers -> {"idle", "send", "wait"}]
    /\ pushId \in [Pushers -> Nat]
    /\ pushRes \in [Pushers -> {"none", "nil", "err"}]
    /\ popPc \in [Poppers -> {"idle", "send", "wait", "drain", "tick"}]
    /\ popRes \in [Poppers -> PopResult]
    /\ cancelled \in SUBSET Callers
    /\ log \in Seq(Nat)
    /\ delivered \in [Poppers -> Seq(Nat)]
    /\ acked \in SUBSET Nat
    /\ pushes \in Nat /\ faults \in Nat

(* The file always holds exactly the events between the two counters, each *)
(* with the payload that was pushed under its key: no event is overwritten *)
(* or skipped by a push, a claim, a failed transaction, a crash or a       *)
(* second NewBboltQueue on the same file.  Len reports their number.       *)
StoreMatchesCounters ==
    /\ DOMAIN store = read..(seq - 1)
    /\ \A k \in DOMAIN store : store[k] = log[k]
    /\ QueueLen = Cardinality(DOMAIN store)

(* Pop hands each event to at most one caller, once, restarts included     *)
(* ("Only one concurrent Pop gets each event", bbolt.go:46).               *)
AtMostOnce ==
    \A c, d \in Poppers :
      \A i \in DOMAIN delivered[c], j \in DOMAIN delivered[d] :
        delivered[c][i] = delivered[d][j] => c = d /\ i = j

(* Each caller of Pop receives events in the order they were pushed.       *)
PopperFIFO ==
    \A c \in Poppers :
      \A i, j \in DOMAIN delivered[c] :
        i < j => delivered[c][i] < delivered[c][j]

Stored(p) == \E k \in DOMAIN log : log[k] = p

(* A payload whose Push returned nil is in the file or has been claimed:   *)
(* the commit precedes the answer.                                         *)
AckedIsDurable == \A p \in acked : Stored(p)

(* The file agrees with the counters and with what was pushed.             *)
FileInv ==
    /\ read <= seq /\ (read = 0 <=> seq = 0)
    /\ loopPc # "exited" => seq > 0
    /\ DOMAIN store = read..(seq - 1)
    /\ Len(log) = IF seq = 0 THEN 0 ELSE seq - 1
    /\ \A k \in DOMAIN store : store[k] = log[k]

(* A claimed key is on its way at one place only, the loop's claim is the  *)
(* newest one, and each caller's claim is newer than all it has received.  *)
KeyInv ==
    /\ \A c \in Poppers : \A i \in DOMAIN delivered[c] : delivered[c][i] < read
    /\ \A c \in Poppers : Claimed(popRes[c]) =>
         /\ popRes[c].key < read
         /\ \A i \in DOMAIN delivered[c] : delivered[c][i] < popRes[c].key
         /\ \A d \in Poppers : \A i \in DOMAIN delivered[d] :
              delivered[d][i] # popRes[c].key
         /\ \A d \in Poppers \ {c} :
              Claimed(popRes[d]) => popRes[d].key # popRes[c].key
    /\ Claimed(loopRes) =>
         /\ loopRes.key < read
         /\ \A c \in Poppers :
              /\ \A i \in DOMAIN delivered[c] : delivered[c][i] < loopRes.key
              /\ Claimed(popRes[c]) => popRes[c].key < loopRes.key

(* A nil answer follows a commit, wherever the answer is.                  *)
AckInv ==
    /\ \A c \in Pushers :
         /\ pushRes[c] # "none" => pushPc[c] = "wait"
         /\ pushRes[c] = "nil" => Stored(pushId[c])
    /\ loopPc = "answer" /\ loopOp.kind = "push" /\ ~loopRes.err =>
         Stored(loopOp.payload)
    /\ \A p \in acked : Stored(p)

(* The inductive invariant behind the four invariants above, over every    *)
(* step of writeLoop, Push, Pop, Close and a restart.                      *)
QueueInv == FileInv /\ KeyInv /\ AtMostOnce /\ PopperFIFO /\ AckInv

(* A caller with a request that the loop has not answered, or whose answer *)
(* it has not read.                                                        *)
Outstanding(c) ==
    \/ popPc[c] \in {"wait", "drain"}
    \/ done /\ \E i \in DOMAIN writes : writes[i] = PopRequest(c)

(* No step, a crash included, loses more events than there are outstanding *)
(* callers: the loop never claims ahead of demand, and a Pop that Close    *)
(* interrupts leaves at most one request behind.                           *)
LossBound ==
    [][Cardinality(Lost' \ Lost) <=
         Cardinality({c \in Poppers : Outstanding(c)})]_vars

(* As long as the queue is open and the process lives, no claimed event is *)
(* dropped, whatever contexts are cancelled and transactions fail.         *)
NoLossWhileOpen == [][~done /\ status' # "down" => Lost' \subseteq Lost]_vars

Backlog == [i \in 1..QueueLen |-> read + i - 1]

EQ == INSTANCE EventQueue
        WITH Consumers <- Poppers, Lossy <- TRUE, Late <- {},
             open <- status = "up", accepted <- Len(log),
             backlog <- Backlog, transit <- InFlight, received <- delivered

(* The queue keeps the contract of the interface across crashes, restarts  *)
(* and failing transactions, its clause on Close included: once Close has  *)
(* returned nothing is accepted or claimed.  The only thing it may do      *)
(* besides is lose a claimed event.                                        *)
ImplementsEventQueue == EQ!Spec

(* Close returns: the write loop never stays blocked on an answer nobody   *)
(* receives.                                                               *)
CloseReturns == (status = "up" /\ done) ~> (status # "up")

(* Close releases every caller blocked in Push or Pop.                     *)
CloseReleasesCallers ==
    /\ \A c \in Pushers : (done /\ pushPc[c] # "idle") ~> (pushPc[c] = "idle")
    /\ \A c \in Poppers : (done /\ popPc[c] # "idle") ~> (popPc[c] = "idle")

(* A stored event is claimed in the end while the queue stays open: the    *)
(* loop and the pollers do not starve it.                                  *)
StoredIsClaimed ==
    \A k \in 1..MaxPush :
      (k \in DOMAIN store) ~> (k \notin DOMAIN store \/ done \/ status = "down")
=============================================================================
