------------------------------ MODULE Dispatch ------------------------------
(***************************************************************************)
(* Executors that take events from a shared Redis list and suppress those  *)
(* they handled before: RedisQueue (pkg/executor/queue/redis.go) and the   *)
(* deduplication window (pkg/dedup/window.go), used in one of the two ways *)
(* its documentation describes: Contains, the action, and Mark after       *)
(* success, or IsDuplicate and then the action.                            *)
(*                                                                         *)
(* An element of the list is its number and its key: an event that the     *)
(* client stores twice is two elements.  Time is a counter; a moment of 0  *)
(* stands for never.                                                       *)
(***************************************************************************)
EXTENDS Integers, Sequences

CONSTANTS
    Executors, Keys,
    TTL,                          \* 0 switches the window off
    MaxEvents, MaxTime, MaxRepeats  \* bounds

ASSUME DispatchAssumption == TTL \in Nat

VARIABLES
    pattern,   \* "after" (Contains, act, Mark) or "wrapper" (IsDuplicate, act)
    list,      \* external: the Redis list, next element first
    pushed,    \* the number of elements stored so far
    sending,   \* the key of the last Push; its reply may be on its way
    repeats,   \* external: commands whose reply was lost, sent again by the client
    done,      \* RedisQueue.done is closed
    stage, item, \* of each executor: its place, and the element it has
    returned,  \* history: the elements Pop returned to each executor
    now,
    entries,   \* Window.entries: the deadline of each key, 0 when absent
    admitted   \* history: when a consumer last acted (or was told to) on a key

dispatchVars == <<pattern, list, pushed, sending, repeats, done, stage, item, returned,
                  now, entries, admitted>>
pushVars == <<pushed, sending, repeats>>
queueVars == <<list, pushVars, done, returned>>
windowVars == <<now, entries, admitted>>

Goto(c, place) == stage' = [stage EXCEPT ![c] = place]

-----------------------------------------------------------------------------
(* The window.                                                             *)

(* A deadline that has come counts as absent.                              *)
Contains(key) == TTL # 0 /\ entries[key] > now

(* Mutant: a key that still has an entry keeps its old deadline.           *)
MarkBatchOnce(keys) ==
    entries' = [k \in Keys |->
                  IF TTL # 0 /\ k \in keys /\ entries[k] = 0 THEN now + TTL
                  ELSE IF entries[k] > now THEN entries[k] ELSE 0]

(* Mark of one key, MarkBatch of several: new deadlines, and every expired *)
(* entry is deleted.                                                       *)
MarkBatch(keys) ==
    entries' = [k \in Keys |->
                  IF TTL # 0 /\ k \in keys THEN now + TTL
                  ELSE IF entries[k] > now THEN entries[k] ELSE 0]

Admit(c, key) == admitted' = [admitted EXCEPT ![c][key] = now]

-----------------------------------------------------------------------------
(* RedisQueue.                                                             *)

(* LPUSH at the server.                                                    *)
Store(key) ==
    /\ pushed' = pushed + 1
    /\ list' = Append(list, <<pushed + 1, key>>)

(* Push: LPUSH unless the queue is closed; once client.Close has run no    *)
(* command is sent.                                                        *)
RedisPush(key) ==
    /\ ~done /\ pushed < MaxEvents
    /\ Store(key) /\ sending' = key
    /\ UNCHANGED <<pattern, repeats, done, stage, item, returned, windowVars>>

(* External: the reply was lost and the client sends LPUSH again, as often *)
(* as it is configured to (MaxRepeats).                                    *)
LPushAgain ==
    /\ ~done /\ pushed # 0
    /\ repeats < MaxRepeats /\ repeats' = repeats + 1
    /\ Store(sending)
    /\ UNCHANGED <<pattern, sending, done, stage, item, returned, windowVars>>

(* The head of Pop's loop: a closed queue or a cancelled context ends the  *)
(* executor, otherwise BRPOP is sent.                                      *)
Pop(c) ==
    /\ stage[c] = "pop"
    /\ \/ Goto(c, "stopped")
       \/ ~done /\ Goto(c, "wait")
    /\ UNCHANGED <<pattern, item, queueVars, windowVars>>

(* Mutant: BLPOP, the end of the list at which LPUSH adds.                 *)
BLPop(c) ==
    /\ stage[c] = "wait" /\ list # <<>>
    /\ item' = [item EXCEPT ![c] = list[Len(list)]]
    /\ list' = SubSeq(list, 1, Len(list) - 1)
    /\ Goto(c, IF done THEN "stopped" ELSE "reply")
    /\ UNCHANGED <<pattern, pushVars, done, returned, windowVars>>

(* BRPOP at the server: the element is gone before the reply arrives; the  *)
(* reply to a client that is closed never does, and Pop returns            *)
(* ErrQueueClosed.                                                         *)
BRPop(c) ==
    /\ stage[c] = "wait" /\ list # <<>>
    /\ item' = [item EXCEPT ![c] = Head(list)]
    /\ list' = Tail(list)
    /\ Goto(c, IF done THEN "stopped" ELSE "reply")
    /\ UNCHANGED <<pattern, pushVars, done, returned, windowVars>>

(* External: the connection breaks before the reply arrives, and the       *)
(* client sends BRPOP again; the element is lost.                          *)
BRPopAgain(c) ==
    /\ stage[c] = "reply" /\ ~done
    /\ repeats < MaxRepeats /\ repeats' = repeats + 1
    /\ Goto(c, "wait")
    /\ UNCHANGED <<pattern, item, list, pushed, sending, done, returned, windowVars>>

(* The reply arrives, or after a second of an empty list redis.Nil.        *)
PopReturns(c) ==
    /\ \/ /\ stage[c] = "reply" /\ Goto(c, "check")
          /\ returned' = [returned EXCEPT ![c] = Append(@, item[c][1])]
       \/ /\ stage[c] = "wait" /\ list = <<>> /\ Goto(c, "pop")
          /\ UNCHANGED returned
    /\ UNCHANGED <<pattern, item, list, pushVars, done, windowVars>>

(* BRPOP ends with an error, and an element in the reply is lost.  Close   *)
(* or a cancelled context ends the executor; after any other error it      *)
(* waits and calls Pop again, as SentinelSource.Run does.                  *)
PopFails(c) ==
    /\ stage[c] \in {"wait", "reply"}
    /\ \/ Goto(c, "stopped")
       \/ ~done /\ Goto(c, "pop")
    /\ UNCHANGED <<pattern, item, queueVars, windowVars>>

RedisClose ==
    /\ ~done /\ done' = TRUE
    /\ UNCHANGED <<pattern, list, pushVars, stage, item, returned, windowVars>>

-----------------------------------------------------------------------------
(* The executor.                                                           *)

(* Contains, under the mutex of the window.                                *)
Check(c) ==
    /\ stage[c] = "check"
    /\ \/ Contains(item[c][2]) /\ Goto(c, "pop")
       \/ ~Contains(item[c][2]) /\ Goto(c, IF pattern = "after" THEN "act" ELSE "mark")
    /\ UNCHANGED <<pattern, item, queueVars, windowVars>>

(* Mutant: the key is marked whether or not the action succeeded.          *)
ActAnyway(c) ==
    /\ stage[c] = "act"
    /\ \/ pattern = "after" /\ Admit(c, item[c][2]) /\ Goto(c, "mark")
       \/ UNCHANGED admitted /\ Goto(c, IF pattern = "after" THEN "mark" ELSE "pop")
    /\ UNCHANGED <<pattern, item, queueVars, now, entries>>

(* The action succeeds or fails; a failed one is not marked.               *)
Act(c) ==
    /\ stage[c] = "act"
    /\ \/ pattern = "after" /\ Admit(c, item[c][2]) /\ Goto(c, "mark")
       \/ UNCHANGED admitted /\ Goto(c, "pop")
    /\ UNCHANGED <<pattern, item, queueVars, now, entries>>

(* Mark takes the mutex again; IsDuplicate does so before the action.      *)
Mark(c) ==
    /\ stage[c] = "mark"
    /\ MarkBatch({item[c][2]})
    /\ IF pattern = "after" THEN Goto(c, "pop") /\ UNCHANGED admitted
       ELSE Goto(c, "act") /\ Admit(c, item[c][2])
    /\ UNCHANGED <<pattern, item, queueVars, now>>

Tick ==
    /\ now < MaxTime /\ now' = now + 1
    /\ UNCHANGED <<pattern, queueVars, stage, item, entries, admitted>>

-----------------------------------------------------------------------------
DispatchInit ==
    /\ pattern \in {"after", "wrapper"}
    /\ list = <<>> /\ pushed = 0 /\ sending = "none" /\ repeats = 0 /\ done = FALSE
    /\ stage = [c \in Executors |-> "pop"]
    /\ item = [c \in Executors |-> <<>>]
    /\ returned = [c \in Executors |-> <<>>]
    /\ now = 1 /\ entries = [k \in Keys |-> 0]
    /\ admitted = [c \in Executors |-> [k \in Keys |-> 0]]

DispatchNext ==
    \/ \E k \in Keys : RedisPush(k)
    \/ LPushAgain
    \/ \E c \in Executors : \/ Pop(c) \/ BRPop(c) \/ BRPopAgain(c) \/ PopReturns(c)
                            \/ PopFails(c) \/ Check(c) \/ Act(c) \/ Mark(c)
    \/ RedisClose \/ Tick

DispatchSpec == DispatchInit /\ [][DispatchNext]_dispatchVars

-----------------------------------------------------------------------------
(* Properties.                                                             *)

(* A consumer is admitted to a key at most once in TTL, whatever the other *)
(* consumers mark, the clean-up deletes and Redis delivers twice.  So the  *)
(* gap between Contains and Mark lets through at most one action of each   *)
(* consumer per window.                                                    *)
OncePerWindow ==
    [][\A c \in Executors, k \in Keys :
         admitted[c][k] \notin {0, admitted'[c][k]}
           => admitted'[c][k] >= admitted[c][k] + TTL]_dispatchVars

(* With Mark after the action, an event is suppressed only when an action  *)
(* on its key has succeeded: a failed action is tried again.               *)
SuppressedWasDone ==
    pattern = "after" =>
      \A k \in Keys : Contains(k) => \E c \in Executors : admitted[c][k] # 0

Numbers == [i \in DOMAIN list |-> list[i][1]]
InReply == {item[c][1] : c \in {d \in Executors : stage[d] = "reply"}}

RedisEQ == INSTANCE EventQueue
             WITH Consumers <- Executors, Lossy <- TRUE, Late <- {}, open <- ~done,
                  accepted <- pushed, backlog <- Numbers, transit <- InReply,
                  received <- returned

(* The list keeps the contract of the Queue interface, its clause on Close *)
(* included, whatever connections break and commands are sent twice: the   *)
(* elements leave in the order they were stored, each to one executor, and *)
(* only one whose reply was under way is lost.                             *)
RedisImplementsEventQueue == RedisEQ!Spec
=============================================================================
