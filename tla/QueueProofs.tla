----------------------------- MODULE QueueProofs -----------------------------
(***************************************************************************)
(* The queues that are shared while the program runs.  The executors of a  *)
(* Redis list do one thing per key and window, and the list implements     *)
(* EventQueue, for any number of executors, keys and events and any        *)
(* window; the in-memory queue loses nothing accepted before Close and     *)
(* implements EventQueue but for its clause on Close, for any number of    *)
(* consumers and events and any capacity.                                  *)
(***************************************************************************)
EXTENDS MemoryQueue, Dispatch, TLAPS

-----------------------------------------------------------------------------
(* The executors of a Redis list.                                          *)

Places == {"pop", "wait", "reply", "check", "act", "mark", "stopped"}
Holding == {"reply", "check", "act", "mark"}

(* The types the arguments below need; an executor between Pop and the     *)
(* next Pop has an event with a key.                                       *)
DispatchTypes ==
    /\ pattern \in {"after", "wrapper"}
    /\ list \in Seq(Nat \X Keys) /\ pushed \in Nat
    /\ pushed # 0 => sending \in Keys
    /\ returned \in [Executors -> Seq(Nat)]
    /\ stage \in [Executors -> Places]
    /\ DOMAIN item = Executors
    /\ \A c \in Executors : stage[c] \in Holding => item[c] \in Nat \X Keys
    /\ now \in Nat \ {0}
    /\ entries \in [Keys -> Nat]
    /\ admitted \in [Executors -> [Keys -> Nat]]

(* The key an executor was told it may act on, before its history says so. *)
Cleared(c) == stage[c] = IF pattern = "after" THEN "act" ELSE "mark"

(* A key that an executor was admitted to is covered by its entry, or its  *)
(* time has passed, or the executor is on its way to Mark; when the check  *)
(* let an executor through, the time had passed.                           *)
WindowInv ==
    \A c \in Executors, k \in Keys :
      /\ admitted[c][k] <= now
      /\ admitted[c][k] # 0 =>
           \/ entries[k] >= admitted[c][k] + TTL
           \/ now >= admitted[c][k] + TTL
           \/ pattern = "after" /\ stage[c] = "mark" /\ item[c][2] = k
      /\ Cleared(c) /\ item[c][2] = k /\ admitted[c][k] # 0
           => now >= admitted[c][k] + TTL

-----------------------------------------------------------------------------
(* Admit writes one moment.                                                *)
LEMMA AdmitOne ==
    ASSUME DispatchTypes, NEW c \in Executors, NEW key \in Keys, Admit(c, key)
    PROVE  /\ admitted' \in [Executors -> [Keys -> Nat]]
           /\ \A d \in Executors, k \in Keys :
                admitted'[d][k] = IF d = c /\ k = key THEN now ELSE admitted[d][k]
<1> DEFINE row == [k \in Keys |-> IF k = key THEN now ELSE admitted[c][k]]
<1>1. admitted \in [Executors -> [Keys -> Nat]] /\ now \in Nat
  BY DEF DispatchTypes
<1>2. [admitted[c] EXCEPT ![key] = now] = row
  BY <1>1
<1>3. admitted' = [admitted EXCEPT ![c] = row]
  BY <1>2 DEF Admit
<1>4. row \in [Keys -> Nat]
  BY <1>1
<1>5. admitted' \in [Executors -> [Keys -> Nat]]
  BY <1>1, <1>3, <1>4
<1> QED
  BY <1>1, <1>3, <1>5

(* A Push stores an element, once or again.                                *)
RedisPushed == LPushAgain \/ \E k \in Keys : RedisPush(k)

(* Each step keeps the types.                                              *)
LEMMA DispatchTypesStep == DispatchTypes /\ [DispatchNext]_dispatchVars => DispatchTypes'
<1> SUFFICES ASSUME DispatchTypes, [DispatchNext]_dispatchVars PROVE DispatchTypes'
  OBVIOUS
<1> USE DispatchAssumption DEF Goto, Places, Holding, pushVars, queueVars, windowVars
<1>1. ASSUME RedisPushed PROVE DispatchTypes'
  <2>1. PICK k \in Keys : Store(k) /\ sending' = k
    BY <1>1 DEF RedisPushed, RedisPush, LPushAgain, DispatchTypes
  <2>2. pushed' \in Nat /\ list' = Append(list, <<pushed + 1, k>>)
    BY <2>1 DEF Store, DispatchTypes
  <2>3. <<pushed + 1, k>> \in Nat \X Keys
    BY DEF DispatchTypes
  <2>4. list' \in Seq(Nat \X Keys)
    BY <2>2, <2>3 DEF DispatchTypes
  <2>5. UNCHANGED <<pattern, stage, item, returned, now, entries, admitted>>
    BY <1>1 DEF RedisPushed, RedisPush, LPushAgain
  <2> QED
    BY <2>1, <2>2, <2>4, <2>5 DEF DispatchTypes
<1>2. ASSUME NEW c \in Executors, BRPop(c) PROVE DispatchTypes'
  <2>1. Head(list) \in Nat \X Keys /\ list' \in Seq(Nat \X Keys)
    BY <1>2 DEF BRPop, DispatchTypes
  <2> QED
    BY <1>2, <2>1 DEF BRPop, DispatchTypes
<1>3. ASSUME NEW c \in Executors, \/ Pop(c) \/ BRPopAgain(c) \/ PopReturns(c)
                                  \/ PopFails(c) \/ Check(c)
      PROVE  DispatchTypes'
  <2>1. UNCHANGED <<pattern, list, pushed, sending, item, now, entries, admitted>>
    BY <1>3 DEF Pop, BRPopAgain, PopReturns, PopFails, Check
  <2>3. returned' \in [Executors -> Seq(Nat)]
    <3>1. CASE UNCHANGED returned
      BY <3>1 DEF DispatchTypes
    <3>2. CASE /\ stage[c] = "reply"
               /\ returned' = [returned EXCEPT ![c] = Append(@, item[c][1])]
      <4>1. item[c][1] \in Nat /\ returned[c] \in Seq(Nat)
        BY <3>2 DEF DispatchTypes
      <4>2. Append(returned[c], item[c][1]) \in Seq(Nat)
        BY <4>1
      <4> QED
        BY <3>2, <4>2 DEF DispatchTypes
    <3> QED
      BY <1>3, <3>1, <3>2 DEF Pop, BRPopAgain, PopReturns, PopFails, Check
  <2>2. \E place \in Places : /\ stage' = [stage EXCEPT ![c] = place]
                              /\ place \in Holding => stage[c] \in Holding
    BY <1>3 DEF Pop, BRPopAgain, PopReturns, PopFails, Check
  <2> QED
    BY <2>1, <2>2, <2>3 DEF DispatchTypes
<1>4. ASSUME NEW c \in Executors, Act(c) PROVE DispatchTypes'
  <2>1. item[c][2] \in Keys
    BY <1>4 DEF Act, DispatchTypes
  <2>2. admitted' \in [Executors -> [Keys -> Nat]]
    BY <1>4, <2>1, AdmitOne DEF Act, DispatchTypes
  <2> QED
    BY <1>4, <2>2 DEF Act, DispatchTypes
<1>5. ASSUME NEW c \in Executors, Mark(c) PROVE DispatchTypes'
  <2>1. item[c][2] \in Keys
    BY <1>5 DEF Mark, DispatchTypes
  <2>2. admitted' \in [Executors -> [Keys -> Nat]]
    BY <1>5, <2>1, AdmitOne DEF Mark, DispatchTypes
  <2>3. entries' \in [Keys -> Nat]
    BY <1>5 DEF Mark, MarkBatch, DispatchTypes
  <2> QED
    BY <1>5, <2>2, <2>3 DEF Mark, DispatchTypes
<1>6. CASE RedisClose \/ Tick \/ UNCHANGED dispatchVars
  BY <1>6 DEF RedisClose, Tick, dispatchVars, DispatchTypes
<1> QED
  BY <1>1, <1>2, <1>3, <1>4, <1>5, <1>6 DEF DispatchNext, RedisPushed

-----------------------------------------------------------------------------
(* Mark replaces one deadline and drops only those that have passed.       *)
LEMMA MarkEntries ==
    ASSUME DispatchTypes, NEW key \in Keys, MarkBatch({key})
    PROVE  \A k \in Keys : /\ k = key => entries'[k] >= now + TTL \/ TTL = 0
                           /\ k # key => entries'[k] = entries[k] \/ entries[k] <= now
  BY DispatchAssumption DEF DispatchTypes, MarkBatch

(* The window covers every admission until its time has passed.            *)
LEMMA WindowStep == DispatchTypes /\ WindowInv /\ [DispatchNext]_dispatchVars => WindowInv'
<1> SUFFICES ASSUME DispatchTypes, WindowInv, [DispatchNext]_dispatchVars,
                    NEW d \in Executors, NEW k \in Keys
             PROVE  (/\ admitted[d][k] <= now
                     /\ admitted[d][k] # 0 =>
                          \/ entries[k] >= admitted[d][k] + TTL
                          \/ now >= admitted[d][k] + TTL
                          \/ pattern = "after" /\ stage[d] = "mark" /\ item[d][2] = k
                     /\ Cleared(d) /\ item[d][2] = k /\ admitted[d][k] # 0
                          => now >= admitted[d][k] + TTL)'
  BY DEF WindowInv
<1> DEFINE Good == /\ admitted[d][k] <= now
                   /\ admitted[d][k] # 0 =>
                        \/ entries[k] >= admitted[d][k] + TTL
                        \/ now >= admitted[d][k] + TTL
                        \/ pattern = "after" /\ stage[d] = "mark" /\ item[d][2] = k
                   /\ Cleared(d) /\ item[d][2] = k /\ admitted[d][k] # 0
                        => now >= admitted[d][k] + TTL
<1> USE DispatchAssumption, SMTT(30) DEF Goto, pushVars, queueVars, windowVars
<1>0. /\ Good
      /\ now \in Nat /\ now # 0 /\ entries[k] \in Nat /\ admitted[d][k] \in Nat
  BY DEF WindowInv, DispatchTypes
<1>1. CASE RedisClose \/ UNCHANGED dispatchVars \/ RedisPushed
  <2>1. UNCHANGED <<pattern, stage, item, now, entries, admitted>>
    BY <1>1, Zenon DEF RedisClose, RedisPushed, RedisPush, LPushAgain, dispatchVars
  <2> QED
    BY <1>0, <2>1 DEF Cleared
<1>2. CASE Tick
  BY <1>0, <1>2 DEF Tick, Cleared
<1>3. ASSUME NEW c \in Executors, BRPop(c) PROVE Good'
  <2>1. d = c => stage[d] = "wait" /\ stage'[d] \in {"reply", "stopped"}
    BY <1>3 DEF BRPop, DispatchTypes
  <2>2. d # c => stage'[d] = stage[d] /\ item'[d] = item[d]
    BY <1>3 DEF BRPop, DispatchTypes
  <2> QED
    BY <1>0, <1>3, <2>1, <2>2 DEF BRPop, Cleared
<1>4. ASSUME NEW c \in Executors, \/ Pop(c) \/ BRPopAgain(c) \/ PopReturns(c)
                                  \/ PopFails(c)
      PROVE  Good'
  <2>1. UNCHANGED <<pattern, item, now, entries, admitted>>
    BY <1>4 DEF Pop, BRPopAgain, PopReturns, PopFails
  <2>2. d = c => stage[d] # "mark" /\ stage'[d] \notin {"act", "mark"}
    BY <1>4 DEF Pop, BRPopAgain, PopReturns, PopFails, DispatchTypes
  <2>3. d # c => stage'[d] = stage[d]
    BY <1>4 DEF Pop, BRPopAgain, PopReturns, PopFails, DispatchTypes
  <2> QED
    BY <1>0, <2>1, <2>2, <2>3 DEF Cleared
<1>5. ASSUME NEW c \in Executors, Check(c) PROVE Good'
  <2>1. UNCHANGED <<pattern, item, now, entries, admitted>> /\ stage[c] = "check"
    BY <1>5 DEF Check
  <2>2. d # c => stage'[d] = stage[d]
    BY <1>5 DEF Check, DispatchTypes
  <2>3. d = c /\ item[d][2] = k => stage'[d] = "pop" \/ ~Contains(k)
    BY <1>5 DEF Check, DispatchTypes
  <2>4. ~Contains(k) => TTL = 0 \/ entries[k] <= now
    BY <1>0 DEF Contains
  <2>5. CASE d = c
    <3>1. admitted[d][k] # 0 => entries[k] >= admitted[d][k] + TTL \/ now >= admitted[d][k] + TTL
      BY <1>0, <2>1, <2>5
    <3>2. ~Contains(k) /\ admitted[d][k] # 0 => now >= admitted[d][k] + TTL
      BY <1>0, <2>4, <3>1
    <3> QED
      BY <1>0, <2>1, <2>3, <2>5, <3>1, <3>2 DEF Cleared
  <2> QED
    BY <1>0, <2>1, <2>2, <2>5 DEF Cleared
<1>6. ASSUME NEW c \in Executors, Act(c) PROVE Good'
  <2>1. UNCHANGED <<pattern, item, now, entries>> /\ stage[c] = "act" /\ item[c][2] \in Keys
    BY <1>6 DEF Act, DispatchTypes, Holding
  <2>2. d # c => stage'[d] = stage[d]
    BY <1>6 DEF Act, DispatchTypes
  <2>3. CASE UNCHANGED admitted /\ stage'[c] = "pop"
    BY <1>0, <2>1, <2>2, <2>3 DEF Cleared
  <2>4. CASE pattern = "after" /\ Admit(c, item[c][2]) /\ stage'[c] = "mark"
    <3>1. admitted'[d][k] = IF d = c /\ k = item[c][2] THEN now ELSE admitted[d][k]
      BY <2>1, <2>4, AdmitOne
    <3>2. CASE d = c /\ k = item[c][2]
      BY <1>0, <2>1, <2>4, <3>1, <3>2 DEF Cleared
    <3>3. CASE ~(d = c /\ k = item[c][2])
      BY <1>0, <2>1, <2>2, <2>4, <3>1, <3>3 DEF Cleared
    <3> QED
      BY <3>2, <3>3
  <2> QED
    BY <1>6, <2>3, <2>4 DEF Act, DispatchTypes
<1>7. ASSUME NEW c \in Executors, Mark(c) PROVE Good'
  <2>1. UNCHANGED <<pattern, item, now>> /\ stage[c] = "mark" /\ item[c][2] \in Keys
    BY <1>7 DEF Mark, DispatchTypes, Holding
  <2>2. d # c => stage'[d] = stage[d]
    BY <1>7 DEF Mark, DispatchTypes
  <2>3. /\ k = item[c][2] => entries'[k] >= now + TTL \/ TTL = 0
        /\ k # item[c][2] => entries'[k] = entries[k] \/ entries[k] <= now
        /\ entries'[k] \in Nat
    <3>1. MarkBatch({item[c][2]})
      BY <1>7 DEF Mark
    <3>2. entries'[k] \in Nat
      <4>1. DispatchTypes'
        BY DispatchTypesStep, Zenon
      <4> QED
        BY <4>1 DEF DispatchTypes
    <3> QED
      BY <2>1, <3>1, <3>2, MarkEntries, Zenon
  <2>4. CASE pattern = "after"
    <3>1. stage'[c] = "pop" /\ UNCHANGED admitted
      BY <1>7, <2>4 DEF Mark, DispatchTypes
    <3>2. CASE k = item[c][2]
      <4>1. entries'[k] >= admitted[d][k] + TTL \/ now >= admitted[d][k] + TTL
        BY <1>0, <2>3, <3>2
      <4> QED
        BY <1>0, <2>1, <2>2, <3>1, <4>1 DEF Cleared
    <3>3. CASE k # item[c][2]
      <4>1. entries[k] >= admitted[d][k] + TTL =>
              entries'[k] >= admitted[d][k] + TTL \/ now >= admitted[d][k] + TTL
        BY <1>0, <2>3, <3>3
      <4> QED
        BY <1>0, <2>1, <2>2, <3>1, <3>3, <4>1 DEF Cleared
    <3> QED
      BY <3>2, <3>3
  <2>5. CASE pattern # "after"
    <3>1. stage'[c] = "act" /\ Admit(c, item[c][2])
      BY <1>7, <2>5 DEF Mark, DispatchTypes
    <3>2. admitted'[d][k] = IF d = c /\ k = item[c][2] THEN now ELSE admitted[d][k]
      BY <2>1, <3>1, AdmitOne
    <3>3. CASE d = c /\ k = item[c][2]
      BY <1>0, <2>1, <2>3, <2>5, <3>1, <3>2, <3>3 DEF Cleared
    <3>4. CASE ~(d = c /\ k = item[c][2])
      <4>1. admitted'[d][k] = admitted[d][k]
        BY <3>2, <3>4
      <4>2. admitted[d][k] # 0 =>
              entries'[k] >= admitted[d][k] + TTL \/ now >= admitted[d][k] + TTL
        BY <1>0, <2>3, <2>5
      <4> QED
        BY <1>0, <2>1, <2>2, <2>5, <3>1, <3>4, <4>1, <4>2 DEF Cleared
    <3> QED
      BY <3>3, <3>4
  <2> QED
    BY <2>4, <2>5
<1> QED
  BY <1>1, <1>2, <1>3, <1>4, <1>5, <1>6, <1>7, Zenon DEF DispatchNext, RedisPushed

-----------------------------------------------------------------------------
(* Only after an action has succeeded does an executor mark its key, and   *)
(* only a marked key has an entry.                                         *)
DoneInv ==
    pattern = "after" =>
      /\ \A k \in Keys : entries[k] # 0 => \E c \in Executors : admitted[c][k] # 0
      /\ \A c \in Executors : stage[c] = "mark" => admitted[c][item[c][2]] # 0

(* A history never returns to 0, and Mark follows a success.               *)
LEMMA DoneStep == DispatchTypes /\ DoneInv /\ [DispatchNext]_dispatchVars => DoneInv'
<1> SUFFICES ASSUME DispatchTypes, DoneInv, [DispatchNext]_dispatchVars, pattern' = "after" PROVE DoneInv'
  BY DEF DoneInv
<1> USE DispatchAssumption DEF Goto, pushVars, queueVars, windowVars
<1>0. pattern = "after" /\ now \in Nat /\ now # 0
  BY DEF DispatchNext, dispatchVars, RedisPush, LPushAgain, Pop, BRPop, BRPopAgain, PopReturns, PopFails, Check, Act, Mark, RedisClose, Tick,
         DispatchTypes
<1>1. ASSUME UNCHANGED <<pattern, entries, admitted>>,
             \A c \in Executors : stage'[c] = "mark" => stage[c] = "mark" /\ item'[c] = item[c]
      PROVE  DoneInv'
  BY <1>1, <1>0 DEF DoneInv
<1>2. CASE RedisClose \/ Tick \/ UNCHANGED dispatchVars \/ RedisPushed
  BY <1>1, <1>2 DEF RedisClose, Tick, RedisPushed, RedisPush, LPushAgain, dispatchVars
<1>3. ASSUME NEW c \in Executors, \/ Pop(c) \/ BRPop(c) \/ BRPopAgain(c) \/ PopReturns(c)
                                  \/ PopFails(c) \/ Check(c)
      PROVE  DoneInv'
  <2>1. UNCHANGED <<pattern, entries, admitted>>
    BY <1>3 DEF Pop, BRPop, BRPopAgain, PopReturns, PopFails, Check
  <2>2. ASSUME NEW d \in Executors, stage'[d] = "mark" PROVE stage[d] = "mark" /\ item'[d] = item[d]
    BY <1>0, <1>3, <2>2 DEF Pop, BRPop, BRPopAgain, PopReturns, PopFails, Check, DispatchTypes
  <2> QED
    BY <1>1, <2>1, <2>2
<1>4. ASSUME NEW c \in Executors, Act(c) PROVE DoneInv'
  <2>1. UNCHANGED <<pattern, item, entries>> /\ item[c][2] \in Keys
    BY <1>4 DEF Act, DispatchTypes, Holding
  <2>2. CASE UNCHANGED admitted /\ stage' = [stage EXCEPT ![c] = "pop"]
    BY <1>1, <2>1, <2>2 DEF DispatchTypes
  <2>3. CASE Admit(c, item[c][2]) /\ stage' = [stage EXCEPT ![c] = "mark"]
    <3>1. \A d \in Executors, k \in Keys :
            admitted'[d][k] = IF d = c /\ k = item[c][2] THEN now ELSE admitted[d][k]
      BY <2>1, <2>3, AdmitOne
    <3>2. \A k \in Keys : entries'[k] # 0 => \E e \in Executors : admitted'[e][k] # 0
      BY <1>0, <2>1, <3>1 DEF DoneInv
    <3>3. ASSUME NEW d \in Executors, stage'[d] = "mark" PROVE admitted'[d][item'[d][2]] # 0
      <4>1. CASE d = c
        BY <1>0, <2>1, <3>1, <4>1
      <4>2. CASE d # c
        <5>1. stage[d] = "mark" /\ item[d][2] \in Keys
          BY <2>3, <3>3, <4>2 DEF DispatchTypes, Holding
        <5> QED
          BY <1>0, <2>1, <3>1, <4>2, <5>1 DEF DoneInv
      <4> QED
        BY <4>1, <4>2
    <3> QED
      BY <3>2, <3>3 DEF DoneInv
  <2> QED
    BY <1>4, <2>2, <2>3 DEF Act
<1>5. ASSUME NEW c \in Executors, Mark(c) PROVE DoneInv'
  <2>1. /\ UNCHANGED <<pattern, item, admitted>>
        /\ stage[c] = "mark" /\ stage' = [stage EXCEPT ![c] = "pop"]
        /\ item[c][2] \in Keys /\ MarkBatch({item[c][2]})
    BY <1>0, <1>5 DEF Mark, DispatchTypes, Holding
  <2>2. ASSUME NEW k \in Keys, entries'[k] # 0 PROVE k = item[c][2] \/ entries[k] # 0
    BY <2>1, <2>2 DEF MarkBatch
  <2>3. \A d \in Executors : stage'[d] = "mark" => stage[d] = "mark"
    BY <2>1 DEF DispatchTypes
  <2> QED
    BY <1>0, <2>1, <2>2, <2>3 DEF DoneInv
<1> QED
  BY <1>2, <1>3, <1>4, <1>5 DEF DispatchNext, RedisPushed

-----------------------------------------------------------------------------
(* The initial state: empty list, empty window, no history.                *)
LEMMA DispatchStarts == DispatchInit => DispatchTypes /\ WindowInv /\ DoneInv
<1> SUFFICES ASSUME DispatchInit PROVE DispatchTypes /\ WindowInv /\ DoneInv
  OBVIOUS
<1>1. DispatchTypes
  BY DEF DispatchInit, DispatchTypes, Places, Holding
<1>2. WindowInv /\ DoneInv
  BY DEF DispatchInit, WindowInv, DoneInv
<1> QED
  BY <1>1, <1>2

(* An executor acts on a key (or is told to) at most once in TTL.          *)
THEOREM Deduplicates == DispatchSpec => OncePerWindow
<1> DEFINE Spaced == \A c \in Executors, k \in Keys :
                       admitted[c][k] \notin {0, admitted'[c][k]}
                         => admitted'[c][k] >= admitted[c][k] + TTL
<1>1. DispatchTypes /\ WindowInv /\ [DispatchNext]_dispatchVars => [Spaced]_dispatchVars
  <2> SUFFICES ASSUME DispatchTypes, WindowInv, [DispatchNext]_dispatchVars PROVE [Spaced]_dispatchVars
    OBVIOUS
  <2> USE DEF pushVars, queueVars, windowVars, Goto
  <2>1. ASSUME NEW c \in Executors, Act(c) PROVE Spaced
    <3>1. stage[c] = "act" /\ item[c][2] \in Keys
      BY <2>1 DEF Act, DispatchTypes, Holding
    <3>2. CASE UNCHANGED admitted
      BY <3>2
    <3>3. CASE pattern = "after" /\ Admit(c, item[c][2])
      <4>1. \A d \in Executors, k \in Keys :
              admitted'[d][k] = IF d = c /\ k = item[c][2] THEN now ELSE admitted[d][k]
        BY <3>1, <3>3, AdmitOne
      <4> QED
        BY <3>1, <3>3, <4>1 DEF WindowInv, Cleared
    <3> QED
      BY <2>1, <3>2, <3>3 DEF Act
  <2>2. ASSUME NEW c \in Executors, Mark(c) PROVE Spaced
    <3>1. stage[c] = "mark" /\ item[c][2] \in Keys
      BY <2>2 DEF Mark, DispatchTypes, Holding
    <3>2. CASE pattern = "after"
      BY <2>2, <3>2 DEF Mark
    <3>3. CASE pattern # "after"
      <4>1. Admit(c, item[c][2])
        BY <2>2, <3>3 DEF Mark
      <4>2. \A d \in Executors, k \in Keys :
              admitted'[d][k] = IF d = c /\ k = item[c][2] THEN now ELSE admitted[d][k]
        BY <3>1, <4>1, AdmitOne
      <4> QED
        BY <3>1, <3>3, <4>2 DEF WindowInv, Cleared
    <3> QED
      BY <3>2, <3>3
  <2>3. CASE UNCHANGED admitted
    BY <2>3
  <2> QED
    BY <2>1, <2>2, <2>3 DEF DispatchNext, dispatchVars, RedisPush, LPushAgain, Pop, BRPop, BRPopAgain, PopReturns, PopFails, Check,
                             RedisClose, Tick
<1> QED
  BY <1>1, DispatchStarts, DispatchTypesStep, WindowStep, PTL DEF DispatchSpec, OncePerWindow

(* With Mark after the action, only a key acted upon is suppressed.        *)
THEOREM SuppressesOnlyDone == DispatchSpec => []SuppressedWasDone
<1>1. DispatchTypes /\ DoneInv => SuppressedWasDone
  <2> SUFFICES ASSUME DispatchTypes, DoneInv, pattern = "after", NEW k \in Keys, Contains(k)
               PROVE  \E c \in Executors : admitted[c][k] # 0
    BY DEF SuppressedWasDone
  <2>1. entries[k] # 0
    BY DEF DispatchTypes, Contains
  <2> QED
    BY <2>1 DEF DoneInv
<1> QED
  BY <1>1, DispatchStarts, DispatchTypesStep, DoneStep, PTL DEF DispatchSpec

-----------------------------------------------------------------------------
(* The Redis list as a queue.                                              *)

(* n numbers in a row, the first after m.                                  *)
Run(m, n) == [i \in 1..n |-> m + i]

(* Two sequences with the same elements are the same.                      *)
LEMMA SameSequence ==
    ASSUME NEW s \in Seq(Nat), NEW t \in Seq(Nat), Len(s) = Len(t),
           \A i \in 1..Len(s) : s[i] = t[i]
    PROVE  s = t
<1>1. PICK n \in Nat : n = Len(s) /\ n = Len(t)
  OBVIOUS
<1>2. s \in [1..n -> Nat]
  BY <1>1
<1>3. t \in [1..n -> Nat]
  BY <1>1
<1>4. \A i \in 1..n : s[i] = t[i]
  BY <1>1
<1> QED
  BY <1>2, <1>3, <1>4

LEMMA RunGrows ==
    ASSUME NEW m \in Nat, NEW n \in Nat
    PROVE  Append(Run(m, n), m + n + 1) = Run(m, n + 1)
<1>1. Run(m, n) \in Seq(Nat) /\ Len(Run(m, n)) = n
  BY DEF Run
<1>2. Run(m, n + 1) \in Seq(Nat) /\ Len(Run(m, n + 1)) = n + 1
  BY DEF Run
<1>3. /\ Append(Run(m, n), m + n + 1) \in Seq(Nat)
      /\ Len(Append(Run(m, n), m + n + 1)) = n + 1
  BY <1>1
<1>4. ASSUME NEW i \in 1..(n + 1) PROVE Append(Run(m, n), m + n + 1)[i] = Run(m, n + 1)[i]
  <2>1. CASE i = n + 1
    BY <1>1, <2>1 DEF Run
  <2>2. CASE i # n + 1
    BY <1>1, <2>2 DEF Run
  <2> QED
    BY <2>1, <2>2
<1> QED
  BY <1>2, <1>3, <1>4, SameSequence, Zenon

LEMMA RunShrinks ==
    ASSUME NEW m \in Nat, NEW n \in Nat, n > 0
    PROVE  /\ Run(m, n) # <<>> /\ Head(Run(m, n)) = m + 1
           /\ Tail(Run(m, n)) = Run(m + 1, n - 1)
<1>1. Run(m, n) \in Seq(Nat) /\ Len(Run(m, n)) = n
  BY DEF Run
<1>2. Run(m, n) # <<>> /\ Head(Run(m, n)) = m + 1
  BY <1>1 DEF Run
<1>3. Tail(Run(m, n)) \in Seq(Nat) /\ Len(Tail(Run(m, n))) = n - 1
  BY <1>1, <1>2
<1>4. Run(m + 1, n - 1) \in Seq(Nat) /\ Len(Run(m + 1, n - 1)) = n - 1
  BY DEF Run
<1>5. ASSUME NEW i \in 1..(n - 1) PROVE Tail(Run(m, n))[i] = Run(m + 1, n - 1)[i]
  <2>1. Tail(Run(m, n))[i] = Run(m, n)[i + 1]
    BY <1>1, <1>2
  <2> QED
    BY <2>1 DEF Run
<1>6. Tail(Run(m, n)) = Run(m + 1, n - 1)
  BY <1>3, <1>4, <1>5, SameSequence, Zenon
<1> QED
  BY <1>2, <1>6

(* The number of elements that have left the list.                         *)
Popped == pushed - Len(list)

(* The list holds the elements stored last, in order; each of the others   *)
(* is in one reply at most, and newer than all its executor has got.       *)
ListInv ==
    /\ Len(list) <= pushed
    /\ \A i \in 1..Len(list) : list[i][1] = Popped + i
    /\ \A c \in Executors : \A i \in DOMAIN returned[c] : returned[c][i] <= Popped
    /\ \A c \in Executors : stage[c] = "reply" =>
         /\ item[c][1] <= Popped
         /\ \A i \in DOMAIN returned[c] : returned[c][i] < item[c][1]
         /\ \A d \in Executors \ {c} : stage[d] = "reply" => item[d][1] # item[c][1]

(* What the list looks like to the interface.                              *)
LEMMA NumbersAre ==
    ASSUME DispatchTypes, ListInv
    PROVE  /\ Popped \in Nat /\ Len(list) \in Nat /\ Popped + Len(list) = pushed
           /\ Numbers = Run(Popped, Len(list))
<1>1. list \in Seq(Nat \X Keys) /\ pushed \in Nat /\ Len(list) \in Nat
  BY DEF DispatchTypes
<1>2. Popped \in Nat /\ Popped + Len(list) = pushed
  BY <1>1 DEF ListInv, Popped
<1>3. DOMAIN list = 1..Len(list) /\ \A i \in 1..Len(list) : list[i][1] = Popped + i
  BY <1>1 DEF ListInv
<1>4. Numbers = Run(Popped, Len(list))
  BY <1>3 DEF Numbers, Run
<1> QED
  BY <1>1, <1>2, <1>4

(* The elements in a reply, one by one.                                    *)
LEMMA InReplyIs ==
    /\ \A k : k \in InReply <=> \E c \in Executors : stage[c] = "reply" /\ k = item[c][1]
    /\ \A k : k \in InReply' <=> \E c \in Executors : stage'[c] = "reply" /\ k = item'[c][1]
  BY DEF InReply

(* Everything but Push, BRPOP and the arrival of a reply leaves the list   *)
(* and what was returned alone, and starts no reply.                       *)
ListStays ==
    /\ UNCHANGED <<list, pushed, returned, item>>
    /\ \A c \in Executors : stage'[c] = "reply" => stage[c] = "reply"

LEMMA OthersStay ==
    ASSUME DispatchTypes,
           \/ RedisClose \/ Tick \/ UNCHANGED dispatchVars
           \/ \E c \in Executors : \/ Pop(c) \/ BRPopAgain(c) \/ PopFails(c) \/ Check(c)
                                   \/ Act(c) \/ Mark(c)
           \/ \E c \in Executors : PopReturns(c) /\ stage[c] = "wait"
    PROVE  ListStays
<1> USE DEF Goto, pushVars, queueVars, windowVars
<1>1. CASE RedisClose \/ Tick \/ UNCHANGED dispatchVars
  BY <1>1 DEF RedisClose, Tick, dispatchVars, ListStays
<1>2. ASSUME NEW c \in Executors, \/ Pop(c) \/ BRPopAgain(c) \/ PopFails(c) \/ Check(c)
                                  \/ Act(c) \/ Mark(c)
      PROVE  ListStays
  <2>1. UNCHANGED <<list, pushed, returned, item>>
    BY <1>2 DEF Pop, BRPopAgain, PopFails, Check, Act, Mark
  <2>2. \E place \in Places \ {"reply"} : stage' = [stage EXCEPT ![c] = place]
    BY <1>2 DEF Pop, BRPopAgain, PopFails, Check, Act, Mark, Places
  <2> QED
    BY <2>1, <2>2 DEF ListStays, DispatchTypes
<1>3. ASSUME NEW c \in Executors, PopReturns(c), stage[c] = "wait" PROVE ListStays
  BY <1>3 DEF PopReturns, ListStays, DispatchTypes
<1> QED
  BY <1>1, <1>2, <1>3

(* A Push adds the next number at the end.                                 *)
LEMMA PushedOne ==
    ASSUME DispatchTypes, ListInv, RedisPushed
    PROVE  /\ pushed' = pushed + 1 /\ Popped' = Popped /\ Len(list') = Len(list) + 1
           /\ \A i \in 1..Len(list) : list'[i] = list[i]
           /\ list'[Len(list) + 1][1] = pushed + 1
           /\ UNCHANGED <<returned, item, stage, done>>
<1>1. PICK k : /\ pushed' = pushed + 1 /\ list' = Append(list, <<pushed + 1, k>>)
               /\ UNCHANGED <<returned, item, stage, done>>
  BY DEF RedisPushed, RedisPush, LPushAgain, Store
<1>2. list \in Seq(Nat \X Keys) /\ pushed \in Nat /\ Len(list) \in Nat
  BY DEF DispatchTypes
<1>3. /\ Len(list') = Len(list) + 1 /\ \A i \in 1..Len(list) : list'[i] = list[i]
      /\ list'[Len(list) + 1] = <<pushed + 1, k>>
  BY <1>1, <1>2
<1>4. Popped' = Popped
  BY <1>1, <1>2, <1>3 DEF Popped
<1> QED
  BY <1>1, <1>3, <1>4

(* BRPOP takes the oldest number.                                          *)
LEMMA PoppedOne ==
    ASSUME DispatchTypes, ListInv, NEW c \in Executors, BRPop(c)
    PROVE  /\ Len(list) > 0 /\ Len(list') = Len(list) - 1 /\ pushed' = pushed
           /\ Popped' = Popped + 1 /\ \A i \in 1..Len(list') : list'[i] = list[i + 1]
           /\ item'[c][1] = Popped + 1 /\ stage[c] = "wait"
           /\ stage'[c] = IF done THEN "stopped" ELSE "reply"
           /\ \A d \in Executors : d # c => stage'[d] = stage[d] /\ item'[d] = item[d]
           /\ UNCHANGED <<returned, done>>
<1> USE DEF Goto, pushVars
<1>1. list \in Seq(Nat \X Keys) /\ list # <<>> /\ pushed \in Nat /\ Len(list) \in Nat
  BY DEF DispatchTypes, BRPop
<1>2. /\ Len(list) > 0 /\ Len(Tail(list)) = Len(list) - 1 /\ Head(list) = list[1]
      /\ \A i \in 1..Len(Tail(list)) : Tail(list)[i] = list[i + 1]
  BY <1>1
<1>3. /\ list' = Tail(list) /\ item' = [item EXCEPT ![c] = Head(list)]
      /\ UNCHANGED <<pushed, returned, done>> /\ stage[c] = "wait"
      /\ stage' = [stage EXCEPT ![c] = IF done THEN "stopped" ELSE "reply"]
  BY DEF BRPop
<1>4. list[1][1] = Popped + 1
  BY <1>1, <1>2 DEF ListInv
<1>5. Popped' = Popped + 1
  BY <1>1, <1>2, <1>3 DEF Popped
<1> QED
  BY <1>2, <1>3, <1>4, <1>5 DEF DispatchTypes

(* A reply moves its element to the end of what its executor has got.      *)
LEMMA ReplyOne ==
    ASSUME DispatchTypes, NEW c \in Executors, PopReturns(c), stage[c] = "reply"
    PROVE  /\ UNCHANGED <<list, pushed, item, done>> /\ stage'[c] = "check"
           /\ \A d \in Executors : d # c => stage'[d] = stage[d] /\ returned'[d] = returned[d]
           /\ returned' = [returned EXCEPT ![c] = Append(@, item[c][1])]
           /\ returned'[c] = Append(returned[c], item[c][1])
  BY DEF PopReturns, Goto, pushVars, DispatchTypes

(* Each step keeps the list in order and the replies apart.                *)
LEMMA ListStep == DispatchTypes /\ ListInv /\ [DispatchNext]_dispatchVars => ListInv'
<1> SUFFICES ASSUME DispatchTypes, ListInv, [DispatchNext]_dispatchVars PROVE ListInv'
  OBVIOUS
<1>0. /\ Popped \in Nat /\ Len(list) \in Nat /\ Popped + Len(list) = pushed /\ pushed \in Nat
      /\ returned \in [Executors -> Seq(Nat)]
      /\ \A c \in Executors : stage[c] = "reply" => item[c][1] \in Nat
  BY NumbersAre DEF DispatchTypes, Holding
<1>1. ASSUME ListStays PROVE ListInv'
  <2>1. Popped' = Popped
    BY <1>1 DEF ListStays, Popped
  <2> QED
    BY <1>1, <2>1 DEF ListStays, ListInv
<1>2. ASSUME RedisPushed PROVE ListInv'
  <2>1. ASSUME NEW i \in 1..Len(list') PROVE list'[i][1] = Popped' + i
    <3>1. CASE i \in 1..Len(list)
      BY <1>2, <3>1, PushedOne DEF ListInv
    <3>2. CASE i = Len(list) + 1
      <4>1. list'[i][1] = pushed + 1 /\ Popped' = Popped
        BY <1>2, <3>2, PushedOne
      <4>2. Popped + i = pushed + 1
        <5>1. Popped + (Len(list) + 1) = pushed + 1
          BY <1>0
        <5> QED
          BY <3>2, <5>1
      <4> QED
        BY <4>1, <4>2
    <3>3. Len(list') = Len(list) + 1
      BY <1>2, PushedOne
    <3> QED
      BY <1>0, <3>1, <3>2, <3>3
  <2>2. Len(list') <= pushed'
    BY <1>0, <1>2, PushedOne
  <2> QED
    BY <1>2, <2>1, <2>2, PushedOne DEF ListInv
<1>3. ASSUME NEW c \in Executors, BRPop(c) PROVE ListInv'
  <2>1. Len(list') <= pushed' /\ \A i \in 1..Len(list') : list'[i][1] = Popped' + i
    <3>1. ASSUME NEW i \in 1..Len(list') PROVE list'[i][1] = Popped' + i
      <4>1. i + 1 \in 1..Len(list) /\ list'[i] = list[i + 1]
        BY <1>0, <1>3, PoppedOne
      <4>2. list[i + 1][1] = Popped + (i + 1)
        BY <4>1 DEF ListInv
      <4> QED
        BY <1>0, <1>3, <4>1, <4>2, PoppedOne
    <3> QED
      BY <1>0, <1>3, <3>1, PoppedOne
  <2>2. ASSUME NEW d \in Executors, NEW i \in DOMAIN returned'[d]
        PROVE  returned'[d][i] <= Popped /\ returned'[d][i] \in Nat
    BY <1>0, <1>3, PoppedOne DEF ListInv
  <2>3. ASSUME NEW d \in Executors, stage'[d] = "reply"
        PROVE  /\ item'[d][1] <= Popped'
               /\ \A i \in DOMAIN returned'[d] : returned'[d][i] < item'[d][1]
               /\ \A e \in Executors \ {d} : stage'[e] = "reply" => item'[e][1] # item'[d][1]
    <3>1. CASE d = c
      <4>1. item'[d][1] = Popped + 1 /\ Popped' = Popped + 1
        BY <1>3, <3>1, PoppedOne
      <4>2. ASSUME NEW e \in Executors \ {d}, stage'[e] = "reply"
            PROVE  item'[e][1] <= Popped /\ item'[e][1] \in Nat
        BY <1>0, <1>3, <3>1, <4>2, PoppedOne DEF ListInv
      <4> QED
        BY <1>0, <2>2, <4>1, <4>2
    <3>2. CASE d # c
      <4>1. /\ stage[d] = "reply" /\ item'[d] = item[d] /\ returned' = returned
            /\ item'[c][1] = Popped + 1 /\ Popped' = Popped + 1
            /\ \A e \in Executors : e # c => stage'[e] = stage[e] /\ item'[e] = item[e]
        BY <1>3, <2>3, <3>2, PoppedOne
      <4>2. item[d][1] <= Popped /\ item[d][1] \in Nat
        BY <1>0, <4>1 DEF ListInv
      <4>3. \A i \in DOMAIN returned'[d] : returned'[d][i] < item'[d][1]
        BY <4>1 DEF ListInv
      <4>4. ASSUME NEW e \in Executors \ {d}, stage'[e] = "reply"
            PROVE  item'[e][1] # item'[d][1]
        <5>1. CASE e = c
          BY <1>0, <4>1, <4>2, <5>1
        <5>2. CASE e # c
          BY <4>1, <4>4, <5>2 DEF ListInv
        <5> QED
          BY <5>1, <5>2
      <4> QED
        BY <1>0, <4>1, <4>2, <4>3, <4>4
    <3> QED
      BY <3>1, <3>2
  <2> QED
    BY <1>0, <1>3, <2>1, <2>2, <2>3, PoppedOne DEF ListInv
<1>4. ASSUME NEW c \in Executors, PopReturns(c), stage[c] = "reply" PROVE ListInv'
  <2>0. item[c][1] \in Nat /\ item[c][1] <= Popped
    BY <1>0, <1>4 DEF ListInv
  <2>1. Popped' = Popped /\ UNCHANGED <<list, pushed, item>>
    BY <1>4, ReplyOne DEF Popped
  <2>2. ASSUME NEW d \in Executors, NEW i \in DOMAIN returned'[d]
        PROVE  returned'[d][i] <= Popped
    <3>1. CASE d # c
      BY <1>4, <2>2, <3>1, ReplyOne DEF ListInv
    <3>2. CASE d = c
      <4>1. returned'[d] = Append(returned[c], item[c][1]) /\ returned[c] \in Seq(Nat)
        BY <1>0, <1>4, <3>2, ReplyOne
      <4>2. CASE i = Len(returned[c]) + 1
        BY <2>0, <4>1, <4>2
      <4>3. CASE i # Len(returned[c]) + 1
        <5>1. i \in DOMAIN returned[c] /\ returned'[d][i] = returned[c][i]
          BY <2>2, <4>1, <4>3
        <5> QED
          BY <5>1 DEF ListInv
      <4> QED
        BY <4>2, <4>3
    <3> QED
      BY <3>1, <3>2
  <2>3. \A d \in Executors : stage'[d] = "reply" => d # c /\ stage[d] = "reply"
    BY <1>4, ReplyOne
  <2>4. \A d \in Executors : d # c => returned'[d] = returned[d]
    BY <1>4, ReplyOne
  <2> QED
    BY <2>1, <2>2, <2>3, <2>4 DEF ListInv
<1>5. ASSUME NEW c \in Executors, PopReturns(c) PROVE stage[c] \in {"reply", "wait"}
  BY <1>5 DEF PopReturns
<1> QED
  BY <1>1, <1>2, <1>3, <1>4, <1>5, OthersStay DEF DispatchNext, RedisPushed

(* Each step of the executors and the client is a step of the interface's  *)
(* contract, or changes nothing it speaks of.                              *)
LEMMA RedisSimulates ==
    ASSUME DispatchTypes, ListInv, [DispatchNext]_dispatchVars
    PROVE  [RedisEQ!Next]_RedisEQ!vars
<1> USE DEF RedisEQ!vars
<1>0. /\ Popped \in Nat /\ Len(list) \in Nat /\ Popped + Len(list) = pushed
      /\ Numbers = Run(Popped, Len(list))
  BY NumbersAre
<1>00. Numbers' = Run(Popped', Len(list'))
  <2>1. DispatchTypes' /\ ListInv'
    BY DispatchTypesStep, ListStep
  <2>2. list' \in Seq(Nat \X Keys) /\ \A i \in 1..Len(list') : list'[i][1] = Popped' + i
    BY <2>1 DEF DispatchTypes, ListInv
  <2>3. DOMAIN list' = 1..Len(list')
    BY <2>2
  <2> QED
    BY <2>2, <2>3 DEF Numbers, Run
<1>1. ASSUME ListStays PROVE InReply' \subseteq InReply /\ Numbers' = Numbers
  BY <1>1, InReplyIs DEF ListStays, Numbers
<1>2. ASSUME ListStays, UNCHANGED done PROVE RedisEQ!Next
  <2>1. RedisEQ!Lose
    BY <1>1, <1>2 DEF ListStays, RedisEQ!Lose
  <2> QED
    BY <2>1 DEF RedisEQ!Next
<1>3. CASE RedisClose
  <2>1. ListStays /\ ~done /\ done'
    BY <1>3, OthersStay DEF RedisClose
  <2>2. RedisEQ!Shut
    BY <1>1, <2>1 DEF ListStays, RedisEQ!Shut, RedisEQ!Keep
  <2> QED
    BY <2>2 DEF RedisEQ!Next
<1>4. CASE RedisPushed
  <2>1. ~done
    BY <1>4 DEF RedisPushed, RedisPush, LPushAgain
  <2>2. /\ pushed' = pushed + 1 /\ Popped' = Popped /\ Len(list') = Len(list) + 1
        /\ UNCHANGED <<returned, item, stage, done>>
    BY <1>4, PushedOne
  <2>3. Numbers' = Append(Numbers, pushed + 1)
    BY <1>0, <1>00, <2>2, RunGrows
  <2>4. InReply' = InReply
    BY <2>2 DEF InReply
  <2>5. RedisEQ!Accept
    BY <2>1, <2>2, <2>3, <2>4 DEF RedisEQ!Accept
  <2> QED
    BY <2>5 DEF RedisEQ!Next
<1>5. ASSUME NEW c \in Executors, BRPop(c) PROVE RedisEQ!Next
  <2>1. /\ Len(list) > 0 /\ Len(list') = Len(list) - 1 /\ pushed' = pushed
        /\ Popped' = Popped + 1 /\ UNCHANGED <<returned, done>>
    BY <1>5, PoppedOne
  <2>2. Numbers # <<>> /\ Head(Numbers) = Popped + 1 /\ Numbers' = Tail(Numbers)
    BY <1>0, <1>00, <2>1, RunShrinks
  <2>3. done => InReply' = InReply
    <3>1. /\ stage[c] = "wait" /\ stage'[c] = IF done THEN "stopped" ELSE "reply"
          /\ \A d \in Executors : d # c => stage'[d] = stage[d] /\ item'[d] = item[d]
      BY <1>5, PoppedOne
    <3>2. ASSUME done, NEW k PROVE k \in InReply' <=> k \in InReply
      BY <3>1, <3>2, InReplyIs
    <3> QED
      BY <3>2
  <2>4. ~done => InReply' = InReply \cup {Popped + 1}
    <3>1. ~done => \A k : k \in InReply' <=> k \in InReply \/ k = Popped + 1
      BY <1>5, PoppedOne, InReplyIs
    <3> QED
      BY <3>1
  <2>5. RedisEQ!Claim
    BY <2>1, <2>2, <2>3, <2>4 DEF RedisEQ!Claim
  <2> QED
    BY <2>5 DEF RedisEQ!Next
<1>6. ASSUME NEW c \in Executors, PopReturns(c), stage[c] = "reply" PROVE RedisEQ!Next
  <2>1. item[c][1] \in InReply
    BY <1>6, InReplyIs
  <2>2. /\ \A i \in DOMAIN returned[c] : returned[c][i] < item[c][1]
        /\ \A d \in Executors \ {c} : stage[d] = "reply" => item[d][1] # item[c][1]
    BY <1>6 DEF ListInv
  <2>3. \A k : k \in InReply' <=> k \in InReply /\ k # item[c][1]
    BY <1>6, <2>2, ReplyOne, InReplyIs
  <2>4. InReply' = InReply \ {item[c][1]}
    BY <2>3
  <2>5. Numbers' = Numbers
    BY <1>6, ReplyOne DEF Numbers
  <2>6. RedisEQ!Return(c, item[c][1])
    BY <1>6, <2>1, <2>2, <2>4, <2>5, ReplyOne DEF RedisEQ!Return, RedisEQ!Newest
  <2> QED
    BY <2>1, <2>6 DEF RedisEQ!Next
<1>7. ASSUME \/ Tick \/ UNCHANGED dispatchVars
             \/ \E c \in Executors : \/ Pop(c) \/ BRPopAgain(c) \/ PopFails(c) \/ Check(c)
                                     \/ Act(c) \/ Mark(c)
             \/ \E c \in Executors : PopReturns(c) /\ stage[c] = "wait"
      PROVE  RedisEQ!Next
  <2>1. ListStays
    BY <1>7, OthersStay
  <2>2. UNCHANGED done
    BY <1>7 DEF Tick, dispatchVars, Pop, BRPopAgain, PopFails, Check, Act, Mark, PopReturns,
       queueVars, windowVars
  <2> QED
    BY <1>2, <2>1, <2>2
<1>8. ASSUME NEW c \in Executors, PopReturns(c) PROVE stage[c] \in {"reply", "wait"}
  BY <1>8 DEF PopReturns
<1> QED
  BY <1>3, <1>4, <1>5, <1>6, <1>7, <1>8 DEF DispatchNext, RedisPushed

(* redis.go and the client it uses keep the contract of the Queue          *)
(* interface over broken connections and commands sent twice.              *)
THEOREM RedisImplements == DispatchSpec => RedisImplementsEventQueue
<1>1. DispatchInit => RedisEQ!Init /\ ListInv
  <2> SUFFICES ASSUME DispatchInit PROVE RedisEQ!Init /\ ListInv
    OBVIOUS
  <2>1. list = <<>> /\ pushed = 0 /\ \A c \in Executors : stage[c] = "pop" /\ returned[c] = <<>>
    BY DEF DispatchInit
  <2>2. Numbers = <<>> /\ InReply = {}
    BY <2>1 DEF Numbers, InReply
  <2>3. RedisEQ!Init
    BY <2>2 DEF DispatchInit, RedisEQ!Init
  <2>4. ListInv
    BY <2>1 DEF ListInv, Popped
  <2> QED
    BY <2>3, <2>4
<1> QED
  BY <1>1, DispatchStarts, DispatchTypesStep, ListStep, RedisSimulates, PTL
  DEF DispatchSpec, RedisImplementsEventQueue, RedisEQ!Spec

-----------------------------------------------------------------------------
(* The in-memory queue.                                                    *)

(* The number of events that left the channel.                             *)
Out == accepted - Len(ch)

(* The channel holds the last accepted events in order, the others have    *)
(* been received, and when a consumer is told that the queue is closed     *)
(* the events accepted before Close are among those.                       *)
QueueContents ==
    /\ Len(ch) <= accepted /\ atClose <= accepted
    /\ \A i \in 1..Len(ch) : ch[i] = Out + i
    /\ 1..Out \subseteq Received
    /\ \A c \in Consumers : pc[c] \in {"drain", "closed"} => closed
    /\ (\E c \in Consumers : pc[c] = "closed") => atClose <= Out

-----------------------------------------------------------------------------
(* A received event is added to what was received, and Pop takes one event *)
(* off the channel.                                                        *)
LEMMA ReceiveOne ==
    ASSUME TypeOK, NEW c \in Consumers, Receive(c)
    PROVE  /\ ch' \in Seq(Nat) /\ Len(ch) \in Nat /\ Len(ch') = Len(ch) - 1 /\ Len(ch) > 0
           /\ \A i \in 1..Len(ch') : ch'[i] = ch[i + 1]
           /\ received' \in [Consumers -> Seq(Nat)]
           /\ Received \cup {ch[1]} \subseteq Received'
<1>1. ch \in Seq(Nat) /\ ch # <<>> /\ received \in [Consumers -> Seq(Nat)]
  BY DEF TypeOK, Receive
<1>2. /\ ch' = Tail(ch) /\ Head(ch) = ch[1] /\ ch[1] \in Nat
      /\ received' = [received EXCEPT ![c] = Append(@, ch[1])]
  BY <1>1 DEF Receive
<1>3. /\ ch' \in Seq(Nat) /\ Len(ch) \in Nat /\ Len(ch') = Len(ch) - 1 /\ Len(ch) > 0
      /\ \A i \in 1..Len(ch') : ch'[i] = ch[i + 1]
  BY <1>1, <1>2
<1>4. Append(received[c], ch[1]) \in Seq(Nat)
  BY <1>1, <1>2
<1>5. received' \in [Consumers -> Seq(Nat)]
  BY <1>1, <1>2, <1>4
<1>6. \A d \in Consumers : \A i \in DOMAIN received[d] :
        i \in DOMAIN received'[d] /\ received'[d][i] = received[d][i]
  <2> SUFFICES ASSUME NEW d \in Consumers, NEW i \in DOMAIN received[d]
               PROVE  i \in DOMAIN received'[d] /\ received'[d][i] = received[d][i]
    OBVIOUS
  <2>1. CASE d = c
    BY <1>1, <1>2, <2>1
  <2>2. CASE d # c
    BY <1>1, <1>2, <2>2
  <2> QED
    BY <2>1, <2>2
<1>7. \E i \in DOMAIN received'[c] : received'[c][i] = ch[1]
  <2> DEFINE n == Len(received[c]) + 1
  <2>1. received'[c] = Append(received[c], ch[1])
    BY <1>1, <1>2
  <2>2. n \in DOMAIN received'[c] /\ received'[c][n] = ch[1]
    BY <1>1, <1>2, <2>1
  <2> QED
    BY <2>2
<1> QED
  BY <1>3, <1>5, <1>6, <1>7 DEF Received

(* Each step keeps the types and the channel within its capacity.          *)
LEMMA MemoryTypeStep == TypeOK /\ [Next]_vars => TypeOK'
<1> SUFFICES ASSUME TypeOK, [Next]_vars PROVE TypeOK'
  OBVIOUS
<1> USE SizesAssumption
<1>1. CASE Push
  <2>1. ch' \in Seq(Nat) /\ Len(ch') <= Capacity
    BY <1>1 DEF Push, TypeOK, Capacity
  <2> QED
    BY <1>1, <2>1 DEF Push, TypeOK
<1>2. ASSUME NEW c \in Consumers, Receive(c)
      PROVE  /\ ch' \in Seq(Nat) /\ Len(ch') <= Capacity
             /\ received' \in [Consumers -> Seq(Nat)]
  BY <1>2, ReceiveOne, SMTT(30) DEF TypeOK, Capacity
<1>3. ASSUME NEW c \in Consumers, PopReceive(c) PROVE TypeOK'
  BY <1>2, <1>3 DEF PopReceive, TypeOK
<1>4. ASSUME NEW c \in Consumers, PopCancelled(c) \/ PopClosed(c) \/ Cancel(c) PROVE TypeOK'
  BY <1>4 DEF PopCancelled, PopClosed, Cancel, TypeOK
<1>5. ASSUME NEW c \in Consumers, PopDrain(c) PROVE TypeOK'
  BY <1>2, <1>5 DEF PopDrain, TypeOK
<1>6. CASE Close \/ UNCHANGED vars
  BY <1>6 DEF Close, vars, TypeOK
<1> QED
  BY <1>1, <1>3, <1>4, <1>5, <1>6 DEF Next, PopStep

(* Each step keeps the channel and what was received complementary.        *)
LEMMA ContentsStep == TypeOK /\ QueueContents /\ [Next]_vars => QueueContents'
<1> SUFFICES ASSUME TypeOK, QueueContents, [Next]_vars PROVE QueueContents'
  OBVIOUS
<1>0. /\ accepted \in Nat /\ atClose \in Nat /\ ch \in Seq(Nat) /\ Len(ch) \in Nat
      /\ Len(ch) <= accepted /\ atClose <= accepted /\ Out \in Nat
      /\ pc \in [Consumers -> {"pop", "drain", "closed", "cancelled"}]
  BY DEF TypeOK, QueueContents, Out
<1>1. CASE Push
  <2>1. /\ Len(ch') = Len(ch) + 1 /\ accepted' = accepted + 1
        /\ \A i \in 1..Len(ch) : ch'[i] = ch[i]
        /\ ch'[Len(ch) + 1] = accepted + 1
        /\ UNCHANGED <<closed, pc, atClose, received>>
    BY <1>0, <1>1 DEF Push
  <2>2. Out' = Out /\ Received' = Received
    BY <1>0, <2>1 DEF Out, Received
  <2>3. ASSUME NEW i \in 1..Len(ch') PROVE ch'[i] = Out' + i
    <3>1. CASE i = Len(ch) + 1
      BY <1>0, <2>1, <2>2, <3>1 DEF Out
    <3>2. CASE i # Len(ch) + 1
      <4>1. i \in 1..Len(ch)
        BY <1>0, <2>1, <3>2
      <4> QED
        BY <2>1, <2>2, <4>1 DEF QueueContents
    <3> QED
      BY <3>1, <3>2
  <2> QED
    BY <1>0, <2>1, <2>2, <2>3 DEF QueueContents
<1>2. ASSUME NEW c \in Consumers, Receive(c), UNCHANGED <<closed, accepted, atClose>>,
             \A d \in Consumers : pc'[d] \in {"drain", "closed"} => pc'[d] = pc[d]
      PROVE  QueueContents'
  <2>1. /\ Len(ch') = Len(ch) - 1 /\ Len(ch) > 0
        /\ \A i \in 1..Len(ch') : ch'[i] = ch[i + 1]
        /\ Received \cup {ch[1]} \subseteq Received'
    BY <1>2, ReceiveOne
  <2>2. Out' = Out + 1 /\ ch[1] = Out + 1
    BY <1>0, <1>2, <2>1 DEF Out, QueueContents
  <2>3. 1..Out' \subseteq Received'
    BY <1>0, <2>1, <2>2 DEF QueueContents
  <2>4. \A i \in 1..Len(ch') : ch'[i] = Out' + i
    BY <1>0, <2>1, <2>2 DEF QueueContents
  <2> QED
    BY <1>0, <1>2, <2>1, <2>2, <2>3, <2>4 DEF QueueContents
<1>3. ASSUME UNCHANGED <<ch, accepted, received>>, closed => closed', atClose' <= accepted,
             \A d \in Consumers : pc'[d] \in {"drain", "closed"} => closed',
             (\E d \in Consumers : pc'[d] = "closed") => atClose' <= Out
      PROVE  QueueContents'
  BY <1>0, <1>3 DEF QueueContents, Out, Received
<1>4. ASSUME NEW c \in Consumers, PopReceive(c) PROVE QueueContents'
  BY <1>2, <1>4 DEF PopReceive
<1>5. ASSUME NEW c \in Consumers, PopCancelled(c) \/ PopClosed(c) \/ Cancel(c)
      PROVE  QueueContents'
  <2>1. UNCHANGED <<ch, accepted, received, closed, atClose>>
    BY <1>5 DEF PopCancelled, PopClosed, Cancel
  <2>2. \A d \in Consumers : pc'[d] \in {"drain", "closed"} => closed
    BY <1>0, <1>5 DEF PopCancelled, PopClosed, Cancel, QueueContents
  <2>3. \A d \in Consumers : pc'[d] = "closed" => pc[d] = "closed"
    BY <1>0, <1>5 DEF PopCancelled, PopClosed, Cancel
  <2> QED
    BY <1>0, <1>3, <2>1, <2>2, <2>3 DEF QueueContents
<1>6. ASSUME NEW c \in Consumers, PopDrain(c) PROVE QueueContents'
  <2>1. CASE Receive(c) /\ pc' = [pc EXCEPT ![c] = "pop"]
    BY <1>0, <1>2, <1>6, <2>1 DEF PopDrain
  <2>2. CASE ch = <<>> /\ pc' = [pc EXCEPT ![c] = "closed"] /\ UNCHANGED <<ch, received>>
    <3>1. Out = accepted
      BY <1>0, <2>2 DEF Out
    <3>2. closed
      BY <1>6 DEF PopDrain, QueueContents
    <3> QED
      BY <1>0, <1>3, <1>6, <2>2, <3>1, <3>2 DEF PopDrain
  <2> QED
    BY <1>6, <2>1, <2>2 DEF PopDrain
<1>7. CASE Close
  <2>1. ~\E d \in Consumers : pc'[d] = "closed"
    BY <1>7 DEF Close, QueueContents
  <2> QED
    BY <1>0, <1>3, <1>7, <2>1 DEF Close, QueueContents
<1>8. CASE UNCHANGED vars
  BY <1>0, <1>3, <1>8 DEF vars, QueueContents
<1> QED
  BY <1>1, <1>4, <1>5, <1>6, <1>7, <1>8 DEF Next, PopStep

-----------------------------------------------------------------------------
(* The initial state: an empty open channel.                               *)
LEMMA MemoryInit == Init => TypeOK /\ QueueContents
<1> SUFFICES ASSUME Init PROVE TypeOK /\ QueueContents
  OBVIOUS
<1>1. TypeOK
  <2>1. Capacity \in Nat
    BY SizesAssumption DEF Capacity
  <2>2. ch \in Seq(Nat) /\ Len(ch) = 0 /\ received \in [Consumers -> Seq(Nat)]
    BY DEF Init
  <2>3. pc \in [Consumers -> {"pop", "drain", "closed", "cancelled"}] /\ closed \in BOOLEAN
    BY DEF Init
  <2>4. Len(ch) <= Capacity
    BY <2>1, <2>2
  <2>5. cancelled \in SUBSET Cancellable /\ accepted \in Nat /\ atClose \in Nat
    BY DEF Init
  <2> QED
    BY <2>2, <2>3, <2>4, <2>5 DEF TypeOK
<1>2. QueueContents
  BY DEF Init, QueueContents, Out
<1> QED
  BY <1>1, <1>2

(* The channel keeps within its capacity.                                  *)
THEOREM MemoryBounded == Spec => []TypeOK
  BY MemoryInit, MemoryTypeStep, PTL DEF Spec

(* A consumer that Pop tells ErrQueueClosed comes after every event that   *)
(* was accepted before Close.                                              *)
THEOREM MemoryDrains == Spec => []DrainedBeforeClosed
<1>1. TypeOK /\ QueueContents => DrainedBeforeClosed
  <2> SUFFICES ASSUME TypeOK, QueueContents, \E c \in Consumers : pc[c] = "closed"
               PROVE  1..atClose \subseteq Received
    BY DEF DrainedBeforeClosed
  <2>1. atClose <= Out /\ atClose \in Nat /\ Out \in Int /\ 1..Out \subseteq Received
    BY DEF QueueContents, TypeOK, Out
  <2> QED
    BY <2>1
<1> QED
  BY <1>1, MemoryInit, MemoryTypeStep, ContentsStep, PTL DEF Spec
-----------------------------------------------------------------------------
(* What a consumer has received had left the channel by then.              *)
ReceivedLeft == \A c \in Consumers : \A i \in DOMAIN received[c] : received[c][i] <= Out

(* A receive moves the oldest event of the channel to the end of what its  *)
(* consumer has received.                                                  *)
LEMMA ReceiveIsNewest ==
    ASSUME TypeOK, QueueContents, ReceivedLeft, NEW c \in Consumers, Receive(c)
    PROVE  /\ Head(ch) = Out + 1 /\ Out \in Nat
           /\ \A i \in DOMAIN received[c] : received[c][i] < Head(ch)
<1>1. ch \in Seq(Nat) /\ ch # <<>> /\ Len(ch) \in Nat /\ Len(ch) > 0 /\ Head(ch) = ch[1]
  BY DEF TypeOK, Receive
<1>2. accepted \in Nat /\ Len(ch) <= accepted /\ ch[1] = Out + 1
  BY <1>1 DEF TypeOK, QueueContents
<1>3. Out \in Nat
  BY <1>1, <1>2 DEF Out
<1>4. ASSUME NEW i \in DOMAIN received[c] PROVE received[c][i] < Head(ch)
  <2>1. received[c][i] \in Nat /\ received[c][i] <= Out
    BY DEF TypeOK, ReceivedLeft
  <2> QED
    BY <1>1, <1>2, <1>3, <2>1
<1> QED
  BY <1>1, <1>2, <1>3, <1>4

(* Only what has left the channel is ever received.                        *)
LEMMA ReceivedLeftStep ==
    TypeOK /\ QueueContents /\ ReceivedLeft /\ [Next]_vars => ReceivedLeft'
<1> SUFFICES ASSUME TypeOK, QueueContents, ReceivedLeft, [Next]_vars PROVE ReceivedLeft'
  OBVIOUS
<1>0. /\ ch \in Seq(Nat) /\ Len(ch) \in Nat /\ accepted \in Nat /\ Out \in Int
      /\ received \in [Consumers -> Seq(Nat)]
  BY DEF TypeOK, Out
<1>1. ASSUME NEW c \in Consumers, Receive(c), accepted' = accepted PROVE ReceivedLeft'
  <2>1. Head(ch) = Out + 1 /\ Out' = Out + 1
    <3>1. Head(ch) = Out + 1 /\ Len(ch') = Len(ch) - 1
      BY <1>1, ReceiveIsNewest, ReceiveOne
    <3> QED
      BY <1>0, <1>1, <3>1 DEF Out
  <2>2. ASSUME NEW d \in Consumers, NEW i \in DOMAIN received'[d]
        PROVE  received'[d][i] <= Out'
    <3>1. CASE d # c
      <4>1. received'[d] = received[d]
        BY <1>0, <1>1, <3>1 DEF Receive
      <4>2. received[d][i] \in Nat /\ received[d][i] <= Out
        BY <1>0, <2>2, <4>1 DEF ReceivedLeft
      <4> QED
        BY <1>0, <2>1, <4>1, <4>2
    <3>2. CASE d = c
      <4>1. received'[c] = Append(received[c], Out + 1)
        BY <1>0, <1>1, <2>1 DEF Receive
      <4>2. CASE i = Len(received[c]) + 1
        BY <1>0, <2>1, <3>2, <4>1, <4>2
      <4>3. CASE i # Len(received[c]) + 1
        <5>1. received'[c][i] = received[c][i] /\ i \in DOMAIN received[c]
          BY <1>0, <2>2, <3>2, <4>1, <4>3
        <5>2. received[c][i] \in Nat /\ received[c][i] <= Out
          BY <1>0, <5>1 DEF ReceivedLeft
        <5> QED
          BY <1>0, <2>1, <3>2, <5>1, <5>2
      <4> QED
        BY <4>2, <4>3
    <3> QED
      BY <3>1, <3>2
  <2> QED
    BY <2>2 DEF ReceivedLeft
<1>2. CASE Push
  <2>1. Out' = Out /\ received' = received
    BY <1>0, <1>2 DEF Push, Out
  <2> QED
    BY <2>1 DEF ReceivedLeft
<1>3. ASSUME UNCHANGED <<ch, accepted, received>> PROVE ReceivedLeft'
  BY <1>3 DEF ReceivedLeft, Out
<1>4. ASSUME NEW c \in Consumers, PopDrain(c) PROVE ReceivedLeft'
  BY <1>1, <1>3, <1>4 DEF PopDrain
<1>5. ASSUME NEW c \in Consumers,
             PopReceive(c) \/ PopCancelled(c) \/ PopClosed(c) \/ Cancel(c)
      PROVE  ReceivedLeft'
  BY <1>1, <1>3, <1>5 DEF PopReceive, PopCancelled, PopClosed, Cancel
<1>6. CASE Close \/ UNCHANGED vars
  BY <1>3, <1>6 DEF Close, vars
<1> QED
  BY <1>2, <1>4, <1>5, <1>6 DEF Next, PopStep

(* Each step of the channel is a step of the interface's contract, or      *)
(* changes nothing the contract speaks of.                                 *)
LEMMA MemorySimulates ==
    ASSUME TypeOK, QueueContents, ReceivedLeft, [Next]_vars
    PROVE  [EQ!Next]_EQ!vars
<1> USE DEF EQ!vars
<1>1. CASE Push
  <2>1. EQ!Accept
    BY <1>1 DEF Push, EQ!Accept
  <2> QED
    BY <2>1 DEF EQ!Next
<1>2. ASSUME NEW c \in Consumers, Receive(c), UNCHANGED <<closed, accepted>>
      PROVE  EQ!Next
  <2>1. EQ!Newest(c, Head(ch))
    BY <1>2, ReceiveIsNewest DEF EQ!Newest
  <2>2. EQ!Take(c)
    BY <1>2, <2>1 DEF Receive, EQ!Take
  <2> QED
    BY <2>2 DEF EQ!Next
<1>3. ASSUME UNCHANGED <<closed, ch, accepted, received>> PROVE UNCHANGED EQ!vars
  BY <1>3
<1>4. ASSUME NEW c \in Consumers, PopDrain(c) PROVE [EQ!Next]_EQ!vars
  BY <1>2, <1>3, <1>4 DEF PopDrain
<1>5. ASSUME NEW c \in Consumers,
             PopReceive(c) \/ PopCancelled(c) \/ PopClosed(c) \/ Cancel(c)
      PROVE  [EQ!Next]_EQ!vars
  BY <1>2, <1>3, <1>5 DEF PopReceive, PopCancelled, PopClosed, Cancel
<1>6. CASE Close
  <2>1. EQ!Shut
    BY <1>6 DEF Close, EQ!Shut, EQ!Keep
  <2> QED
    BY <2>1 DEF EQ!Next
<1>7. CASE UNCHANGED vars
  BY <1>3, <1>7 DEF vars
<1> QED
  BY <1>1, <1>4, <1>5, <1>6, <1>7 DEF Next, PopStep

(* memory.go keeps the contract of the Queue interface but for its clause  *)
(* on Close and loses nothing: every event goes to one consumer, oldest    *)
(* first.                                                                  *)
THEOREM MemoryImplements == Spec => ImplementsEventQueue
<1>1. Init => EQ!Init /\ ReceivedLeft
  BY DEF Init, EQ!Init, ReceivedLeft
<1> QED
  BY <1>1, MemoryInit, MemoryTypeStep, ContentsStep, ReceivedLeftStep, MemorySimulates,
     PTL DEF Spec, ImplementsEventQueue, EQ!Spec
=============================================================================
