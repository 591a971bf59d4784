-------------------------- MODULE BboltQueueProofs --------------------------
(***************************************************************************)
(* Proofs that the persistent queue keeps its file consistent, hands out   *)
(* every event at most once and in order, acknowledges only what is        *)
(* stored, reports its length, loses nothing while it is open and no more  *)
(* than is outstanding otherwise, and implements EventQueue: for any       *)
(* number of callers, any channel capacity and any number of pushes,       *)
(* failing transactions, closes, crashes and restarts.                     *)
(***************************************************************************)
EXTENDS BboltQueue, TLAPS

(* Every step keeps the variables in their types.                          *)
LEMMA TypeStep == TypeOK /\ [Next]_vars => TypeOK'
<1> SUFFICES ASSUME TypeOK, [Next]_vars PROVE TypeOK'
  OBVIOUS
<1> USE DEF TypeOK
<1>1. CASE NewBboltQueue
  <2>1. seq' \in Nat /\ read' \in Nat
    BY <1>1 DEF NewBboltQueue
  <2>2. writes' \in Seq(WriteOp)
    BY <1>1 DEF NewBboltQueue
  <2> QED
    BY <1>1, <2>1, <2>2 DEF NewBboltQueue, pushVars, popVars, history, counters
<1>2. ASSUME NEW c \in Pushers, PushStart(c) PROVE TypeOK'
  BY <1>2 DEF PushStart, file, object, popVars, history
<1>3. ASSUME NEW c \in Pushers, PushStep(c) PROVE TypeOK'
  <2>1. CASE PushSend(c)
    <3>1. PushRequest(c) \in WriteOp
      BY DEF PushRequest, WriteOp, Callers
    <3> QED
      BY <2>1, <3>1 DEF PushSend, file, popVars, history, counters
  <2>2. CASE PushGiveUp(c)
    BY <2>2 DEF PushGiveUp, PushLeaves, file, object, popVars, history, counters
  <2>3. CASE PushReturn(c)
    BY <2>3 DEF PushReturn, PushLeaves, file, object, popVars, counters
  <2> QED
    BY <1>3, <2>1, <2>2, <2>3 DEF PushStep
<1>4. ASSUME NEW c \in Poppers, PopStart(c) PROVE TypeOK'
  BY <1>4 DEF PopStart, file, object, pushVars, history, counters
<1>5. ASSUME NEW c \in Poppers, PopStep(c) PROVE TypeOK'
  <2>0. NoResult \in PopResult
    BY DEF NoResult, PopResult
  <2>1. CASE PopSend(c)
    <3>1. PopRequest(c) \in WriteOp
      BY DEF PopRequest, WriteOp, Callers
    <3> QED
      BY <2>1, <3>1 DEF PopSend, file, pushVars, history, counters
  <2>2. CASE PopGiveUp(c)
    BY <2>2 DEF PopGiveUp, file, object, pushVars, history, counters
  <2>3. ASSUME TakeAnswer(c)
        PROVE  /\ popRes' \in [Poppers -> PopResult]
               /\ popPc' \in [Poppers -> {"idle", "send", "wait", "drain", "tick"}]
               /\ cancelled' \in SUBSET Callers
               /\ delivered' \in [Poppers -> Seq(Nat)]
    <3>1. popRes[c].key \in Nat
      BY DEF PopResult
    <3>2. Append(delivered[c], popRes[c].key) \in Seq(Nat)
      BY <3>1
    <3> QED
      BY <2>0, <2>3, <3>2 DEF TakeAnswer
  <2>4. CASE PopReturn(c)
    BY <2>3, <2>4 DEF PopReturn, file, object, pushVars, counters
  <2>5. CASE PopInterrupted(c)
    BY <2>5 DEF PopInterrupted, file, object, pushVars, history, counters
  <2>6. CASE PopDrain(c)
    BY <2>3, <2>6 DEF PopDrain, file, object, pushVars, counters
  <2>7. CASE PopTick(c)
    BY <2>7 DEF PopTick, file, object, pushVars, history, counters
  <2> QED
    BY <1>5, <2>1, <2>2, <2>4, <2>5, <2>6, <2>7 DEF PopStep
<1>6. ASSUME NEW c \in Callers, Cancel(c) PROVE TypeOK'
  BY <1>6 DEF Cancel, file, object, pushVars, popVars, history, counters
<1>7. ASSUME NEW kind, LoopReceive(kind)
      PROVE  /\ writes' \in Seq(WriteOp)
             /\ Head(writes) \in WriteOp /\ Head(writes).payload \in Nat
             /\ loopOp' \in WriteOp
             /\ loopPc' \in {"select", "answer", "exited"}
  <2>1. Head(writes) \in WriteOp /\ Tail(writes) \in Seq(WriteOp)
    BY <1>7 DEF LoopReceive
  <2> QED
    BY <1>7, <2>1 DEF LoopReceive, WriteOp
<1>8. CASE WritePush
  <2>1. loopRes' \in PopResult
    BY <1>8 DEF WritePush, PopResult
  <2>2. store' \in [DOMAIN store' -> Nat]
    BY <1>8, <1>7 DEF WritePush
  <2> QED
    BY <1>7, <1>8, <2>1, <2>2 DEF WritePush, LoopReceive, pushVars, popVars
<1>9. CASE ReadAndClaim
  <2>1. loopRes' \in PopResult /\ read' \in Nat
    <3>1. \/ /\ read' = read + 1
             /\ loopRes' = [sent |-> TRUE, err |-> FALSE, found |-> TRUE, key |-> read]
          \/ /\ read' = read
             /\ loopRes' = [sent |-> TRUE, err |-> FALSE, found |-> FALSE, key |-> 0]
      BY <1>9, Zenon DEF ReadAndClaim
    <3>2. /\ [sent |-> TRUE, err |-> FALSE, found |-> TRUE, key |-> read] \in PopResult
          /\ [sent |-> TRUE, err |-> FALSE, found |-> FALSE, key |-> 0] \in PopResult
      BY DEF PopResult
    <3>3. read \in Nat /\ read + 1 \in Nat
      OBVIOUS
    <3> HIDE DEF TypeOK
    <3> QED
      BY <3>1, <3>2, <3>3, Zenon
  <2>2. store' \in [DOMAIN store' -> Nat]
    BY <1>9 DEF ReadAndClaim
  <2> QED
    BY <1>7, <1>9, <2>1, <2>2 DEF ReadAndClaim, LoopReceive, pushVars, popVars
<1>10. CASE LoopAnswer
  <2>1. NoResult \in PopResult /\ PushAnswer(loopRes) \in {"nil", "err"}
    BY DEF NoResult, PopResult, PushAnswer
  <2> QED
    BY <1>10, <2>1 DEF LoopAnswer, file, history, counters
<1>11. CASE LoopDropAnswer
  <2>1. NoResult \in PopResult
    BY DEF NoResult, PopResult
  <2> QED
    BY <1>11, <2>1 DEF LoopDropAnswer, file, pushVars, popVars, history, counters
<1>12. CASE LoopExit
  BY <1>12 DEF LoopExit, file, pushVars, popVars, history, counters
<1>13. ASSUME NEW kind \in {"push", "pop"}, LoopFault(kind) PROVE TypeOK'
  <2>1. loopRes' \in PopResult
    <3>1. PICK found \in BOOLEAN :
            loopRes' = [sent |-> TRUE, err |-> TRUE, found |-> found,
                        key |-> IF found THEN read ELSE 0]
      BY <1>13 DEF LoopFault
    <3> QED
      BY <3>1 DEF PopResult
  <2> QED
    BY <1>7, <1>13, <2>1, SMTT(30) DEF LoopFault, LoopReceive, pushVars, popVars, file
<1>14. CASE Close
  BY <1>14 DEF Close, file, pushVars, popVars, history, counters
<1>15. CASE CloseReturn
  BY <1>15 DEF CloseReturn, file, pushVars, popVars, history, counters
<1>16. CASE ProcessEnds
  <2>1. NoResult \in PopResult
    BY DEF NoResult, PopResult
  <2>2. writes' \in Seq(WriteOp)
    BY <1>16 DEF ProcessEnds
  <2> QED
    BY <1>16, <2>1, <2>2 DEF ProcessEnds, file, history, counters
<1>17. CASE UNCHANGED vars
  BY <1>17 DEF vars, file, object, pushVars, popVars, history, counters
<1> QED
  BY <1>1, <1>2, <1>3, <1>4, <1>5, <1>6, <1>8, <1>9, <1>10, <1>11, <1>12,
     <1>13, <1>14, <1>15, <1>16, <1>17 DEF Next, LoopStep

(* The variables of the queue always have their types.                     *)
THEOREM TypeCorrect == Spec => []TypeOK
<1>1. Init => TypeOK
  <2>1. NoResult \in PopResult
    BY DEF NoResult, PopResult
  <2>2. <<>> \in Seq(WriteOp) /\ <<>> \in Seq(Nat) /\ <<>> \in [DOMAIN <<>> -> Nat]
    OBVIOUS
  <2>3. ASSUME Init
        PROVE  /\ seq \in Nat /\ read \in Nat /\ store \in [DOMAIN store -> Nat]
               /\ status \in {"down", "up", "closed"} /\ done \in BOOLEAN
               /\ writes \in Seq(WriteOp)
    BY <2>2, <2>3 DEF Init
  <2>4. ASSUME Init
        PROVE  /\ log \in Seq(Nat) /\ delivered \in [Poppers -> Seq(Nat)]
               /\ acked \in SUBSET Nat /\ pushes \in Nat /\ faults \in Nat
    BY <2>2, <2>4 DEF Init
  <2>5. ASSUME Init
        PROVE  /\ loopPc = "exited" /\ loopOp = NoOp /\ loopRes \in PopResult
               /\ pushPc \in [Pushers -> {"idle", "send", "wait"}]
               /\ pushId \in [Pushers -> Nat]
               /\ pushRes \in [Pushers -> {"none", "nil", "err"}]
    BY <2>1, <2>5 DEF Init
  <2>6. ASSUME Init
        PROVE  /\ popPc \in [Poppers -> {"idle", "send", "wait", "drain", "tick"}]
               /\ popRes \in [Poppers -> PopResult]
               /\ cancelled \in SUBSET Callers
    BY <2>1, <2>6 DEF Init
  <2> QED
    BY <2>3, <2>4, <2>5, <2>6 DEF TypeOK
<1> QED
  BY <1>1, TypeStep, PTL DEF Spec

-----------------------------------------------------------------------------
(* The actions of the callers, and the ones that open and close nothing in *)
(* the file, leave the file and the log of the write loop alone.           *)
LEMMA QuietSteps ==
    ASSUME \/ \E c \in Pushers : PushStart(c) \/ PushStep(c)
           \/ \E c \in Poppers : PopStart(c) \/ PopStep(c)
           \/ \E c \in Callers : Cancel(c)
           \/ Close \/ CloseReturn
           \/ UNCHANGED vars
    PROVE  UNCHANGED <<seq, read, store, log, loopPc, loopOp, loopRes>>
<1>1. ASSUME NEW c \in Pushers, PushStart(c) \/ PushStep(c)
      PROVE  UNCHANGED <<seq, read, store, log, loopPc, loopOp, loopRes>>
  BY <1>1 DEF PushStart, PushStep, PushSend, PushGiveUp, PushReturn,
     PushLeaves, file, object, history
<1>2. ASSUME NEW c \in Poppers, PopStart(c) \/ PopStep(c)
      PROVE  UNCHANGED <<seq, read, store, log, loopPc, loopOp, loopRes>>
  BY <1>2 DEF PopStart, PopStep, PopSend, PopGiveUp, PopReturn,
     PopInterrupted, PopDrain, PopTick, file, object, history
<1>3. ASSUME NEW c \in Callers, Cancel(c)
      PROVE  UNCHANGED <<seq, read, store, log, loopPc, loopOp, loopRes>>
  BY <1>3 DEF Cancel, file, object, history
<1>4. CASE Close \/ CloseReturn \/ UNCHANGED vars
  BY <1>4 DEF Close, CloseReturn, vars, file, object, history
<1> QED
  BY <1>1, <1>2, <1>3, <1>4

(* The file agrees with its counters after every step: a push writes under *)
(* the first free key, a claim removes the oldest event, a failed          *)
(* transaction, a crash and a restart leave what was committed.            *)
LEMMA FileStep == TypeOK /\ FileInv /\ [Next]_vars => FileInv'
<1> SUFFICES ASSUME TypeOK, FileInv, [Next]_vars PROVE FileInv'
  OBVIOUS
<1>0. seq \in Nat /\ read \in Nat /\ log \in Seq(Nat) /\ writes \in Seq(WriteOp)
  BY DEF TypeOK
<1>1. CASE NewBboltQueue
  BY <1>0, <1>1 DEF NewBboltQueue, FileInv, history
<1>2. CASE WritePush
  <2>0. Head(writes) \in WriteOp
    BY <1>0, <1>2 DEF WritePush, LoopReceive
  <2>1. seq > 0 /\ Head(writes).payload \in Nat
    BY <1>0, <1>2, <2>0 DEF WritePush, LoopReceive, FileInv, WriteOp
  <2>2. Len(log) = seq - 1
    BY <1>0, <2>1 DEF FileInv
  <2>3. /\ log' = Append(log, Head(writes).payload)
        /\ Len(log') = seq
        /\ log'[seq] = Head(writes).payload
        /\ \A k \in 1..(seq - 1) : log'[k] = log[k]
    BY <1>0, <1>2, <2>1, <2>2 DEF WritePush
  <2>4. read > 0 /\ read <= seq /\ DOMAIN store = read..(seq - 1)
    BY <1>0, <2>1 DEF FileInv
  <2>5. DOMAIN store' = read..seq
    BY <1>0, <1>2, <2>4 DEF WritePush
  <2>6. \A k \in DOMAIN store' : store'[k] = log'[k]
    BY <1>0, <1>2, <2>3, <2>4, <2>5 DEF WritePush, FileInv
  <2> QED
    BY <1>0, <1>2, <2>1, <2>3, <2>4, <2>5, <2>6 DEF WritePush, FileInv
<1>3. CASE ReadAndClaim
  <2>1. seq > 0
    BY <1>0, <1>3 DEF ReadAndClaim, LoopReceive, FileInv
  <2>2. CASE read \in DOMAIN store
    <3>1. /\ store' = [k \in DOMAIN store \ {read} |-> store[k]]
          /\ read' = read + 1 /\ seq' = seq /\ log' = log
      BY <1>3, <2>2 DEF ReadAndClaim
    <3>2. read > 0 /\ read < seq /\ DOMAIN store = read..(seq - 1)
      BY <1>0, <2>1, <2>2 DEF FileInv
    <3>3. DOMAIN store' = (read + 1)..(seq - 1)
      BY <1>0, <3>1, <3>2
    <3>4. \A k \in DOMAIN store' : store'[k] = log'[k]
      BY <3>1 DEF FileInv
    <3> QED
      BY <1>0, <3>1, <3>2, <3>3, <3>4 DEF FileInv
  <2>3. CASE read \notin DOMAIN store
    BY <1>0, <1>3, <2>1, <2>3 DEF ReadAndClaim, FileInv
  <2> QED
    BY <2>2, <2>3
<1>4. ASSUME NEW kind \in {"push", "pop"}, LoopFault(kind) PROVE FileInv'
  BY <1>0, <1>4 DEF LoopFault, LoopReceive, FileInv, file
<1>5. CASE LoopAnswer \/ LoopDropAnswer \/ LoopExit \/ ProcessEnds
  BY <1>0, <1>5 DEF LoopAnswer, LoopDropAnswer, LoopExit, ProcessEnds, FileInv,
     file, history
<1>6. CASE UNCHANGED <<seq, read, store, log, loopPc, loopOp, loopRes>>
  BY <1>6 DEF FileInv
<1> QED
  BY <1>1, <1>2, <1>3, <1>4, <1>5, <1>6, QuietSteps DEF Next, LoopStep

-----------------------------------------------------------------------------
(* The part of QueueInv about the order and the uniqueness of deliveries.  *)
OrderInv == KeyInv /\ AtMostOnce /\ PopperFIFO

(* The keys under way and delivered are natural numbers.                   *)
LEMMA KeyTypes ==
    ASSUME TypeOK
    PROVE  /\ read \in Nat /\ loopRes.key \in Nat
           /\ \A c \in Poppers : popRes[c].key \in Nat
           /\ \A c \in Poppers : \A i \in DOMAIN delivered[c] :
                delivered[c][i] \in Nat
  BY DEF TypeOK, PopResult

(* A step that delivers nothing, claims nothing and answers nobody keeps   *)
(* the order, whatever it forgets.                                         *)
LEMMA ForgetfulStep ==
    ASSUME TypeOK, TypeOK', OrderInv, delivered' = delivered, read <= read',
           \A c \in Poppers : popRes'[c] = popRes[c] \/ ~Claimed(popRes'[c]),
           loopRes' = loopRes \/ ~Claimed(loopRes')
    PROVE  OrderInv'
<1>1. KeyInv'
  <2>0. read \in Nat /\ read' \in Nat
    BY DEF TypeOK
  <2>1. \A c \in Poppers : Claimed(popRes'[c]) => popRes'[c] = popRes[c]
    OBVIOUS
  <2>2. Claimed(loopRes') => loopRes' = loopRes
    OBVIOUS
  <2>3. \A c \in Poppers : \A i \in DOMAIN delivered'[c] : delivered'[c][i] < read'
    BY <2>0, KeyTypes DEF OrderInv, KeyInv
  <2>4. ASSUME NEW c \in Poppers, Claimed(popRes'[c])
        PROVE  /\ popRes'[c].key < read'
               /\ \A i \in DOMAIN delivered'[c] : delivered'[c][i] < popRes'[c].key
               /\ \A d \in Poppers : \A i \in DOMAIN delivered'[d] :
                    delivered'[d][i] # popRes'[c].key
               /\ \A d \in Poppers \ {c} :
                    Claimed(popRes'[d]) => popRes'[d].key # popRes'[c].key
    BY <2>0, <2>1, <2>4, KeyTypes DEF OrderInv, KeyInv
  <2>5. ASSUME Claimed(loopRes')
        PROVE  /\ loopRes'.key < read'
               /\ \A c \in Poppers :
                    /\ \A i \in DOMAIN delivered'[c] : delivered'[c][i] < loopRes'.key
                    /\ Claimed(popRes'[c]) => popRes'[c].key < loopRes'.key
    BY <2>0, <2>1, <2>2, <2>5, KeyTypes DEF OrderInv, KeyInv
  <2> QED
    BY <2>3, <2>4, <2>5 DEF KeyInv
<1>2. AtMostOnce' /\ PopperFIFO'
  BY DEF OrderInv, AtMostOnce, PopperFIFO
<1> QED
  BY <1>1, <1>2 DEF OrderInv

(* An empty answer channel holds no claim.                                 *)
LEMMA NoResultNotClaimed == ~Claimed(NoResult)
  BY DEF Claimed, NoResult

(* Pop returns a claimed event: its key is newer than all its caller has   *)
(* received and has been delivered to nobody else.                         *)
LEMMA DeliverStep ==
    ASSUME TypeOK, TypeOK', OrderInv, NEW c \in Poppers, TakeAnswer(c),
           read' = read, loopRes' = loopRes
    PROVE  OrderInv'
<1>0. /\ popRes \in [Poppers -> PopResult] /\ delivered \in [Poppers -> Seq(Nat)]
      /\ popRes' = [popRes EXCEPT ![c] = NoResult]
      /\ popRes[c].key \in Nat /\ delivered[c] \in Seq(Nat)
  BY KeyTypes DEF TypeOK, TakeAnswer
<1>1. \A d \in Poppers : popRes'[d] = IF d = c THEN NoResult ELSE popRes[d]
  BY <1>0
<1>2. CASE ~Claimed(popRes[c])
  <2>1. delivered' = delivered
    BY <1>2 DEF TakeAnswer, Claimed
  <2> QED
    BY <1>1, <2>1, ForgetfulStep, NoResultNotClaimed, KeyTypes
<1>3. CASE Claimed(popRes[c])
  <2> DEFINE key == popRes[c].key
             n == Len(delivered[c])
  <2>1. delivered' = [delivered EXCEPT ![c] = Append(delivered[c], key)]
    BY <1>3 DEF TakeAnswer, Claimed
  <2>2. /\ n \in Nat /\ DOMAIN delivered[c] = 1..n
        /\ DOMAIN delivered'[c] = 1..(n + 1)
        /\ delivered'[c][n + 1] = key
        /\ \A i \in 1..n : delivered'[c][i] = delivered[c][i]
    BY <1>0, <2>1
  <2>3. \A d \in Poppers \ {c} : delivered'[d] = delivered[d]
    BY <1>0, <2>1
  <2>4. /\ key < read
        /\ \A i \in 1..n : delivered[c][i] < key
        /\ \A d \in Poppers : \A i \in DOMAIN delivered[d] : delivered[d][i] # key
        /\ \A d \in Poppers \ {c} : Claimed(popRes[d]) => popRes[d].key # key
        /\ Claimed(loopRes) => key < loopRes.key
    BY <1>3, <2>2 DEF OrderInv, KeyInv
  <2>5. PopperFIFO'
    <3> SUFFICES ASSUME NEW d \in Poppers, NEW i \in DOMAIN delivered'[d],
                        NEW j \in DOMAIN delivered'[d], i < j
                 PROVE  delivered'[d][i] < delivered'[d][j]
      BY DEF PopperFIFO
    <3>1. CASE d = c
      <4>1. i \in 1..n /\ j \in 1..(n + 1)
        BY <2>2, <3>1
      <4>2. CASE j = n + 1
        BY <2>2, <2>4, <3>1, <4>1, <4>2
      <4>3. CASE j \in 1..n
        BY <2>2, <3>1, <4>1, <4>3 DEF OrderInv, PopperFIFO
      <4> QED
        BY <2>2, <4>1, <4>2, <4>3
    <3>2. CASE d # c
      BY <2>3, <3>2 DEF OrderInv, PopperFIFO
    <3> QED
      BY <3>1, <3>2
  <2>6. AtMostOnce'
    <3> SUFFICES ASSUME NEW d \in Poppers, NEW e \in Poppers,
                        NEW i \in DOMAIN delivered'[d],
                        NEW j \in DOMAIN delivered'[e],
                        delivered'[d][i] = delivered'[e][j]
                 PROVE  d = e /\ i = j
      BY DEF AtMostOnce
    <3>1. CASE d = c /\ e = c
      <4>1. /\ i \in 1..(n + 1) /\ j \in 1..(n + 1)
            /\ \A k \in 1..n : delivered'[c][k] # key
        BY <2>2, <2>4, <3>1
      <4>2. CASE i = n + 1 \/ j = n + 1
        BY <2>2, <3>1, <4>1, <4>2
      <4>3. CASE i \in 1..n /\ j \in 1..n
        BY <2>2, <3>1, <4>3 DEF OrderInv, AtMostOnce
      <4> QED
        BY <2>2, <3>1, <4>1, <4>2, <4>3
    <3>2. CASE d = c /\ e # c
      BY <2>2, <2>3, <2>4, <3>2, SMTT(30) DEF OrderInv, AtMostOnce
    <3>3. CASE d # c /\ e = c
      BY <2>2, <2>3, <2>4, <3>3, SMTT(30) DEF OrderInv, AtMostOnce
    <3>4. CASE d # c /\ e # c
      BY <2>3, <3>4 DEF OrderInv, AtMostOnce
    <3> QED
      BY <3>1, <3>2, <3>3, <3>4
  <2>7. KeyInv'
    <3>1. \A d \in Poppers : \A i \in DOMAIN delivered'[d] :
            delivered'[d][i] = key \/
              (i \in DOMAIN delivered[d] /\ delivered'[d][i] = delivered[d][i])
      <4>1. \A i \in 1..(n + 1) : delivered'[c][i] = key \/
              (i \in 1..n /\ delivered'[c][i] = delivered[c][i])
        BY <2>2
      <4> QED
        BY <2>2, <2>3, <4>1
    <3>2. \A d \in Poppers : Claimed(popRes'[d]) => d # c /\ popRes'[d] = popRes[d]
      BY <1>1, NoResultNotClaimed
    <3>3. \A d \in Poppers : \A i \in DOMAIN delivered'[d] : delivered'[d][i] < read'
      BY <2>4, <3>1 DEF OrderInv, KeyInv
    <3>4. ASSUME NEW d \in Poppers, Claimed(popRes'[d])
          PROVE  /\ popRes'[d].key < read'
                 /\ \A i \in DOMAIN delivered'[d] : delivered'[d][i] < popRes'[d].key
                 /\ \A e \in Poppers : \A i \in DOMAIN delivered'[e] :
                      delivered'[e][i] # popRes'[d].key
                 /\ \A e \in Poppers \ {d} :
                      Claimed(popRes'[e]) => popRes'[e].key # popRes'[d].key
      <4>1. d # c /\ popRes'[d] = popRes[d] /\ popRes[d].key # key
        BY <2>4, <3>2, <3>4
      <4> QED
        BY <2>3, <3>1, <3>2, <3>4, <4>1 DEF OrderInv, KeyInv
    <3>5. ASSUME Claimed(loopRes')
          PROVE  /\ loopRes'.key < read'
                 /\ \A d \in Poppers :
                      /\ \A i \in DOMAIN delivered'[d] : delivered'[d][i] < loopRes'.key
                      /\ Claimed(popRes'[d]) => popRes'[d].key < loopRes'.key
      BY <2>4, <3>1, <3>2, <3>5 DEF OrderInv, KeyInv
    <3> QED
      BY <3>3, <3>4, <3>5 DEF KeyInv
  <2> QED
    BY <2>5, <2>6, <2>7 DEF OrderInv
<1> QED
  BY <1>2, <1>3

(* A claim takes a key newer than every key claimed before it.             *)
LEMMA ClaimStep ==
    ASSUME TypeOK, TypeOK', OrderInv, ReadAndClaim
    PROVE  OrderInv'
<1>0. delivered' = delivered /\ popRes' = popRes /\ read \in Nat
  BY DEF ReadAndClaim, LoopReceive, popVars, TypeOK
<1>1. CASE read \in DOMAIN store
  <2>1. /\ read' = read + 1
        /\ loopRes' = [sent |-> TRUE, err |-> FALSE, found |-> TRUE, key |-> read]
    BY <1>1 DEF ReadAndClaim
  <2>2. loopRes'.key = read
    BY <2>1
  <2>3. KeyInv'
    BY <1>0, <2>1, <2>2, KeyTypes DEF OrderInv, KeyInv
  <2>4. AtMostOnce' /\ PopperFIFO'
    BY <1>0 DEF OrderInv, AtMostOnce, PopperFIFO
  <2> QED
    BY <2>3, <2>4 DEF OrderInv
<1>2. CASE read \notin DOMAIN store
  <2>1. /\ read' = read
        /\ loopRes' = [sent |-> TRUE, err |-> FALSE, found |-> FALSE, key |-> 0]
    BY <1>2 DEF ReadAndClaim
  <2>2. ~Claimed(loopRes')
    BY <2>1 DEF Claimed
  <2> QED
    BY <1>0, <2>1, <2>2, ForgetfulStep
<1> QED
  BY <1>1, <1>2

(* The loop passes its claim on to the caller that asked for it.           *)
LEMMA AnswerStep ==
    ASSUME TypeOK, TypeOK', OrderInv, LoopAnswer
    PROVE  OrderInv'
<1>0. /\ delivered' = delivered /\ read' = read /\ read \in Nat
      /\ loopRes' = NoResult /\ popRes \in [Poppers -> PopResult]
  BY DEF LoopAnswer, file, history, TypeOK
<1>1. CASE popRes' = popRes
  BY <1>0, <1>1, ForgetfulStep, NoResultNotClaimed
<1>2. CASE popRes' # popRes
  <2> DEFINE c == loopOp.caller
  <2>1. popRes' = [popRes EXCEPT ![c] = loopRes]
    BY <1>2 DEF LoopAnswer
  <2>2. c \in Poppers
    BY <1>0, <1>2, <2>1
  <2>3. \A d \in Poppers : popRes'[d] = IF d = c THEN loopRes ELSE popRes[d]
    BY <1>0, <2>1
  <2> HIDE DEF c
  <2>4. ASSUME NEW d \in Poppers, Claimed(popRes'[d])
        PROVE  /\ popRes'[d].key < read'
               /\ \A i \in DOMAIN delivered'[d] : delivered'[d][i] < popRes'[d].key
               /\ \A e \in Poppers : \A i \in DOMAIN delivered'[e] :
                    delivered'[e][i] # popRes'[d].key
               /\ \A e \in Poppers \ {d} :
                    Claimed(popRes'[e]) => popRes'[e].key # popRes'[d].key
    <3>1. CASE d = c
      <4>1. popRes'[d] = loopRes /\ Claimed(loopRes)
        BY <2>3, <2>4, <3>1
      <4>2. /\ loopRes.key < read
            /\ \A e \in Poppers : \A i \in DOMAIN delivered[e] :
                 delivered[e][i] < loopRes.key
            /\ \A e \in Poppers : Claimed(popRes[e]) => popRes[e].key < loopRes.key
        BY <4>1 DEF OrderInv, KeyInv
      <4>3. \A e \in Poppers \ {d} : popRes'[e] = popRes[e]
        BY <2>3, <3>1
      <4> QED
        BY <1>0, <4>1, <4>2, <4>3, KeyTypes
    <3>2. CASE d # c
      <4>1. popRes'[d] = popRes[d] /\ Claimed(popRes[d])
        BY <2>3, <2>4, <3>2
      <4>2. \A e \in Poppers \ {d} :
              Claimed(popRes'[e]) => popRes'[e].key # popRes[d].key
        <5>1. Claimed(loopRes) => popRes[d].key < loopRes.key
          BY <4>1 DEF OrderInv, KeyInv
        <5>2. \A e \in Poppers \ {d} :
                Claimed(popRes[e]) => popRes[e].key # popRes[d].key
          BY <4>1 DEF OrderInv, KeyInv
        <5> QED
          BY <2>3, <5>1, <5>2, KeyTypes
      <4> QED
        BY <1>0, <4>1, <4>2 DEF OrderInv, KeyInv
    <3> QED
      BY <3>1, <3>2
  <2>5. \A d \in Poppers : \A i \in DOMAIN delivered'[d] : delivered'[d][i] < read'
    BY <1>0 DEF OrderInv, KeyInv
  <2>6. KeyInv'
    BY <1>0, <2>4, <2>5, NoResultNotClaimed DEF KeyInv
  <2>7. AtMostOnce' /\ PopperFIFO'
    BY <1>0 DEF OrderInv, AtMostOnce, PopperFIFO
  <2> QED
    BY <2>6, <2>7 DEF OrderInv
<1> QED
  BY <1>1, <1>2

(* Every step keeps the order of the claims and of the deliveries.         *)
LEMMA OrderStep == TypeOK /\ OrderInv /\ [Next]_vars => OrderInv'
<1> SUFFICES ASSUME TypeOK, OrderInv, [Next]_vars PROVE OrderInv'
  OBVIOUS
<1>0. TypeOK' /\ read \in Nat /\ popRes \in [Poppers -> PopResult]
  BY TypeStep DEF TypeOK
<1>1. CASE NewBboltQueue
  <2>1. /\ delivered' = delivered /\ popRes' = popRes /\ loopRes' = loopRes
        /\ read <= read'
    BY <1>0, <1>1 DEF NewBboltQueue, popVars, history
  <2> QED
    BY <1>0, <2>1, ForgetfulStep
<1>2. ASSUME NEW c \in Pushers, PushStart(c) \/ PushStep(c) PROVE OrderInv'
  <2>1. UNCHANGED <<delivered, popRes, loopRes, read>>
    BY <1>2 DEF PushStart, PushStep, PushSend, PushGiveUp, PushReturn,
       PushLeaves, file, object, popVars, history
  <2> QED
    BY <1>0, <2>1, ForgetfulStep
<1>3. ASSUME NEW c \in Poppers, PopStart(c) \/ PopStep(c) PROVE OrderInv'
  <2>1. CASE PopReturn(c) \/ (PopDrain(c) /\ TakeAnswer(c))
    BY <1>0, <2>1, DeliverStep DEF PopReturn, PopDrain, file, object
  <2>2. CASE ~(PopReturn(c) \/ (PopDrain(c) /\ TakeAnswer(c)))
    <3>1. UNCHANGED <<delivered, popRes, loopRes, read>>
      BY <1>3, <2>2 DEF PopStart, PopStep, PopSend, PopGiveUp, PopInterrupted,
         PopDrain, PopTick, file, object, history
    <3> QED
      BY <1>0, <3>1, ForgetfulStep
  <2> QED
    BY <2>1, <2>2
<1>4. ASSUME NEW c \in Callers, Cancel(c) PROVE OrderInv'
  <2>1. UNCHANGED <<delivered, popRes, loopRes, read>>
    BY <1>4 DEF Cancel, file, object, popVars, history
  <2> QED
    BY <1>0, <2>1, ForgetfulStep
<1>5. CASE WritePush
  <2>1. /\ UNCHANGED <<delivered, popRes, read>>
        /\ loopRes' = [sent |-> TRUE, err |-> FALSE, found |-> FALSE, key |-> 0]
    BY <1>5 DEF WritePush, LoopReceive, popVars
  <2>2. ~Claimed(loopRes')
    BY <2>1 DEF Claimed
  <2> QED
    BY <1>0, <2>1, <2>2, ForgetfulStep
<1>6. CASE ReadAndClaim
  BY <1>0, <1>6, ClaimStep
<1>7. CASE LoopAnswer
  BY <1>0, <1>7, AnswerStep
<1>8. CASE LoopDropAnswer
  <2>1. UNCHANGED <<delivered, popRes, read>> /\ loopRes' = NoResult
    BY <1>8 DEF LoopDropAnswer, file, popVars, history
  <2> QED
    BY <1>0, <2>1, ForgetfulStep, NoResultNotClaimed
<1>9. CASE LoopExit \/ Close \/ CloseReturn \/ UNCHANGED vars
  <2>1. UNCHANGED <<delivered, popRes, loopRes, read>>
    BY <1>9 DEF LoopExit, Close, CloseReturn, vars, file, object, popVars, history
  <2> QED
    BY <1>0, <2>1, ForgetfulStep
<1>10. ASSUME NEW kind \in {"push", "pop"}, LoopFault(kind) PROVE OrderInv'
  <2>1. UNCHANGED <<delivered, popRes, read>>
    BY <1>10 DEF LoopFault, LoopReceive, popVars, file
  <2>2. ~Claimed(loopRes')
    BY <1>10 DEF LoopFault, Claimed
  <2> QED
    BY <1>0, <2>1, <2>2, ForgetfulStep
<1>11. CASE ProcessEnds
  <2>1. /\ UNCHANGED <<delivered, read>> /\ loopRes' = NoResult
        /\ \A c \in Poppers : popRes'[c] = NoResult
    BY <1>11 DEF ProcessEnds, file, history
  <2> QED
    BY <1>0, <2>1, ForgetfulStep, NoResultNotClaimed
<1> QED
  BY <1>1, <1>2, <1>3, <1>4, <1>5, <1>6, <1>7, <1>8, <1>9, <1>10, <1>11
     DEF Next, LoopStep

-----------------------------------------------------------------------------
(* The log only grows, so a stored payload stays stored.                   *)
LEMMA StoredStays ==
    ASSUME TypeOK, [Next]_vars, NEW p, Stored(p)
    PROVE  Stored(p)'
<1>1. CASE log' = log
  BY <1>1 DEF Stored
<1>2. CASE WritePush
  <2>1. log \in Seq(Nat) /\ log' = Append(log, Head(writes).payload)
    BY <1>2 DEF WritePush, TypeOK
  <2>2. /\ DOMAIN log = 1..Len(log) /\ Len(log) \in Nat
        /\ DOMAIN log' = 1..(Len(log) + 1)
        /\ \A k \in 1..Len(log) : log'[k] = log[k]
    BY <2>1
  <2> QED
    BY <2>2 DEF Stored
<1>3. ~WritePush => log' = log
  <2>1. CASE LoopStep \/ (\E kind \in {"push", "pop"} : LoopFault(kind))
        \/ NewBboltQueue \/ ProcessEnds
    BY <2>1 DEF LoopStep, ReadAndClaim, LoopAnswer, LoopDropAnswer, LoopExit,
       LoopFault, NewBboltQueue, ProcessEnds, history
  <2> QED
    BY <2>1, QuietSteps DEF Next
<1> QED
  BY <1>1, <1>2, <1>3

(* Every step keeps the acknowledgements honest: the loop says nil only    *)
(* after the commit, and safeSend passes on the answer to its own request. *)
LEMMA AckStep == TypeOK /\ AckInv /\ [Next]_vars => AckInv'
<1> SUFFICES ASSUME TypeOK, AckInv, [Next]_vars PROVE AckInv'
  OBVIOUS
<1>0. /\ pushPc \in [Pushers -> {"idle", "send", "wait"}]
      /\ pushId \in [Pushers -> Nat]
      /\ pushRes \in [Pushers -> {"none", "nil", "err"}]
  BY DEF TypeOK
<1>1. \A p : Stored(p) => Stored(p)'
  BY StoredStays
<1>2. ASSUME UNCHANGED <<pushPc, pushId, pushRes, acked>>,
             loopPc' # "answer" \/ UNCHANGED <<loopPc, loopOp, loopRes>>
      PROVE  AckInv'
  BY <1>1, <1>2 DEF AckInv
<1>3. ASSUME NEW c \in Pushers, PushStart(c) \/ PushStep(c) PROVE AckInv'
  <2>1. UNCHANGED <<loopPc, loopOp, loopRes>>
    BY <1>3, QuietSteps
  <2>2. CASE PushStart(c) \/ PushSend(c)
    BY <1>0, <1>1, <2>1, <2>2 DEF PushStart, PushSend, AckInv, history
  <2>3. CASE PushGiveUp(c)
    BY <1>0, <1>1, <2>1, <2>3 DEF PushGiveUp, PushLeaves, AckInv, history
  <2>4. CASE PushReturn(c)
    BY <1>0, <1>1, <2>1, <2>4 DEF PushReturn, PushLeaves, AckInv
  <2> QED
    BY <1>3, <2>2, <2>3, <2>4 DEF PushStep
<1>4. ASSUME NEW c \in Poppers, PopStart(c) \/ PopStep(c) PROVE AckInv'
  <2>1. UNCHANGED <<loopPc, loopOp, loopRes, pushPc, pushId, pushRes, acked>>
    BY <1>4 DEF PopStart, PopStep, PopSend, PopGiveUp, PopReturn,
       PopInterrupted, PopDrain, PopTick, object, pushVars, history
  <2> QED
    BY <1>2, <2>1
<1>5. ASSUME NEW c \in Callers, Cancel(c) PROVE AckInv'
  BY <1>2, <1>5 DEF Cancel, object, pushVars, history
<1>6. CASE WritePush
  <2>1. /\ UNCHANGED <<pushPc, pushId, pushRes, acked>>
        /\ loopOp' = Head(writes) /\ log' = Append(log, Head(writes).payload)
    BY <1>6 DEF WritePush, LoopReceive, pushVars
  <2>2. Stored(loopOp.payload)'
    <3>1. log \in Seq(Nat) /\ log' \in Seq(Nat)
      BY TypeStep DEF TypeOK
    <3>2. /\ Len(log) + 1 \in DOMAIN log'
          /\ log'[Len(log) + 1] = Head(writes).payload
      BY <2>1, <3>1
    <3> QED
      BY <2>1, <3>2 DEF Stored
  <2> QED
    BY <1>1, <2>1, <2>2 DEF AckInv
<1>7. CASE ReadAndClaim
  <2>1. /\ UNCHANGED <<pushPc, pushId, pushRes, acked>>
        /\ loopOp'.kind = "pop"
    BY <1>7 DEF ReadAndClaim, LoopReceive, pushVars
  <2> QED
    BY <1>1, <2>1 DEF AckInv
<1>8. CASE LoopAnswer
  <2>1. UNCHANGED <<pushPc, pushId, acked, log>> /\ loopPc' = "select"
    BY <1>8 DEF LoopAnswer, history
  <2>2. CASE pushRes' = pushRes
    BY <1>1, <2>1, <2>2 DEF AckInv
  <2>3. CASE pushRes' # pushRes
    <3>1. /\ loopPc = "answer" /\ loopOp.kind = "push"
          /\ pushPc[loopOp.caller] = "wait"
          /\ pushId[loopOp.caller] = loopOp.payload
          /\ pushRes' = [pushRes EXCEPT ![loopOp.caller] = PushAnswer(loopRes)]
      BY <1>8, <2>3 DEF LoopAnswer
    <3>2. PushAnswer(loopRes) = "nil" => Stored(loopOp.payload)
      BY <3>1 DEF PushAnswer, AckInv
    <3> QED
      BY <1>0, <1>1, <2>1, <3>1, <3>2 DEF AckInv
  <2> QED
    BY <2>2, <2>3
<1>9. CASE LoopDropAnswer \/ LoopExit \/ Close \/ CloseReturn \/ UNCHANGED vars
  BY <1>2, <1>9 DEF LoopDropAnswer, LoopExit, Close, CloseReturn, vars, object,
     pushVars, history
<1>10. ASSUME NEW kind \in {"push", "pop"}, LoopFault(kind) PROVE AckInv'
  <2>1. UNCHANGED <<pushPc, pushId, pushRes, acked>> /\ loopRes'.err
    BY <1>10 DEF LoopFault, LoopReceive, pushVars
  <2> QED
    BY <1>1, <2>1 DEF AckInv
<1>11. CASE NewBboltQueue
  BY <1>2, <1>11 DEF NewBboltQueue, pushVars, history
<1>12. CASE ProcessEnds
  <2>1. /\ \A c \in Pushers : pushRes'[c] = "none"
        /\ loopPc' = "exited" /\ acked' = acked
    BY <1>12 DEF ProcessEnds, history
  <2> QED
    BY <1>1, <2>1 DEF AckInv
<1> QED
  BY <1>3, <1>4, <1>5, <1>6, <1>7, <1>8, <1>9, <1>10, <1>11, <1>12
     DEF Next, LoopStep

-----------------------------------------------------------------------------
(* The queue starts in its invariant.                                      *)
LEMMA QueueInit == Init => QueueInv
<1> SUFFICES ASSUME Init PROVE QueueInv
  OBVIOUS
<1>1. \A c \in Poppers : popRes[c] = NoResult /\ delivered[c] = <<>>
  BY DEF Init
<1>2. KeyInv /\ AtMostOnce /\ PopperFIFO
  BY <1>1, NoResultNotClaimed DEF Init, KeyInv, AtMostOnce, PopperFIFO
<1>3. FileInv /\ AckInv
  BY DEF Init, FileInv, AckInv
<1> QED
  BY <1>2, <1>3 DEF QueueInv

(* The inductive invariant of the persistent queue.                        *)
THEOREM QueueCorrect == Spec => []QueueInv
<1>1. TypeOK /\ QueueInv /\ [Next]_vars => QueueInv'
  BY FileStep, OrderStep, AckStep DEF QueueInv, OrderInv
<1> QED
  BY <1>1, QueueInit, TypeCorrect, PTL DEF Spec

(* No event is handed out twice, and each caller receives in push order.   *)
THEOREM DeliveryCorrect == Spec => [](AtMostOnce /\ PopperFIFO)
<1>1. QueueInv => AtMostOnce /\ PopperFIFO
  BY DEF QueueInv
<1> QED
  BY <1>1, QueueCorrect, PTL

(* A Push that returned nil has stored its payload.                        *)
THEOREM AckCorrect == Spec => []AckedIsDurable
<1>1. QueueInv => AckedIsDurable
  BY DEF QueueInv, AckInv, AckedIsDurable
<1> QED
  BY <1>1, QueueCorrect, PTL

-----------------------------------------------------------------------------
(* The requests under way, and what is lost.                               *)

(* A caller of Pop has one request under way at most, and its answer lies  *)
(* in one place: in writes, in the loop, or in the answer channel.  A      *)
(* caller about to send has none, nor has an idle one before Close; only   *)
(* Close makes a Pop leave its request behind.                             *)
RequestOf(c) ==
    /\ \A i, j \in DOMAIN writes :
         writes[i] = PopRequest(c) /\ writes[j] = PopRequest(c) => i = j
    /\ (\E i \in DOMAIN writes : writes[i] = PopRequest(c)) =>
         loopOp # PopRequest(c) /\ ~popRes[c].sent
    /\ loopOp = PopRequest(c) => ~popRes[c].sent
    /\ popRes[c].sent => popPc[c] \in {"wait", "drain"}
    /\ popPc[c] = "drain" => done
    /\ popPc[c] \in {"send", "tick"} \/ (popPc[c] = "idle" /\ ~done) =>
         /\ loopOp # PopRequest(c)
         /\ \A i \in DOMAIN writes : writes[i] # PopRequest(c)

(* The loop holds a request and its answer only while it answers, every    *)
(* request to pop names a caller of Pop, and a process that is down has    *)
(* no caller.                                                              *)
LoopInv ==
    /\ \A i \in DOMAIN writes :
         writes[i].kind = "pop" => \E c \in Poppers : writes[i] = PopRequest(c)
    /\ loopOp.kind = "pop" => \E c \in Poppers : loopOp = PopRequest(c)
    /\ loopPc # "answer" => loopOp = NoOp /\ loopRes = NoResult
    /\ status = "down" => loopPc = "exited" /\ \A c \in Poppers : popPc[c] = "idle"

RequestInv == LoopInv /\ \A c \in Poppers : RequestOf(c)

(* Requests of different callers, or of different kinds, differ.           *)
LEMMA RequestsDiffer ==
    /\ \A c, d : PopRequest(c) = PopRequest(d) => c = d
    /\ \A c, d : PopRequest(c) # PushRequest(d)
    /\ \A c : PopRequest(c).kind = "pop" /\ PopRequest(c).caller = c
    /\ \A c : PopRequest(c) # NoOp
    /\ \A c : PushRequest(c).kind = "push"
    /\ NoOp.kind = "none" /\ ~NoResult.sent
<1>1. \A c : PopRequest(c).kind = "pop" /\ PopRequest(c).caller = c
  BY DEF PopRequest
<1>2. \A c : PushRequest(c).kind = "push"
  BY DEF PushRequest
<1>3. NoOp.kind = "none" /\ ~NoResult.sent
  BY DEF NoOp, NoResult
<1>4. \A c, d : PopRequest(c) # PushRequest(d)
  BY <1>1, <1>2
<1>5. \A c : PopRequest(c) # NoOp
  BY <1>1, <1>3
<1>6. \A c, d : PopRequest(c) = PopRequest(d) => c = d
  BY <1>1
<1> QED
  BY <1>1, <1>2, <1>3, <1>4, <1>5, <1>6

(* A send on writes: what was there stays, the request is the last.        *)
LEMMA SendOnWrites ==
    ASSUME TypeOK, NEW op, writes' = Append(writes, op)
    PROVE  /\ DOMAIN writes' = DOMAIN writes \cup {Len(writes) + 1}
           /\ Len(writes) + 1 \notin DOMAIN writes
           /\ writes'[Len(writes) + 1] = op
           /\ \A i \in DOMAIN writes : writes'[i] = writes[i]
<1>1. writes \in Seq(WriteOp)
  BY DEF TypeOK
<1> QED
  BY <1>1

(* A receive from writes: the others move up.                              *)
LEMMA ReceiveFromWrites ==
    ASSUME TypeOK, writes # <<>>, writes' = Tail(writes)
    PROVE  /\ 1 \in DOMAIN writes /\ Head(writes) = writes[1]
           /\ \A i \in DOMAIN writes' :
                /\ i \in Nat /\ i + 1 \in DOMAIN writes /\ i + 1 # 1
                /\ writes'[i] = writes[i + 1]
<1>1. writes \in Seq(WriteOp)
  BY DEF TypeOK
<1> QED
  BY <1>1

(* A step that neither sends nor receives nor answers keeps the requests   *)
(* as they are.                                                            *)
LEMMA RequestFrame ==
    ASSUME RequestInv, UNCHANGED <<writes, loopOp, loopRes, popPc, popRes>>,
           loopPc' # "answer" => loopPc # "answer",
           status' = "down" => status = "down" /\ loopPc' = loopPc,
           done => done'
    PROVE  RequestInv'
<1>1. LoopInv'
  BY DEF RequestInv, LoopInv, PopRequest
<1>2. ASSUME NEW c \in Poppers PROVE RequestOf(c)'
  BY DEF RequestInv, RequestOf, PopRequest
<1> QED
  BY <1>1, <1>2 DEF RequestInv

(* The same when the caller c alone moves on.                              *)
LEMMA CallerMoves ==
    ASSUME TypeOK, RequestInv, NEW c \in Poppers, status # "down",
           UNCHANGED <<writes, loopOp, loopRes, loopPc, status, done>>,
           \A d \in Poppers \ {c} : popPc'[d] = popPc[d] /\ popRes'[d] = popRes[d],
           RequestOf(c)'
    PROVE  RequestInv'
<1>1. LoopInv'
  BY DEF RequestInv, LoopInv, PopRequest
<1>2. ASSUME NEW d \in Poppers, d # c PROVE RequestOf(d)'
  BY <1>2 DEF RequestInv, RequestOf, PopRequest
<1> QED
  BY <1>1, <1>2 DEF RequestInv

(* The steps of one call of Pop.                                           *)
LEMMA PopRequestStep ==
    ASSUME TypeOK, RequestInv, NEW c \in Poppers, PopStart(c) \/ PopStep(c)
    PROVE  RequestInv'
<1>0. /\ popPc \in [Poppers -> {"idle", "send", "wait", "drain", "tick"}]
      /\ popRes \in [Poppers -> PopResult] /\ done \in BOOLEAN
      /\ RequestOf(c) /\ LoopInv
  BY DEF TypeOK, RequestInv
<1>1. popPc[c] # "idle" => status # "down"
  BY <1>0 DEF LoopInv
<1>2. ASSUME NEW p, popPc' = [popPc EXCEPT ![c] = p], status # "down",
             UNCHANGED <<writes, loopOp, loopRes, loopPc, status, done, popRes>>,
             RequestOf(c)'
      PROVE  RequestInv'
  BY <1>0, <1>2, CallerMoves
<1>3. CASE PopStart(c)
  <2>1. RequestOf(c)'
    BY <1>0, <1>3 DEF PopStart, object, RequestOf, PopRequest
  <2> QED
    BY <1>2, <1>3, <2>1 DEF PopStart, object
<1>4. CASE PopSend(c)
  <2>1. /\ writes' = Append(writes, PopRequest(c)) /\ popPc' = [popPc EXCEPT ![c] = "wait"]
        /\ popPc[c] = "send" /\ UNCHANGED <<status, done, loopPc, loopOp, loopRes, popRes>>
    BY <1>4 DEF PopSend
  <2>2. /\ DOMAIN writes' = DOMAIN writes \cup {Len(writes) + 1}
        /\ Len(writes) + 1 \notin DOMAIN writes
        /\ writes'[Len(writes) + 1] = PopRequest(c)
        /\ \A i \in DOMAIN writes : writes'[i] = writes[i]
    BY <2>1, SendOnWrites
  <2> HIDE DEF PopRequest
  <2>3. \A d : PopRequest(d)' = PopRequest(d)
    BY DEF PopRequest
  <2>4. LoopInv'
    <3>1. ASSUME NEW i \in DOMAIN writes', writes'[i].kind = "pop"
          PROVE  \E d \in Poppers : writes'[i] = PopRequest(d)
      BY <1>0, <2>2, <3>1 DEF LoopInv
    <3>2. status' # "down"
      BY <1>1, <2>1
    <3> QED
      BY <1>0, <2>1, <2>3, <3>1, <3>2 DEF LoopInv
  <2>5. RequestOf(c)'
    <3>1. /\ \A i \in DOMAIN writes : writes[i] # PopRequest(c)
          /\ loopOp # PopRequest(c) /\ ~popRes[c].sent
      BY <1>0, <2>1 DEF RequestOf
    <3>2. popPc'[c] = "wait"
      BY <1>0, <2>1
    <3> QED
      BY <2>1, <2>2, <2>3, <3>1, <3>2 DEF RequestOf
  <2>6. ASSUME NEW d \in Poppers, d # c PROVE RequestOf(d)'
    <3>1. PopRequest(d) # PopRequest(c)
      BY <2>6, RequestsDiffer
    <3>2. popPc'[d] = popPc[d] /\ RequestOf(d)
      BY <1>0, <2>1, <2>6 DEF RequestInv
    <3> QED
      BY <2>1, <2>2, <2>3, <3>1, <3>2 DEF RequestOf
  <2> QED
    BY <2>4, <2>5, <2>6 DEF RequestInv
<1>5. CASE PopGiveUp(c) \/ PopInterrupted(c) \/ PopTick(c)
  <2>1. PICK p \in {"idle", "drain", "send"} :
          /\ popPc' = [popPc EXCEPT ![c] = p]
          /\ p = "drain" => done /\ popPc[c] = "wait"
          /\ p \in {"idle", "send"} => popPc[c] \in {"send", "tick"}
    BY <1>5 DEF PopGiveUp, PopInterrupted, PopTick
  <2>2. /\ UNCHANGED <<writes, loopOp, loopRes, loopPc, status, done, popRes>>
        /\ popPc[c] # "idle" /\ popPc'[c] = p
    BY <1>0, <1>5, <2>1 DEF PopGiveUp, PopInterrupted, PopTick, object
  <2>3. RequestOf(c)'
    BY <1>0, <2>1, <2>2 DEF RequestOf, PopRequest
  <2> QED
    BY <1>1, <1>2, <2>1, <2>2, <2>3
<1>6. ASSUME TakeAnswer(c), popPc[c] # "idle",
             UNCHANGED <<writes, loopOp, loopRes, loopPc, status, done>>
      PROVE  RequestInv'
  <2>1. /\ popRes[c].sent /\ popRes' = [popRes EXCEPT ![c] = NoResult]
        /\ popPc' = [popPc EXCEPT ![c] = "tick"] \/ popPc' = [popPc EXCEPT ![c] = "idle"]
    BY <1>6 DEF TakeAnswer
  <2>2. ~popRes'[c].sent /\ popPc'[c] \in {"tick", "idle"}
    BY <1>0, <2>1, RequestsDiffer
  <2>3. /\ loopOp # PopRequest(c)
        /\ \A i \in DOMAIN writes : writes[i] # PopRequest(c)
    BY <1>0, <2>1 DEF RequestOf
  <2>4. RequestOf(c)'
    BY <1>6, <2>2, <2>3 DEF RequestOf, PopRequest
  <2>5. \A d \in Poppers \ {c} : popPc'[d] = popPc[d] /\ popRes'[d] = popRes[d]
    BY <1>0, <2>1
  <2> QED
    BY <1>1, <1>6, <2>4, <2>5, CallerMoves
<1>7. CASE PopReturn(c)
  BY <1>6, <1>7 DEF PopReturn, object
<1>8. CASE PopDrain(c)
  <2>1. UNCHANGED <<writes, loopOp, loopRes, loopPc, status, done>> /\ popPc[c] = "drain"
    BY <1>8 DEF PopDrain, object
  <2>2. CASE TakeAnswer(c)
    BY <1>6, <2>1, <2>2
  <2>3. CASE ~popRes[c].sent /\ popPc' = [popPc EXCEPT ![c] = "idle"] /\ UNCHANGED popRes
    <3>1. done /\ popPc'[c] = "idle"
      BY <1>0, <2>1, <2>3 DEF RequestOf
    <3>2. RequestOf(c)'
      BY <1>0, <2>1, <2>3, <3>1 DEF RequestOf, PopRequest
    <3> QED
      BY <1>1, <1>2, <2>1, <2>3, <3>2
  <2> QED
    BY <1>8, <2>2, <2>3 DEF PopDrain
<1> QED
  BY <1>3, <1>4, <1>5, <1>7, <1>8 DEF PopStep

(* The loop receives a request: it leaves writes and is the loop's.        *)
LEMMA ReceiveRequestStep ==
    ASSUME TypeOK, RequestInv, NEW kind, LoopReceive(kind)
    PROVE  RequestInv'
<1>1. /\ loopPc = "select" /\ loopPc' = "answer" /\ writes # <<>>
      /\ writes' = Tail(writes) /\ loopOp' = Head(writes)
      /\ UNCHANGED <<status, done, popPc, popRes>>
  BY DEF LoopReceive, popVars
<1>2. /\ 1 \in DOMAIN writes /\ Head(writes) = writes[1]
      /\ \A i \in DOMAIN writes' :
           /\ i \in Nat /\ i + 1 \in DOMAIN writes /\ i + 1 # 1
           /\ writes'[i] = writes[i + 1]
  BY <1>1, ReceiveFromWrites
<1>3. \A d : PopRequest(d)' = PopRequest(d)
  BY DEF PopRequest
<1>4. LoopInv /\ status' # "down"
  BY <1>1 DEF RequestInv, LoopInv
<1>5. LoopInv'
  <2>1. ASSUME NEW i \in DOMAIN writes', writes'[i].kind = "pop"
        PROVE  \E d \in Poppers : writes'[i] = PopRequest(d)
    BY <1>2, <1>4, <2>1 DEF LoopInv
  <2>2. ASSUME loopOp'.kind = "pop" PROVE \E d \in Poppers : loopOp' = PopRequest(d)
    BY <1>1, <1>2, <1>4, <2>2 DEF LoopInv
  <2> QED
    BY <1>1, <1>3, <1>4, <2>1, <2>2 DEF LoopInv
<1>6. ASSUME NEW c \in Poppers PROVE RequestOf(c)'
  <2>0. RequestOf(c)
    BY DEF RequestInv
  <2>1. ASSUME NEW i \in DOMAIN writes', NEW j \in DOMAIN writes',
               writes'[i] = PopRequest(c), writes'[j] = PopRequest(c)
        PROVE  i = j
    <3>1. i + 1 = j + 1
      BY <1>2, <2>0, <2>1 DEF RequestOf
    <3> QED
      BY <1>2, <3>1
  <2>2. ASSUME NEW i \in DOMAIN writes', writes'[i] = PopRequest(c)
        PROVE  loopOp' # PopRequest(c) /\ ~popRes[c].sent
    <3>1. i + 1 \in DOMAIN writes /\ writes[i + 1] = PopRequest(c) /\ i + 1 # 1
      BY <1>2, <2>2
    <3> QED
      BY <1>1, <1>2, <2>0, <3>1 DEF RequestOf
  <2>3. loopOp' = PopRequest(c) => ~popRes[c].sent
    BY <1>1, <1>2, <2>0 DEF RequestOf
  <2>4. ASSUME popPc[c] \in {"send", "tick"} \/ (popPc[c] = "idle" /\ ~done)
        PROVE  /\ loopOp' # PopRequest(c)
               /\ \A i \in DOMAIN writes' : writes'[i] # PopRequest(c)
    BY <1>1, <1>2, <2>0, <2>4 DEF RequestOf
  <2>5. /\ popRes[c].sent => popPc[c] \in {"wait", "drain"}
        /\ popPc[c] = "drain" => done
    BY <2>0 DEF RequestOf
  <2> QED
    BY <1>1, <1>3, <2>1, <2>2, <2>3, <2>4, <2>5 DEF RequestOf
<1> QED
  BY <1>5, <1>6 DEF RequestInv

(* The loop answers, or drops the answer: it holds no request any more.    *)
LEMMA AnswerRequestStep ==
    ASSUME TypeOK, RequestInv, LoopAnswer \/ LoopDropAnswer
    PROVE  RequestInv'
<1>0. /\ loopPc = "answer" /\ loopPc' = "select" /\ loopOp' = NoOp /\ loopRes' = NoResult
      /\ UNCHANGED <<status, done, writes, popPc>>
      /\ \A c \in Poppers : popRes'[c] # popRes[c] =>
           loopOp.kind = "pop" /\ loopOp.caller = c /\ popPc[c] \in {"wait", "drain"}
  <2>1. CASE LoopAnswer
    <3>1. popRes \in [Poppers -> PopResult]
      BY DEF TypeOK
    <3> QED
      BY <2>1, <3>1 DEF LoopAnswer
  <2>2. CASE LoopDropAnswer
    BY <2>2 DEF LoopDropAnswer, popVars
  <2> QED
    BY <2>1, <2>2
<1>1. \A d : PopRequest(d)' = PopRequest(d) /\ PopRequest(d) # NoOp
  BY RequestsDiffer DEF PopRequest
<1>2. LoopInv'
  BY <1>0, <1>1, RequestsDiffer DEF RequestInv, LoopInv
<1>3. ASSUME NEW c \in Poppers PROVE RequestOf(c)'
  <2>0. RequestOf(c)
    BY DEF RequestInv
  <2>1. CASE popRes'[c] = popRes[c]
    BY <1>0, <1>1, <2>0, <2>1 DEF RequestOf
  <2>2. CASE popRes'[c] # popRes[c]
    <3>1. loopOp = PopRequest(c) /\ popPc[c] \in {"wait", "drain"}
      <4>1. PICK d \in Poppers : loopOp = PopRequest(d)
        BY <1>0, <2>2 DEF RequestInv, LoopInv
      <4>2. loopOp.caller = c /\ popPc[c] \in {"wait", "drain"}
        BY <1>0, <2>2, Zenon
      <4>3. PopRequest(d).caller = d
        BY RequestsDiffer, Zenon
      <4> QED
        BY <4>1, <4>2, <4>3, Zenon
    <3>2. \A i \in DOMAIN writes : writes[i] # PopRequest(c)
      BY <2>0, <3>1 DEF RequestOf
    <3> QED
      BY <1>0, <1>1, <2>0, <3>1, <3>2 DEF RequestOf
  <2> QED
    BY <2>1, <2>2
<1> QED
  BY <1>2, <1>3 DEF RequestInv

(* Every step keeps each caller's request in one place.                    *)
LEMMA RequestStep == TypeOK /\ RequestInv /\ [Next]_vars => RequestInv'
<1> SUFFICES ASSUME TypeOK, RequestInv, [Next]_vars PROVE RequestInv'
  OBVIOUS
<1>1. CASE NewBboltQueue \/ ProcessEnds
  <2>1. /\ writes' = <<>> /\ DOMAIN writes' = {} /\ loopOp' = NoOp /\ loopRes' = NoResult
        /\ \A c \in Poppers : popPc'[c] = "idle" /\ ~popRes'[c].sent
        /\ status' = "down" => loopPc' = "exited"
    <3>1. CASE NewBboltQueue
      <4>1. LoopInv /\ \A c \in Poppers : RequestOf(c)
        BY DEF RequestInv
      <4>2. \A c \in Poppers : popPc[c] = "idle" /\ ~popRes[c].sent
        BY <3>1, <4>1 DEF NewBboltQueue, LoopInv, RequestOf
      <4> QED
        BY <3>1, <4>1, <4>2 DEF NewBboltQueue, LoopInv, popVars
    <3>2. CASE ProcessEnds
      <4>1. \A c \in Poppers : popRes'[c] = NoResult
        BY <3>2 DEF ProcessEnds
      <4> QED
        BY <3>2, <4>1, RequestsDiffer DEF ProcessEnds
    <3> QED
      BY <1>1, <3>1, <3>2
  <2>2. LoopInv'
    BY <2>1, RequestsDiffer DEF LoopInv
  <2>3. ASSUME NEW c \in Poppers PROVE RequestOf(c)'
    <3>1. PopRequest(c)' # NoOp
      BY RequestsDiffer DEF PopRequest
    <3> QED
      BY <2>1, <3>1 DEF RequestOf
  <2> QED
    BY <2>2, <2>3 DEF RequestInv
<1>2. ASSUME NEW c \in Pushers, PushSend(c) PROVE RequestInv'
  <2>1. /\ writes' = Append(writes, PushRequest(c))
        /\ UNCHANGED <<status, done, loopPc, loopOp, loopRes, popPc, popRes>>
    BY <1>2 DEF PushSend, popVars
  <2>2. /\ DOMAIN writes' = DOMAIN writes \cup {Len(writes) + 1}
        /\ writes'[Len(writes) + 1] = PushRequest(c)
        /\ \A i \in DOMAIN writes : writes'[i] = writes[i]
    BY <2>1, SendOnWrites
  <2>3. /\ \A d : PopRequest(d)' = PopRequest(d) /\ PopRequest(d) # PushRequest(c)
        /\ PushRequest(c).kind # "pop"
    BY RequestsDiffer DEF PopRequest
  <2>4. LoopInv'
    <3>1. ASSUME NEW i \in DOMAIN writes', writes'[i].kind = "pop"
          PROVE  \E d \in Poppers : writes'[i] = PopRequest(d)
      BY <2>2, <2>3, <3>1 DEF RequestInv, LoopInv
    <3> QED
      BY <2>1, <2>3, <3>1 DEF RequestInv, LoopInv
  <2>5. ASSUME NEW d \in Poppers PROVE RequestOf(d)'
    <3>1. RequestOf(d) /\ PopRequest(d)' = PopRequest(d)
      BY <2>3, Zenon DEF RequestInv
    <3>2. \A i \in DOMAIN writes' :
            writes'[i] = PopRequest(d) => i \in DOMAIN writes /\ writes[i] = PopRequest(d)
      BY <2>2, <2>3
    <3> QED
      BY <2>1, <3>1, <3>2 DEF RequestOf
  <2> QED
    BY <2>4, <2>5 DEF RequestInv
<1>3. ASSUME NEW c \in Pushers, PushStart(c) \/ PushGiveUp(c) \/ PushReturn(c)
      PROVE  RequestInv'
  <2>1. UNCHANGED <<writes, loopOp, loopRes, loopPc, popPc, popRes, status, done>>
    BY <1>3 DEF PushStart, PushGiveUp, PushReturn, object, popVars
  <2> QED
    BY <2>1, RequestFrame
<1>4. ASSUME NEW c \in Callers, Cancel(c) PROVE RequestInv'
  <2>1. UNCHANGED <<writes, loopOp, loopRes, loopPc, popPc, popRes, status, done>>
    BY <1>4 DEF Cancel, object, popVars
  <2> QED
    BY <2>1, RequestFrame
<1>5. ASSUME NEW c \in Poppers, PopStart(c) \/ PopStep(c) PROVE RequestInv'
  BY <1>5, PopRequestStep
<1>6. CASE WritePush \/ ReadAndClaim \/ \E kind \in {"push", "pop"} : LoopFault(kind)
  BY <1>6, ReceiveRequestStep DEF WritePush, ReadAndClaim, LoopFault
<1>7. CASE LoopAnswer \/ LoopDropAnswer
  BY <1>7, AnswerRequestStep
<1>8. CASE LoopExit \/ Close \/ CloseReturn
  <2>1. /\ UNCHANGED <<writes, loopOp, loopRes, popPc, popRes>>
        /\ (loopPc' # "answer" /\ loopPc # "answer") \/ loopPc' = loopPc
        /\ status' # "down" \/ status' = status
        /\ done => done'
    BY <1>8 DEF LoopExit, Close, CloseReturn, popVars
  <2>2. status = "down" => loopPc = "exited"
    BY DEF RequestInv, LoopInv
  <2>3. status' = "down" => status = "down" /\ loopPc' = loopPc
    BY <1>8, <2>1, <2>2 DEF LoopExit, Close, CloseReturn
  <2> QED
    BY <2>1, <2>3, RequestFrame
<1>9. CASE UNCHANGED vars
  <2>1. UNCHANGED <<writes, loopOp, loopRes, loopPc, popPc, popRes, status, done>>
    BY <1>9 DEF vars, object, popVars
  <2> QED
    BY <2>1, RequestFrame
<1> QED
  BY <1>1, <1>2, <1>3, <1>4, <1>5, <1>6, <1>7, <1>8, <1>9
  DEF Next, PushStep, LoopStep

-----------------------------------------------------------------------------
(* What a step does to the events: nothing, or it stores one, claims one,  *)
(* hands one to its caller, or loses some of those in flight.              *)

QuietStep ==
    /\ UNCHANGED <<log, delivered>>
    /\ InFlight' = InFlight /\ Backlog' = Backlog
    /\ 1..(read' - 1) = 1..(read - 1)

AcceptStep ==
    /\ Len(log') = Len(log) + 1 /\ Backlog' = Append(Backlog, Len(log) + 1)
    /\ InFlight' = InFlight
    /\ UNCHANGED <<delivered, read>>

(* The claim of a caller that Close has released is lost at once.          *)
ClaimedStep ==
    /\ Backlog # <<>> /\ Head(Backlog) = read /\ Backlog' = Tail(Backlog)
    /\ read' = read + 1
    /\ \/ InFlight' = InFlight \cup {read}
       \/ /\ InFlight' = InFlight
          /\ done /\ \E c \in Poppers : Outstanding(c)
    /\ UNCHANGED <<log, delivered>>

DeliveredStep(c, k) ==
    /\ k \in InFlight /\ InFlight' = InFlight \ {k}
    /\ \A i \in DOMAIN delivered[c] : delivered[c][i] < k
    /\ delivered' = [delivered EXCEPT ![c] = Append(@, k)]
    /\ Backlog' = Backlog
    /\ UNCHANGED <<log, read>>

LossStep ==
    /\ InFlight' \subseteq InFlight /\ Backlog' = Backlog
    /\ \/ status' = "down"
       \/ /\ done /\ \E c \in Poppers : Outstanding(c)
          /\ \E k : InFlight \ InFlight' \subseteq {k}
    /\ UNCHANGED <<log, delivered, read>>

(* What is in flight, element by element.                                  *)
LEMMA InFlightIs ==
    \A k : k \in InFlight <=>
             \/ \E c \in Poppers : Claimed(popRes[c]) /\ k = popRes[c].key
             \/ Claimed(loopRes) /\ Awaited(loopOp) /\ k = loopRes.key
<1>1. ASSUME NEW k
      PROVE  k \in {popRes[c].key : c \in {p \in Poppers : Claimed(popRes[p])}}
               <=> \E c \in Poppers : Claimed(popRes[c]) /\ k = popRes[c].key
  OBVIOUS
<1>2. ASSUME NEW k
      PROVE  k \in {j \in {loopRes.key} : Claimed(loopRes) /\ Awaited(loopOp)}
               <=> Claimed(loopRes) /\ Awaited(loopOp) /\ k = loopRes.key
  OBVIOUS
<1> QED
  BY <1>1, <1>2 DEF InFlight

(* The same of the next state.                                             *)
LEMMA InFlightThen ==
    \A k : k \in InFlight' <=>
             \/ \E c \in Poppers : Claimed(popRes'[c]) /\ k = popRes'[c].key
             \/ Claimed(loopRes') /\ Awaited(loopOp)' /\ k = loopRes'.key
<1>1. (\A k : k \in InFlight <=>
             \/ \E c \in Poppers : Claimed(popRes[c]) /\ k = popRes[c].key
             \/ Claimed(loopRes) /\ Awaited(loopOp) /\ k = loopRes.key)'
  BY InFlightIs, PTL
<1> QED
  BY <1>1 DEF Claimed

(* Nothing in flight moves unless the answers do.                          *)
LEMMA FlightStays ==
    ASSUME popRes' = popRes,
           \/ ~Claimed(loopRes) /\ ~Claimed(loopRes')
           \/ loopRes' = loopRes /\ (Awaited(loopOp)' <=> Awaited(loopOp))
    PROVE  InFlight' = InFlight
<1>1. \A k : k \in InFlight' <=> k \in InFlight
  BY InFlightIs, InFlightThen
<1> QED
  BY <1>1

(* Sequences with the same elements are equal.                             *)
LEMMA SameSequence ==
    ASSUME NEW s \in Seq(Nat), NEW t \in Seq(Nat), Len(s) = Len(t),
           \A i \in 1..Len(s) : s[i] = t[i]
    PROVE  s = t
  OBVIOUS

(* The events between the counters, in order.                              *)
LEMMA BacklogIs ==
    ASSUME TypeOK, FileInv
    PROVE  /\ QueueLen = seq - read /\ QueueLen \in Nat
           /\ Backlog \in Seq(Nat) /\ Len(Backlog) = QueueLen
           /\ \A i \in 1..QueueLen : Backlog[i] = read + i - 1
<1>1. seq \in Nat /\ read \in Nat /\ read <= seq
  BY DEF TypeOK, FileInv
<1>2. QueueLen = seq - read /\ QueueLen \in Nat
  BY <1>1 DEF QueueLen
<1>3. \A i \in 1..QueueLen : read + i - 1 \in Nat
  BY <1>1, <1>2
<1> QED
  BY <1>2, <1>3 DEF Backlog

(* The counters and the stored events of a step that does not write.       *)
LEMMA FileStays ==
    ASSUME UNCHANGED <<seq, read>>
    PROVE  Backlog' = Backlog /\ 1..(read' - 1) = 1..(read - 1)
  BY DEF Backlog, QueueLen

(* A request of the loop that somebody waits for has this caller.          *)
LEMMA AwaitedCaller ==
    ASSUME RequestInv, Awaited(loopOp)
    PROVE  \E c \in Poppers : /\ loopOp = PopRequest(c) /\ loopOp.caller = c
                              /\ popPc[c] \in {"wait", "drain"} /\ Outstanding(c)
<1>1. PICK c \in Poppers : loopOp = PopRequest(c)
  BY DEF RequestInv, LoopInv, Awaited
<1>2. loopOp.caller = c
  BY <1>1, RequestsDiffer
<1> QED
  BY <1>1, <1>2 DEF Awaited, Outstanding

(* A commit of the loop: WritePush, ReadAndClaim or a failure.             *)
LEMMA CommitEffect ==
    ASSUME TypeOK, FileInv, RequestInv,
           WritePush \/ ReadAndClaim \/ \E kind \in {"push", "pop"} : LoopFault(kind)
    PROVE  QuietStep \/ AcceptStep \/ ClaimedStep
<1>0. /\ loopPc = "select" /\ writes # <<>> /\ loopOp' = Head(writes)
      /\ UNCHANGED <<popPc, popRes, delivered>>
  BY DEF WritePush, ReadAndClaim, LoopFault, LoopReceive, popVars
<1>1. /\ seq \in Nat /\ read \in Nat /\ read <= seq /\ seq > 0 /\ read > 0 /\ log \in Seq(Nat)
      /\ Len(log) = seq - 1 /\ DOMAIN store = read..(seq - 1)
  BY <1>0 DEF TypeOK, FileInv
<1>2. ~Claimed(loopRes)
  BY <1>0, NoResultNotClaimed DEF RequestInv, LoopInv
<1>3. CASE \E kind \in {"push", "pop"} : LoopFault(kind)
  <2>1. ~Claimed(loopRes')
    BY <1>3 DEF LoopFault, Claimed
  <2>2. InFlight' = InFlight
    BY <1>0, <1>2, <2>1, FlightStays
  <2>3. UNCHANGED <<seq, read, log>>
    BY <1>3 DEF LoopFault, file
  <2> QED
    BY <1>0, <2>2, <2>3, FileStays DEF QuietStep
<1>4. CASE WritePush
  <2>1. ~Claimed(loopRes')
    BY <1>4 DEF WritePush, Claimed
  <2>2. InFlight' = InFlight
    BY <1>0, <1>2, <2>1, FlightStays
  <2>3. /\ seq' = seq + 1 /\ read' = read /\ Len(log') = Len(log) + 1
    <3>1. PICK v : seq' = seq + 1 /\ read' = read /\ log' = Append(log, v)
      BY <1>4, Zenon DEF WritePush
    <3>2. log \in Seq(Nat)
      BY <1>1
    <3>3. Len(log') = Len(log) + 1
      BY <3>1, <3>2
    <3> QED
      BY <3>1, <3>3
  <2>4. Backlog' = Append(Backlog, Len(log) + 1)
    <3>1. QueueLen' = QueueLen + 1 /\ QueueLen = seq - read
      BY <1>1, <2>3 DEF QueueLen
    <3>2. Backlog' = [i \in 1..(QueueLen + 1) |-> read + i - 1]
      BY <2>3, <3>1 DEF Backlog
    <3>3. /\ Backlog \in Seq(Nat) /\ Len(Backlog) = QueueLen
          /\ \A i \in 1..QueueLen : Backlog[i] = read + i - 1
      BY BacklogIs
    <3>4. /\ Backlog' \in Seq(Nat) /\ Len(Backlog') = QueueLen + 1
          /\ \A i \in 1..(QueueLen + 1) : Backlog'[i] = read + i - 1
      BY <1>1, <3>1, <3>2
    <3> DEFINE longer == Append(Backlog, seq)
    <3>5. /\ longer \in Seq(Nat) /\ Len(longer) = QueueLen + 1
          /\ \A i \in 1..QueueLen : longer[i] = Backlog[i]
          /\ longer[QueueLen + 1] = seq
      BY <1>1, <3>3
    <3> HIDE DEF longer
    <3>6. ASSUME NEW i \in 1..(QueueLen + 1) PROVE Backlog'[i] = longer[i]
      <4>1. CASE i = QueueLen + 1
        BY <1>1, <3>1, <3>4, <3>5, <4>1
      <4>2. CASE i # QueueLen + 1
        <5>1. i \in 1..QueueLen
          BY <3>6, <4>2, BacklogIs
        <5> QED
          BY <3>3, <3>4, <3>5, <3>6, <5>1
      <4> QED
        BY <4>1, <4>2
    <3>7. Backlog' = longer
      BY <3>4, <3>5, <3>6, SameSequence
    <3>8. Len(log) + 1 = seq
      BY <1>1
    <3> QED
      BY <3>7, <3>8 DEF longer
  <2> QED
    BY <1>0, <2>2, <2>3, <2>4 DEF AcceptStep
<1>5. CASE ReadAndClaim /\ read \notin DOMAIN store
  <2>1. ~Claimed(loopRes') /\ UNCHANGED <<seq, read, log>>
    BY <1>5 DEF ReadAndClaim, Claimed
  <2>2. InFlight' = InFlight
    BY <1>0, <1>2, <2>1, FlightStays
  <2> QED
    BY <1>0, <2>1, <2>2, FileStays DEF QuietStep
<1>6. CASE ReadAndClaim /\ read \in DOMAIN store
  <2>1. /\ read' = read + 1 /\ UNCHANGED <<seq, log>>
        /\ loopRes' = [sent |-> TRUE, err |-> FALSE, found |-> TRUE, key |-> read]
    BY <1>6 DEF ReadAndClaim
  <2>2. Claimed(loopRes') /\ loopRes'.key = read
    BY <2>1 DEF Claimed
  <2>3. Backlog # <<>> /\ Head(Backlog) = read /\ Backlog' = Tail(Backlog)
    <3>1. QueueLen' = QueueLen - 1 /\ QueueLen \in Nat \ {0}
      BY <1>1, <1>6, <2>1 DEF QueueLen
    <3>2. Backlog' = [i \in 1..(QueueLen - 1) |-> read + 1 + i - 1]
      BY <2>1, <3>1 DEF Backlog
    <3>3. /\ Backlog \in Seq(Nat) /\ Len(Backlog) = QueueLen
          /\ \A i \in 1..QueueLen : Backlog[i] = read + i - 1
      BY BacklogIs
    <3>4. Backlog # <<>> /\ Head(Backlog) = read
      BY <1>1, <3>1, <3>3
    <3>5. /\ Backlog' \in Seq(Nat) /\ Len(Backlog') = QueueLen - 1
          /\ \A i \in 1..(QueueLen - 1) : Backlog'[i] = read + i
      BY <1>1, <3>1, <3>2
    <3>6. /\ Tail(Backlog) \in Seq(Nat) /\ Len(Tail(Backlog)) = QueueLen - 1
          /\ \A i \in 1..(QueueLen - 1) : Tail(Backlog)[i] = Backlog[i + 1]
      BY <3>1, <3>3, <3>4
    <3>7. \A i \in 1..(QueueLen - 1) : Backlog'[i] = Tail(Backlog)[i]
      BY <1>1, <3>1, <3>3, <3>5, <3>6
    <3>8. Backlog' = Tail(Backlog)
      BY <3>5, <3>6, <3>7, SameSequence
    <3> QED
      BY <3>4, <3>8
  <2>4. CASE Awaited(loopOp)'
    <3>1. \A k : k \in InFlight' <=> k \in InFlight \cup {read}
      BY <1>0, <1>2, <2>2, <2>4, InFlightIs, InFlightThen
    <3> QED
      BY <1>0, <2>1, <2>3, <3>1 DEF ClaimedStep
  <2>5. CASE ~Awaited(loopOp)'
    <3>1. \A k : k \in InFlight' <=> k \in InFlight
      BY <1>0, <1>2, <2>2, <2>5, InFlightIs, InFlightThen
    <3>2. PICK c \in Poppers : writes[1] = PopRequest(c)
      <4>1. 1 \in DOMAIN writes /\ Head(writes) = writes[1] /\ writes[1].kind = "pop"
        <5>1. writes # <<>> /\ Head(writes).kind = "pop"
          BY <1>6, Zenon DEF ReadAndClaim, LoopReceive
        <5>2. writes \in Seq(WriteOp)
          BY Zenon DEF TypeOK
        <5>3. 1 \in DOMAIN writes /\ Head(writes) = writes[1]
          <6> HIDE DEF WriteOp
          <6> QED
            BY <5>1, <5>2
        <5> QED
          BY <5>1, <5>3, Zenon
      <4> QED
        BY <4>1 DEF RequestInv, LoopInv
    <3>3. 1 \in DOMAIN writes /\ loopOp' = PopRequest(c)
      BY <1>0, <3>2 DEF TypeOK
    <3>4. popPc[c] \notin {"wait", "drain"}
      BY <1>0, <2>5, <3>3, RequestsDiffer DEF Awaited
    <3>5. done
      <4>1. popPc[c] \in {"idle", "send", "wait", "drain", "tick"} /\ RequestOf(c)
        BY DEF TypeOK, RequestInv
      <4> QED
        BY <3>2, <3>3, <3>4, <4>1 DEF RequestOf
    <3>6. Outstanding(c)
      BY <3>2, <3>3, <3>5 DEF Outstanding
    <3> QED
      BY <1>0, <2>1, <2>3, <3>1, <3>5, <3>6 DEF ClaimedStep
  <2> QED
    BY <2>4, <2>5
<1> QED
  BY <1>3, <1>4, <1>5, <1>6

(* The answer reaches the caller that waits for it; only the done case of  *)
(* the answering select can drop a claimed event.                          *)
LEMMA AnswerEffect ==
    ASSUME TypeOK, RequestInv, LoopAnswer \/ LoopDropAnswer
    PROVE  QuietStep \/ LossStep
<1>0. /\ UNCHANGED <<seq, read, log, delivered>> /\ loopRes' = NoResult
      /\ popRes \in [Poppers -> PopResult]
  BY DEF LoopAnswer, LoopDropAnswer, file, history, TypeOK
<1>1. ~Claimed(loopRes')
  BY <1>0, NoResultNotClaimed
<1>2. Backlog' = Backlog /\ 1..(read' - 1) = 1..(read - 1)
  BY <1>0, FileStays
<1>3. CASE LoopAnswer
  <2>1. CASE Awaited(loopOp)
    <3>1. PICK c \in Poppers : /\ loopOp = PopRequest(c) /\ loopOp.caller = c
                               /\ popPc[c] \in {"wait", "drain"}
      BY <2>1, AwaitedCaller
    <3>2. popRes' = [popRes EXCEPT ![c] = loopRes]
      BY <1>3, <2>1, <3>1 DEF LoopAnswer, Awaited
    <3>3. ~Claimed(popRes[c])
      BY <3>1 DEF RequestInv, RequestOf, Claimed
    <3>4. popRes'[c] = loopRes /\ \A d \in Poppers \ {c} : popRes'[d] = popRes[d]
      BY <1>0, <3>2
    <3>5. \A k : k \in InFlight' <=> k \in InFlight
      <4>1. \A k : k \in InFlight' <=>
                     \E d \in Poppers : Claimed(popRes'[d]) /\ k = popRes'[d].key
        BY <1>1, InFlightThen, Zenon
      <4>2. \A k : k \in InFlight <=>
                     \/ \E d \in Poppers \ {c} : Claimed(popRes[d]) /\ k = popRes[d].key
                     \/ Claimed(loopRes) /\ k = loopRes.key
        BY <2>1, <3>3, InFlightIs, Zenon
      <4>3. \A d \in Poppers : d = c \/ d \in Poppers \ {c}
        OBVIOUS
      <4>4. ASSUME NEW k, k \in InFlight' PROVE k \in InFlight
        BY <3>4, <4>1, <4>2, <4>3, <4>4, Zenon
      <4>5. ASSUME NEW k, k \in InFlight PROVE k \in InFlight'
        <5>1. \A d \in Poppers \ {c} : d \in Poppers
          OBVIOUS
        <5> QED
          BY <3>4, <4>1, <4>2, <4>5, <5>1, Zenon
      <4> QED
        BY <4>4, <4>5
    <3> QED
      BY <1>0, <1>2, <3>5 DEF QuietStep
  <2>2. CASE ~Awaited(loopOp)
    <3>1. popRes' = popRes
      BY <1>3, <2>2 DEF LoopAnswer, Awaited
    <3>2. \A k : k \in InFlight' <=> k \in InFlight
      BY <1>1, <2>2, <3>1, InFlightIs, InFlightThen
    <3> QED
      BY <1>0, <1>2, <3>2 DEF QuietStep
  <2> QED
    BY <2>1, <2>2
<1>4. CASE LoopDropAnswer
  <2>1. popRes' = popRes /\ done
    BY <1>4 DEF LoopDropAnswer, popVars
  <2>2. /\ InFlight' \subseteq InFlight /\ InFlight \ InFlight' \subseteq {loopRes.key}
        /\ ~Awaited(loopOp) => InFlight' = InFlight
    BY <1>1, <2>1, InFlightIs, InFlightThen
  <2>3. CASE Awaited(loopOp)
    BY <1>0, <1>2, <2>1, <2>2, <2>3, AwaitedCaller DEF LossStep
  <2>4. CASE ~Awaited(loopOp)
    BY <1>0, <1>2, <2>2, <2>4 DEF QuietStep
  <2> QED
    BY <2>3, <2>4
<1> QED
  BY <1>3, <1>4

(* A step of Pop hands its caller the event it claimed, or changes nothing *)
(* that is in flight; only after Close may it leave an event behind.       *)
LEMMA PopEffect ==
    ASSUME TypeOK, KeyInv, RequestInv, NEW c \in Poppers, PopStart(c) \/ PopStep(c)
    PROVE  QuietStep \/ LossStep \/ \E k : DeliveredStep(c, k)
<1>0. /\ popPc \in [Poppers -> {"idle", "send", "wait", "drain", "tick"}]
      /\ popRes \in [Poppers -> PopResult] /\ RequestOf(c)
      /\ UNCHANGED <<seq, read, log, loopOp, loopRes>>
  <2>1. UNCHANGED <<seq, read, log, loopOp, loopRes>>
    BY QuietSteps
  <2> QED
    BY <2>1 DEF TypeOK, RequestInv
<1>1. Backlog' = Backlog /\ 1..(read' - 1) = 1..(read - 1)
  BY <1>0, FileStays
<1>2. ASSUME loopOp # PopRequest(c), \A d \in Poppers \ {c} : popPc'[d] = popPc[d]
      PROVE  Awaited(loopOp)' <=> Awaited(loopOp)
  <2>1. CASE loopOp.kind # "pop"
    BY <1>0, <2>1 DEF Awaited
  <2>2. CASE loopOp.kind = "pop"
    <3>1. PICK d \in Poppers : loopOp = PopRequest(d)
      BY <2>2 DEF RequestInv, LoopInv
    <3>2. d # c /\ loopOp.caller = d
      BY <1>2, <3>1, RequestsDiffer
    <3> QED
      BY <1>0, <1>2, <3>2 DEF Awaited
  <2> QED
    BY <2>1, <2>2
<1>3. CASE PopStart(c) \/ PopSend(c) \/ PopGiveUp(c) \/ PopTick(c)
  <2>1. /\ UNCHANGED <<popRes, delivered>>
        /\ popPc[c] \in {"send", "tick"} \/ (popPc[c] = "idle" /\ ~done)
        /\ \A d \in Poppers \ {c} : popPc'[d] = popPc[d]
    BY <1>0, <1>3 DEF PopStart, PopSend, PopGiveUp, PopTick, history
  <2>2. loopOp # PopRequest(c)
    BY <1>0, <2>1 DEF RequestOf
  <2>3. InFlight' = InFlight
    BY <1>0, <1>2, <2>1, <2>2, FlightStays
  <2> QED
    BY <1>0, <1>1, <2>1, <2>3 DEF QuietStep
<1>4. CASE PopInterrupted(c)
  <2>1. /\ UNCHANGED <<popRes, delivered>>
        /\ \A d \in Poppers : popPc'[d] \in {"wait", "drain"} <=> popPc[d] \in {"wait", "drain"}
    BY <1>0, <1>4 DEF PopInterrupted, history
  <2>2. Awaited(loopOp)' <=> Awaited(loopOp)
    <3>1. loopOp.kind = "pop" => loopOp.caller \in Poppers
      BY RequestsDiffer DEF RequestInv, LoopInv
    <3> QED
      BY <1>0, <2>1, <3>1 DEF Awaited
  <2>3. InFlight' = InFlight
    BY <1>0, <2>1, <2>2, FlightStays
  <2> QED
    BY <1>0, <1>1, <2>1, <2>3 DEF QuietStep
<1>5. ASSUME TakeAnswer(c) PROVE QuietStep \/ \E k : DeliveredStep(c, k)
  <2>1. /\ popRes[c].sent /\ popRes' = [popRes EXCEPT ![c] = NoResult]
        /\ \A d \in Poppers \ {c} : popPc'[d] = popPc[d]
    BY <1>0, <1>5 DEF TakeAnswer
  <2>2. loopOp # PopRequest(c)
    BY <1>0, <2>1 DEF RequestOf
  <2>3. Awaited(loopOp)' <=> Awaited(loopOp)
    BY <1>2, <2>1, <2>2
  <2>4. ~Claimed(popRes'[c]) /\ \A d \in Poppers \ {c} : popRes'[d] = popRes[d]
    BY <1>0, <2>1, NoResultNotClaimed
  <2>5. CASE ~Claimed(popRes[c])
    <3>1. \A k : k \in InFlight' <=> k \in InFlight
      BY <1>0, <2>3, <2>4, <2>5, InFlightIs, InFlightThen
    <3>2. delivered' = delivered
      BY <1>5, <2>5 DEF TakeAnswer, Claimed
    <3> QED
      BY <1>0, <1>1, <3>1, <3>2 DEF QuietStep
  <2>6. CASE Claimed(popRes[c])
    <3> DEFINE k == popRes[c].key
    <3>1. delivered' = [delivered EXCEPT ![c] = Append(@, k)]
      BY <1>5, <2>6 DEF TakeAnswer, Claimed
    <3>2. /\ \A i \in DOMAIN delivered[c] : delivered[c][i] < k
          /\ \A d \in Poppers \ {c} : Claimed(popRes[d]) => popRes[d].key # k
      BY <2>6 DEF KeyInv
    <3>3. Claimed(loopRes) => loopRes.key # k
      <4>1. Claimed(loopRes) => k < loopRes.key
        BY <2>6 DEF KeyInv
      <4> QED
        <5>1. loopRes.key \in Nat /\ k \in Nat
          BY KeyTypes, Zenon
        <5> QED
          <6> HIDE DEF k
          <6> QED
            BY <4>1, <5>1
    <3>4. k \in InFlight
      BY <2>6, InFlightIs
    <3> HIDE DEF k
    <3>5. \A j : j \in InFlight' <=> j \in InFlight /\ j # k
      <4>1. \A j : (\E d \in Poppers : Claimed(popRes'[d]) /\ j = popRes'[d].key)
                     <=> \E d \in Poppers \ {c} : Claimed(popRes[d]) /\ j = popRes[d].key
        BY <2>4
      <4>2. \A j : (\E d \in Poppers : Claimed(popRes[d]) /\ j = popRes[d].key) /\ j # k
                     <=> \E d \in Poppers \ {c} : Claimed(popRes[d]) /\ j = popRes[d].key
        BY <3>2 DEF k
      <4>3. ASSUME NEW j PROVE j \in InFlight' <=> j \in InFlight /\ j # k
        <5> DEFINE Other == \E d \in Poppers \ {c} : Claimed(popRes[d]) /\ j = popRes[d].key
                   Loop == Claimed(loopRes) /\ Awaited(loopOp) /\ j = loopRes.key
        <5>0. Claimed(loopRes') /\ Awaited(loopOp)' /\ j = loopRes'.key <=> Loop
          BY <1>0, <2>3
        <5> HIDE DEF Loop
        <5>1. j \in InFlight' <=> Other \/ Loop
          BY <5>0, <4>1, InFlightThen
        <5> USE DEF Loop
        <5>2. j \in InFlight /\ j # k <=> Other \/ Loop
          BY <3>3, <4>2, InFlightIs
        <5> QED
          BY <5>1, <5>2
      <4> QED
        BY <4>3
    <3>6. InFlight' = InFlight \ {k}
      BY <3>5
    <3> QED
      BY <1>0, <1>1, <3>1, <3>2, <3>4, <3>6 DEF DeliveredStep
  <2> QED
    BY <2>5, <2>6
<1>6. CASE PopReturn(c)
  BY <1>5, <1>6 DEF PopReturn
<1>7. CASE PopDrain(c)
  <2>1. CASE TakeAnswer(c)
    BY <1>5, <2>1
  <2>2. CASE popPc[c] = "drain" /\ UNCHANGED <<popRes, delivered>>
    <3>1. done /\ Outstanding(c)
      BY <1>0, <2>2 DEF RequestOf, Outstanding
    <3>2. \A d \in Poppers : popPc'[d] \in {"wait", "drain"} => popPc[d] \in {"wait", "drain"}
      BY <1>0, <1>7, <2>2 DEF PopDrain, TakeAnswer
    <3>3. Awaited(loopOp)' => Awaited(loopOp)
      <4>1. loopOp.kind = "pop" => loopOp.caller \in Poppers
        BY RequestsDiffer DEF RequestInv, LoopInv
      <4> QED
        BY <1>0, <3>2, <4>1 DEF Awaited
    <3>4. InFlight' \subseteq InFlight /\ InFlight \ InFlight' \subseteq {loopRes.key}
      BY <1>0, <2>2, <3>3, InFlightIs, InFlightThen
    <3> QED
      BY <1>0, <1>1, <2>2, <3>1, <3>4 DEF LossStep
  <2> QED
    BY <1>7, <2>1, <2>2 DEF PopDrain
<1> QED
  BY <1>3, <1>4, <1>6, <1>7 DEF PopStep

(* A step that leaves the events and the answers alone is quiet.           *)
LEMMA StillQuiet ==
    ASSUME TypeOK, UNCHANGED <<seq, read, log, delivered, popPc, popRes, loopOp, loopRes>>
    PROVE  QuietStep
<1>1. Awaited(loopOp)' <=> Awaited(loopOp)
  BY DEF Awaited
<1>2. InFlight' = InFlight
  BY <1>1, FlightStays
<1> QED
  BY <1>2, FileStays DEF QuietStep

(* Opening the file, for the first time or again, finds what is in it.     *)
LEMMA OpenEffect ==
    ASSUME TypeOK, FileInv, NewBboltQueue
    PROVE  QuietStep
<1>1. seq \in Nat /\ read \in Nat /\ (read = 0 <=> seq = 0)
  BY DEF TypeOK, FileInv
<1>2. /\ UNCHANGED <<log, delivered, popPc, popRes, loopOp, loopRes>>
      /\ seq' = IF seq = 0 THEN 1 ELSE seq
      /\ read' = IF read = 0 THEN 1 ELSE read
  BY DEF NewBboltQueue, history, popVars
<1>3. Awaited(loopOp)' <=> Awaited(loopOp)
  BY <1>2 DEF Awaited
<1>4. InFlight' = InFlight
  BY <1>2, <1>3, FlightStays
<1>5. Backlog' = Backlog /\ 1..(read' - 1) = 1..(read - 1)
  <2>1. CASE seq = 0
    <3>0. seq = 0 /\ read = 0 /\ seq' = 1 /\ read' = 1
      BY <1>1, <1>2, <2>1
    <3>1. QueueLen = 0 /\ QueueLen' = 0
      BY <3>0 DEF QueueLen
    <3>2. Backlog = <<>> /\ Backlog' = <<>>
      BY <3>1 DEF Backlog
    <3>3. 1..(read' - 1) = 1..(read - 1)
      BY <3>0
    <3>4. Backlog' = Backlog
      BY <3>2
    <3> QED
      BY <3>3, <3>4
  <2>2. CASE seq # 0
    BY <1>1, <1>2, <2>2, FileStays
  <2> QED
    BY <2>1, <2>2
<1> QED
  BY <1>2, <1>4, <1>5 DEF QuietStep

(* The end of the process loses what is in flight and nothing else.        *)
LEMMA EndEffect ==
    ASSUME TypeOK, ProcessEnds
    PROVE  LossStep
<1>1. /\ UNCHANGED <<seq, read, log, delivered>> /\ status' = "down"
      /\ loopRes' = NoResult /\ \A c \in Poppers : popRes'[c] = NoResult
  BY DEF ProcessEnds, file, history
<1>2. InFlight' \subseteq InFlight
  BY <1>1, NoResultNotClaimed, InFlightThen
<1> QED
  BY <1>1, <1>2, FileStays DEF LossStep

(* The steps of Push, Close and a cancelled context are quiet.             *)
QuietActions ==
    \/ \E c \in Pushers : PushStart(c) \/ PushStep(c)
    \/ \E c \in Callers : Cancel(c)
    \/ Close \/ CloseReturn \/ LoopExit \/ UNCHANGED vars

LEMMA QuietActionsEffect ==
    ASSUME TypeOK, QuietActions
    PROVE  QuietStep
<1>1. UNCHANGED <<seq, read, log, delivered, popPc, popRes, loopOp, loopRes>>
  BY DEF QuietActions, PushStart, PushStep, PushSend, PushGiveUp, PushReturn, Cancel, Close,
     CloseReturn, LoopExit, vars, file, object, popVars, history
<1> QED
  BY <1>1, StillQuiet

(* Every step has one of the five effects.                                 *)
LEMMA StepEffect ==
    ASSUME TypeOK, FileInv, KeyInv, RequestInv, [Next]_vars
    PROVE  \/ QuietStep \/ AcceptStep \/ ClaimedStep \/ LossStep
           \/ \E c \in Poppers : \E k : DeliveredStep(c, k)
<1>1. CASE NewBboltQueue
  BY <1>1, OpenEffect
<1>2. CASE ProcessEnds
  BY <1>2, EndEffect
<1>3. CASE QuietActions
  BY <1>3, QuietActionsEffect
<1>4. ASSUME NEW c \in Poppers, PopStart(c) \/ PopStep(c)
      PROVE  QuietStep \/ LossStep \/ \E k : DeliveredStep(c, k)
  BY <1>4, PopEffect
<1>5. CASE WritePush \/ ReadAndClaim \/ \E kind \in {"push", "pop"} : LoopFault(kind)
  BY <1>5, CommitEffect
<1>6. CASE LoopAnswer \/ LoopDropAnswer
  BY <1>6, AnswerEffect
<1> QED
  BY <1>1, <1>2, <1>3, <1>4, <1>5, <1>6 DEF Next, LoopStep, QuietActions

-----------------------------------------------------------------------------
(* Claimed events that no Pop will return.                                 *)

(* What a step adds to the lost events: nothing while the queue is open;   *)
(* one at most when Close interrupts a call; what was in flight when the   *)
(* process ends.                                                           *)
LEMMA NewlyLost ==
    ASSUME TypeOK, FileInv, KeyInv, RequestInv, [Next]_vars
    PROVE  \/ Lost' \subseteq Lost
           \/ /\ done /\ \E c \in Poppers : Outstanding(c)
              /\ \E k : Lost' \ Lost \subseteq {k}
           \/ status' = "down" /\ Lost' \ Lost \subseteq InFlight
<1>0. read \in Nat /\ delivered \in [Poppers -> Seq(Nat)]
  BY DEF TypeOK
<1>1. delivered' = delivered => Delivered' = Delivered
  <2> DEFINE Of(d) == UNION {{d[c][i] : i \in DOMAIN d[c]} : c \in Poppers}
  <2>1. Delivered = Of(delivered) /\ Delivered' = Of(delivered')
    BY Zenon DEF Delivered
  <2> HIDE DEF Of
  <2> QED
    BY <2>1
<1>2. CASE QuietStep \/ AcceptStep
  <2>1. InFlight' = InFlight /\ delivered' = delivered /\ 1..(read' - 1) = 1..(read - 1)
    BY <1>2 DEF QuietStep, AcceptStep
  <2> QED
    BY <1>1, <2>1 DEF Lost
<1>3. CASE ClaimedStep
  <2>1. /\ read' = read + 1 /\ delivered' = delivered
        /\ \/ InFlight' = InFlight \cup {read}
           \/ InFlight' = InFlight /\ done /\ \E c \in Poppers : Outstanding(c)
    BY <1>3 DEF ClaimedStep
  <2>2. \A k \in 1..(read' - 1) : k \in 1..(read - 1) \/ k = read
    BY <1>0, <2>1
  <2>3. InFlight \subseteq InFlight'
    BY <2>1
  <2>4. Lost' \ Lost \subseteq {read}
    BY <1>1, <2>1, <2>2, <2>3 DEF Lost
  <2>5. InFlight' = InFlight \cup {read} => Lost' \subseteq Lost
    BY <1>1, <2>1, <2>2 DEF Lost
  <2> QED
    BY <2>1, <2>4, <2>5
<1>4. CASE LossStep
  <2>1. /\ InFlight' \subseteq InFlight /\ delivered' = delivered /\ read' = read
    BY <1>4 DEF LossStep
  <2>2. Lost' \ Lost \subseteq InFlight \ InFlight'
    BY <1>1, <2>1 DEF Lost
  <2> QED
    BY <1>4, <2>2 DEF LossStep
<1>5. ASSUME NEW c \in Poppers, NEW k, DeliveredStep(c, k) PROVE Lost' \subseteq Lost
  <2>1. /\ InFlight' = InFlight \ {k} /\ read' = read
        /\ delivered' = [delivered EXCEPT ![c] = Append(@, k)]
    BY <1>5 DEF DeliveredStep
  <2>2. Delivered \cup {k} \subseteq Delivered'
    <3>1. ASSUME NEW d \in Poppers, NEW i \in DOMAIN delivered[d]
          PROVE  i \in DOMAIN delivered'[d] /\ delivered'[d][i] = delivered[d][i]
      <4>1. CASE d = c
        BY <1>0, <2>1, <3>1, <4>1
      <4>2. CASE d # c
        BY <1>0, <2>1, <3>1, <4>2
      <4> QED
        BY <4>1, <4>2
    <3>2. /\ Len(delivered[c]) + 1 \in DOMAIN delivered'[c]
          /\ delivered'[c][Len(delivered[c]) + 1] = k
      BY <1>0, <2>1
    <3>3. Delivered \subseteq Delivered'
      BY <3>1 DEF Delivered
    <3>4. k \in Delivered'
      BY <3>2 DEF Delivered
    <3> QED
      BY <3>3, <3>4
  <2> QED
    BY <2>1, <2>2 DEF Lost
<1> QED
  BY <1>2, <1>3, <1>4, <1>5, StepEffect

-----------------------------------------------------------------------------
(* What is counted: the events in the file, in flight and lost.            *)
INSTANCE FiniteSetTheorems

(* The file holds exactly the events between its counters, with the        *)
(* payloads that were pushed, and Len reports their number.                *)
THEOREM StoreCorrect == Spec => []StoreMatchesCounters
<1>1. TypeOK /\ QueueInv => StoreMatchesCounters
  <2> SUFFICES ASSUME TypeOK, FileInv PROVE StoreMatchesCounters
    BY DEF QueueInv
  <2>1. read \in Int /\ seq - 1 \in Int /\ seq \in Int /\ read <= seq
    BY DEF TypeOK, FileInv
  <2>2. Cardinality(read..(seq - 1)) = IF read > seq - 1 THEN 0 ELSE (seq - 1) - read + 1
    BY <2>1, FS_Interval
  <2>3. QueueLen = Cardinality(read..(seq - 1))
    BY <2>1, <2>2 DEF QueueLen
  <2> QED
    BY <2>3 DEF StoreMatchesCounters, FileInv
<1> QED
  BY <1>1, QueueCorrect, TypeCorrect, PTL

(* There are no more events in flight than callers that wait for one: each *)
(* has its own.                                                            *)
LEMMA FlightBound ==
    ASSUME TypeOK, RequestInv
    PROVE  /\ IsFiniteSet(InFlight)
           /\ Cardinality(InFlight) <= Cardinality({c \in Poppers : Outstanding(c)})
<1> DEFINE Waiting == {c \in Poppers : Outstanding(c)}
           Held(c) == Claimed(loopRes) /\ Awaited(loopOp) /\ loopOp = PopRequest(c)
           Holders == {c \in Poppers : Claimed(popRes[c]) \/ Held(c)}
           event == [c \in Holders |-> IF Held(c) THEN loopRes.key ELSE popRes[c].key]
<1>1. IsFiniteSet(Waiting)
  BY CallersAssumption, FS_Subset
<1>2. ASSUME NEW c \in Holders PROVE c \in Waiting
  <2>1. CASE Claimed(popRes[c])
    BY <2>1 DEF Claimed, RequestInv, RequestOf, Outstanding
  <2>2. CASE Held(c)
    BY <2>2, AwaitedCaller, RequestsDiffer
  <2> QED
    BY <1>2, <2>1, <2>2
<1>3. IsFiniteSet(Holders) /\ Cardinality(Holders) <= Cardinality(Waiting)
  BY <1>1, <1>2, FS_Subset
<1>4. ASSUME NEW c \in Holders PROVE event[c] \in InFlight
  BY <1>4, InFlightIs
<1>5. ASSUME NEW k \in InFlight PROVE \E c \in Holders : event[c] = k
  <2>1. CASE Claimed(loopRes) /\ Awaited(loopOp) /\ k = loopRes.key
    <3>1. PICK c \in Poppers : loopOp = PopRequest(c)
      BY <2>1, AwaitedCaller
    <3> QED
      BY <2>1, <3>1
  <2>2. CASE \E c \in Poppers : Claimed(popRes[c]) /\ k = popRes[c].key
    <3>1. PICK c \in Poppers : Claimed(popRes[c]) /\ k = popRes[c].key
      BY <2>2
    <3>2. ~Held(c)
      BY <3>1 DEF RequestInv, RequestOf, Claimed
    <3> QED
      BY <3>1, <3>2
  <2> QED
    BY <1>5, <2>1, <2>2, InFlightIs
<1>6. event \in Surjection(Holders, InFlight)
  <2>1. event \in [Holders -> InFlight]
    BY <1>4
  <2> HIDE DEF event, Holders
  <2> QED
    BY <1>5, <2>1 DEF Surjection
<1> HIDE DEF event, Holders, Waiting
<1>7. IsFiniteSet(InFlight) /\ Cardinality(InFlight) <= Cardinality(Holders)
  BY <1>3, <1>6, FS_Surjection
<1>8. Cardinality(InFlight) <= Cardinality(Waiting)
  BY <1>1, <1>3, <1>7, FS_CardinalityType
<1> QED
  BY <1>7, <1>8 DEF Waiting

(* No caller is left with two requests, and only Close leaves one behind.  *)
THEOREM RequestsCorrect == Spec => []RequestInv
<1>1. Init => RequestInv
  <2> SUFFICES ASSUME Init PROVE RequestInv
    OBVIOUS
  <2>1. /\ writes = <<>> /\ DOMAIN writes = {} /\ loopOp = NoOp /\ loopRes = NoResult
        /\ \A c \in Poppers : popPc[c] = "idle" /\ popRes[c] = NoResult
    BY DEF Init
  <2>2. LoopInv
    BY <2>1, RequestsDiffer DEF Init, LoopInv
  <2>3. \A c \in Poppers : RequestOf(c)
    BY <2>1, RequestsDiffer DEF RequestOf
  <2> QED
    BY <2>2, <2>3 DEF RequestInv
<1> QED
  BY <1>1, RequestStep, TypeCorrect, PTL DEF Spec

(* Whatever contexts are cancelled and transactions fail, bbolt.go drops   *)
(* no claimed event before Close or the end of the process.                *)
THEOREM OpenQueueLosesNothing == Spec => NoLossWhileOpen
<1>1. ASSUME TypeOK, QueueInv, RequestInv, [Next]_vars
      PROVE  ~done /\ status' # "down" => Lost' \subseteq Lost
  BY <1>1, NewlyLost DEF QueueInv
<1>2. ASSUME TypeOK, QueueInv, RequestInv, [Next]_vars
      PROVE  [~done /\ status' # "down" => Lost' \subseteq Lost]_vars
  BY <1>1, <1>2
<1> QED
  BY <1>2, TypeCorrect, QueueCorrect, RequestsCorrect, PTL DEF Spec, NoLossWhileOpen

(* No step of bbolt.go, the end of the process included, loses more events *)
(* than there are callers with a request under way.                        *)
THEOREM LossIsBounded == Spec => LossBound
<1>1. ASSUME TypeOK, QueueInv, RequestInv, [Next]_vars
      PROVE  Cardinality(Lost' \ Lost) <= Cardinality({c \in Poppers : Outstanding(c)})
  <2> DEFINE Waiting == {c \in Poppers : Outstanding(c)}
             new == Lost' \ Lost
  <2>1. IsFiniteSet(Waiting) /\ Cardinality(Waiting) \in Nat
    BY CallersAssumption, FS_Subset, FS_CardinalityType
  <2>2. IsFiniteSet(InFlight) /\ Cardinality(InFlight) <= Cardinality(Waiting)
    BY <1>1, FlightBound
  <2>3. \/ new = {}
        \/ Waiting # {} /\ \E k : new \subseteq {k}
        \/ new \subseteq InFlight
    BY <1>1, NewlyLost DEF QueueInv
  <2> SUFFICES Cardinality(new) <= Cardinality(Waiting)
    OBVIOUS
  <2> HIDE DEF new, Waiting
  <2>4. CASE new = {}
    BY <2>1, <2>4, FS_EmptySet
  <2>5. CASE Waiting # {} /\ \E k : new \subseteq {k}
    <3>1. PICK k : new \subseteq {k}
      BY <2>5
    <3>2. Cardinality(new) <= 1
      <4>1. IsFiniteSet({k}) /\ Cardinality({k}) = 1
        BY FS_Singleton
      <4> QED
        BY <3>1, <4>1, FS_Subset
    <3>3. Cardinality(Waiting) # 0
      BY <2>1, <2>5, FS_EmptySet
    <3>4. Cardinality(new) \in Nat
      BY <3>1, FS_Singleton, FS_Subset, FS_CardinalityType
    <3> QED
      BY <2>1, <3>2, <3>3, <3>4
  <2>6. CASE new \subseteq InFlight
    <3>1. /\ Cardinality(new) <= Cardinality(InFlight) /\ Cardinality(new) \in Nat
          /\ Cardinality(InFlight) \in Nat
      BY <2>2, <2>6, FS_Subset, FS_CardinalityType
    <3> QED
      BY <2>1, <2>2, <3>1
  <2> QED
    BY <2>3, <2>4, <2>5, <2>6
<1>2. ASSUME TypeOK, QueueInv, RequestInv, [Next]_vars
      PROVE  [Cardinality(Lost' \ Lost) <=
                Cardinality({c \in Poppers : Outstanding(c)})]_vars
  BY <1>1, <1>2
<1> QED
  BY <1>2, TypeCorrect, QueueCorrect, RequestsCorrect, PTL DEF Spec, LossBound

-----------------------------------------------------------------------------
(* The loop runs only while the queue is open: Close waits for it.         *)
LoopRunsOpen == loopPc # "exited" => status = "up"

(* Pop leaves the loop where it is and the queue as open as it is.         *)
LEMMA PopKeepsLoop ==
    ASSUME NEW c \in Poppers, PopStart(c) \/ PopStep(c)
    PROVE  UNCHANGED <<status, loopPc>>
  BY DEF PopStart, PopStep, PopSend, PopGiveUp, PopReturn, PopInterrupted, PopDrain, PopTick,
     object

(* Only NewBboltQueue starts the loop, and it stops before Close returns.  *)
LEMMA LoopRunsOpenStep == LoopRunsOpen /\ [Next]_vars => LoopRunsOpen'
<1> SUFFICES ASSUME LoopRunsOpen, [Next]_vars PROVE LoopRunsOpen'
  OBVIOUS
<1>1. CASE NewBboltQueue \/ ProcessEnds \/ CloseReturn
  BY <1>1 DEF NewBboltQueue, ProcessEnds, CloseReturn, LoopRunsOpen
<1>2. CASE LoopStep \/ \E kind \in {"push", "pop"} : LoopFault(kind)
  BY <1>2 DEF LoopStep, WritePush, ReadAndClaim, LoopFault, LoopReceive, LoopAnswer,
     LoopDropAnswer, LoopExit, LoopRunsOpen
<1>3. ASSUME NEW c \in Pushers, PushStart(c) \/ PushStep(c) PROVE LoopRunsOpen'
  BY <1>3 DEF PushStart, PushStep, PushSend, PushGiveUp, PushReturn, object, LoopRunsOpen
<1>4. ASSUME NEW c \in Poppers, PopStart(c) \/ PopStep(c) PROVE LoopRunsOpen'
  BY <1>4, PopKeepsLoop DEF LoopRunsOpen
<1>5. CASE Close \/ (\E c \in Callers : Cancel(c)) \/ UNCHANGED vars
  BY <1>5 DEF Close, Cancel, vars, object, LoopRunsOpen
<1> QED
  BY <1>1, <1>2, <1>3, <1>4, <1>5 DEF Next

(* Each effect of a step on the events is a step of the interface's        *)
(* contract, and only an open queue accepts and claims.                    *)
LEMMA BboltSimulates ==
    ASSUME TypeOK, FileInv, KeyInv, RequestInv, LoopRunsOpen, [Next]_vars
    PROVE  [EQ!Next]_EQ!vars
<1>1. ASSUME QuietStep, status' = status PROVE UNCHANGED EQ!vars
  BY <1>1 DEF QuietStep, EQ!vars
<1>2. ASSUME AcceptStep, status' = status, status = "up" PROVE EQ!Next
  <2>1. EQ!Accept
    BY <1>2 DEF AcceptStep, EQ!Accept
  <2> QED
    BY <2>1 DEF EQ!Next
<1>3. ASSUME ClaimedStep, status' = status, status = "up" PROVE EQ!Next
  <2>1. EQ!Claim
    BY <1>3 DEF ClaimedStep, EQ!Claim
  <2> QED
    BY <2>1 DEF EQ!Next
<1>4. ASSUME LossStep, status' = status PROVE EQ!Next
  <2>1. EQ!Lose
    BY <1>4 DEF LossStep, EQ!Lose
  <2> QED
    BY <2>1 DEF EQ!Next
<1>5. ASSUME NEW c \in Poppers, NEW k, DeliveredStep(c, k), status' = status PROVE EQ!Next
  <2>1. k \in InFlight /\ EQ!Return(c, k)
    BY <1>5 DEF DeliveredStep, EQ!Return, EQ!Newest
  <2> QED
    BY <2>1 DEF EQ!Next
<1>6. CASE NewBboltQueue
  <2>1. QuietStep /\ status = "down" /\ status' = "up"
    BY <1>6, OpenEffect DEF NewBboltQueue
  <2>2. EQ!Open
    BY <2>1 DEF QuietStep, EQ!Open, EQ!Keep
  <2> QED
    BY <2>2 DEF EQ!Next
<1>7. CASE ProcessEnds
  <2>1. LossStep /\ status' = "down"
    BY <1>7, EndEffect DEF ProcessEnds
  <2>2. CASE status = "up"
    <3>1. EQ!Shut
      BY <2>1, <2>2 DEF LossStep, EQ!Shut, EQ!Keep
    <3> QED
      BY <3>1 DEF EQ!Next
  <2>3. CASE status # "up"
    <3>1. EQ!Lose
      BY <2>1, <2>3 DEF LossStep, EQ!Lose
    <3> QED
      BY <3>1 DEF EQ!Next
  <2> QED
    BY <2>2, <2>3
<1>8. CASE CloseReturn
  <2>1. QuietStep /\ status = "up" /\ status' = "closed"
    BY <1>8, QuietActionsEffect DEF CloseReturn, QuietActions
  <2>2. EQ!Shut
    BY <2>1 DEF QuietStep, EQ!Shut, EQ!Keep
  <2> QED
    BY <2>2 DEF EQ!Next
<1>9. ASSUME QuietActions, ~CloseReturn PROVE UNCHANGED EQ!vars
  <2>1. status' = status
    BY <1>9 DEF QuietActions, PushStart, PushStep, PushSend, PushGiveUp, PushReturn, Cancel,
       Close, CloseReturn, LoopExit, vars, object
  <2> QED
    BY <1>1, <1>9, <2>1, QuietActionsEffect
<1>10. ASSUME NEW c \in Poppers, PopStart(c) \/ PopStep(c) PROVE [EQ!Next]_EQ!vars
  <2>1. status' = status
    BY <1>10, PopKeepsLoop
  <2>2. QuietStep \/ LossStep \/ \E k : DeliveredStep(c, k)
    BY <1>10, PopEffect
  <2> QED
    BY <1>1, <1>4, <1>5, <2>1, <2>2
<1>11. CASE WritePush \/ ReadAndClaim \/ \E kind \in {"push", "pop"} : LoopFault(kind)
  <2>1. status' = status /\ status = "up"
    BY <1>11 DEF WritePush, ReadAndClaim, LoopFault, LoopReceive, LoopRunsOpen
  <2>2. QuietStep \/ AcceptStep \/ ClaimedStep
    BY <1>11, CommitEffect
  <2> QED
    BY <1>1, <1>2, <1>3, <2>1, <2>2
<1>12. CASE LoopAnswer \/ LoopDropAnswer
  <2>1. status' = status
    BY <1>12 DEF LoopAnswer, LoopDropAnswer
  <2>2. QuietStep \/ LossStep
    BY <1>12, AnswerEffect
  <2> QED
    BY <1>1, <1>4, <2>1, <2>2
<1> QED
  BY <1>6, <1>7, <1>8, <1>9, <1>10, <1>11, <1>12 DEF Next, LoopStep, QuietActions

(* bbolt.go keeps the contract of the Queue interface over any number of   *)
(* crashes and restarts, and accepts and claims nothing once Close has     *)
(* returned: it may lose claimed events and does nothing else.             *)
THEOREM BboltImplements == Spec => ImplementsEventQueue
<1>1. Init => EQ!Init /\ LoopRunsOpen
  <2> SUFFICES ASSUME Init PROVE EQ!Init /\ LoopRunsOpen
    OBVIOUS
  <2>1. seq = 0 /\ read = 0 /\ Len(log) = 0 /\ delivered = [c \in Poppers |-> <<>>]
    BY DEF Init
  <2>2. QueueLen = 0
    BY <2>1 DEF QueueLen
  <2>3. Backlog = <<>>
    BY <2>2 DEF Backlog
  <2>4. loopRes = NoResult /\ \A c \in Poppers : popRes[c] = NoResult
    BY DEF Init
  <2>5. InFlight = {}
    BY <2>4, NoResultNotClaimed, InFlightIs
  <2> QED
    BY <2>1, <2>3, <2>5 DEF EQ!Init, Init, LoopRunsOpen
<1>2. ASSUME TypeOK, QueueInv, RequestInv, LoopRunsOpen, [Next]_vars
      PROVE  [EQ!Next]_EQ!vars
  BY <1>2, BboltSimulates DEF QueueInv
<1> QED
  BY <1>1, <1>2, TypeCorrect, QueueCorrect, RequestsCorrect, LoopRunsOpenStep, PTL
  DEF Spec, ImplementsEventQueue, EQ!Spec
=============================================================================
