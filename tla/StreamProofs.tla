---------------------------- MODULE StreamProofs ----------------------------
(***************************************************************************)
(* The safety of a stream, from its sources through the engine to the      *)
(* plugin processes.  The engine drains what it accepted and fans out in   *)
(* step, for any number of pipelines, sources, sinks, entries, reloads and *)
(* panics and any buffer size.  The sources account for every line of      *)
(* their peers and outlive their senders, for any number of lines and      *)
(* connections and any sizes.  A plugin process answers each request with  *)
(* its own line, for any number of callers, calls, closers and any size of *)
(* the pipes.                                                              *)
(***************************************************************************)
EXTENDS Engine, Ingest, ExecPlugin, TLAPS

-----------------------------------------------------------------------------
(* The engine.                                                             *)

(* What each channel holds is what was accepted and not yet processed; a   *)
(* closed channel has no running sender; a pipeline leaves a closed and    *)
(* empty channel.                                                          *)
ChannelInv ==
    \A p \in Pipelines :
      /\ accepted[p] = processed[p] + entries[p]
      /\ closed[p] => /\ pipePc[p] \notin {"build", "failed"}
                      /\ \A s \in SourcesOf(p) : srcPc[s] = "done"
      /\ pipePc[p] = "exited" => closed[p] /\ entries[p] = 0

(* Inside the fan-out the sinks before next are one event ahead of the     *)
(* others; elsewhere, except after a panic, all have every event.          *)
FanOutInv ==
    \A p \in Pipelines :
      /\ pipePc[p] \notin {"write", "panicked"} =>
           next[p] = 1 /\ \A k \in 1..Sinks : offered[p][k] = events[p]
      /\ pipePc[p] = "write" =>
           /\ next[p] \in 1..Sinks
           /\ \A k \in 1..Sinks :
                offered[p][k] = IF k < next[p] THEN events[p] ELSE events[p] - 1

-----------------------------------------------------------------------------
(* Each step keeps every variable in its type.                             *)
LEMMA TypeStep == TypeOK /\ [Next]_vars => TypeOK'
<1> SUFFICES ASSUME TypeOK, [Next]_vars PROVE TypeOK'
  OBVIOUS
<1> USE EngineAssumption
<1>0. Size \in Nat
  BY DEF Size
<1>1. CASE Cancel
  BY <1>1 DEF Cancel, TypeOK, channel, dispatch, Size
<1>2. CASE SendReload
  <2>1. signals' \in Nat /\ signalled' \in Nat
    BY <1>2 DEF SendReload, TypeOK
  <2>2. UNCHANGED <<ctxDone, running, pipePc, srcPc, channel, dispatch, reloaded, panics>>
    BY <1>2 DEF SendReload
  <2> QED
    BY <2>1, <2>2 DEF TypeOK, channel, dispatch
<1>3. CASE \E s \in Sources : SourceSend(s)
  <2> PICK s \in Sources : SourceSend(s)
    BY <1>3
  <2>1. SourceOf[s] \in Pipelines
    OBVIOUS
  <2>2. entries' \in [Pipelines -> 0..Size]
    BY <1>0, <2>1 DEF SourceSend, TypeOK
  <2>3. accepted' \in [Pipelines -> Nat]
    BY <2>1 DEF SourceSend, TypeOK
  <2> QED
    BY <2>2, <2>3 DEF SourceSend, TypeOK, host, dispatch, Size
<1>4. CASE \E s \in Sources : SourceEnd(s)
  BY <1>4 DEF SourceEnd, TypeOK, host, channel, dispatch, Size
<1>5. ASSUME NEW p \in Pipelines, CloseEntries(p) PROVE TypeOK'
  BY <1>5 DEF CloseEntries, TypeOK, host, dispatch, Size
<1>6. ASSUME NEW p \in Pipelines, Build(p) PROVE TypeOK'
  BY <1>6 DEF Build, Goto, TypeOK, host, channel, dispatch, Size
<1>7. ASSUME NEW p \in Pipelines, SelectEntry(p) \/ DrainEntry(p) PROVE TypeOK'
  <2>0. Receive(p)
    BY <1>7 DEF SelectEntry, DrainEntry
  <2>1. entries' \in [Pipelines -> 0..Size]
    <3>1. entries \in [Pipelines -> 0..Size]
      BY DEF TypeOK
    <3>2. entries[p] > 0 /\ entries' = [entries EXCEPT ![p] = @ - 1]
      BY <2>0 DEF Receive
    <3> QED
      BY <1>0, <3>1, <3>2
  <2>2. processed' \in [Pipelines -> Nat]
    BY <2>0 DEF Receive, TypeOK
  <2>3. draining' \in [Pipelines -> BOOLEAN]
    BY <2>0, Zenon DEF Receive, TypeOK
  <2> QED
    BY <2>0, <2>1, <2>2, <2>3 DEF Receive, Goto, TypeOK, host, Size
<1>8. ASSUME NEW p \in Pipelines, SelectDone(p) \/ Leave(p) PROVE TypeOK'
  BY <1>8 DEF SelectDone, Leave, Goto, TypeOK, host, channel, dispatch, Size
<1>9. ASSUME NEW p \in Pipelines, SelectReload(p) PROVE TypeOK'
  <2>1. signals' \in Nat /\ reloaded' \in [Pipelines -> Nat]
    BY <1>9 DEF SelectReload, TypeOK
  <2> QED
    BY <1>9, <2>1 DEF SelectReload, TypeOK, channel, dispatch, Size
<1>10. ASSUME NEW p \in Pipelines, Process(p) PROVE TypeOK'
  <2>0. events' = events \/ events' = [events EXCEPT ![p] = @ + 1]
    BY <1>10 DEF Process, Goto
  <2>1. events' \in [Pipelines -> Nat]
    <3>1. events \in [Pipelines -> Nat]
      BY DEF TypeOK
    <3> QED
      BY <2>0, <3>1
  <2>2. AtRest(p) \in {"select", "drain"}
    BY DEF AtRest
  <2>3. Goto(p, AtRest(p)) \/ Goto(p, "write")
    BY <1>10 DEF Process, Goto
  <2>4. pipePc' \in [Pipelines -> {"build", "select", "drain", "process", "write",
                                  "exited", "failed", "panicked"}]
    BY <2>2, <2>3 DEF Goto, TypeOK
  <2>5. UNCHANGED <<host, running, srcPc, channel, draining, next, processed,
                    offered, reloaded, panics>>
    BY <1>10 DEF Process
  <2> QED
    BY <2>1, <2>4, <2>5 DEF TypeOK, host, channel
<1>11. ASSUME NEW p \in Pipelines, Write(p) PROVE TypeOK'
  <2> DEFINE row == [k \in 1..Sinks |-> IF k = next[p] THEN offered[p][k] + 1
                                       ELSE offered[p][k]]
  <2>0. offered[p] \in [1..Sinks -> Nat]
    BY DEF TypeOK
  <2>a. row \in [1..Sinks -> Nat]
    BY <2>0
  <2>c. [offered[p] EXCEPT ![next[p]] = offered[p][next[p]] + 1] = row
    BY <2>0
  <2>b. offered' = [offered EXCEPT ![p] = row]
    BY <1>11, <2>c DEF Write
  <2>1. offered' \in [Pipelines -> [1..Sinks -> Nat]]
    BY <2>a, <2>b DEF TypeOK
  <2>2. next' \in [Pipelines -> Nat]
    BY <1>11 DEF Write, TypeOK
  <2>3. AtRest(p) \in {"select", "drain"}
    BY DEF AtRest
  <2>4. Goto(p, AtRest(p)) \/ Goto(p, "write")
    BY <1>11 DEF Write
  <2> QED
    BY <1>11, <2>1, <2>2, <2>3, <2>4 DEF Write, Goto, TypeOK, host, channel, Size
<1>12. ASSUME NEW p \in Pipelines, Panic(p) PROVE TypeOK'
  <2>1. signals' \in Nat /\ panics' \in Nat
    BY <1>12 DEF Panic, TypeOK
  <2> QED
    BY <1>12, <2>1 DEF Panic, Goto, TypeOK, channel, dispatch, Size
<1>13. CASE Return
  BY <1>13 DEF Return, TypeOK, host, channel, dispatch, Size
<1>14. CASE UNCHANGED vars
  BY <1>14 DEF vars, TypeOK, host, channel, dispatch, Size
<1> QED
  BY <1>1, <1>2, <1>3, <1>4, <1>5, <1>6, <1>7, <1>8, <1>9, <1>10, <1>11,
     <1>12, <1>13, <1>14 DEF Next, PipelineStep

-----------------------------------------------------------------------------
(* A step changes one channel: the sum of processed and buffered follows   *)
(* what was accepted, no source of a closed channel runs again, and an     *)
(* empty closed channel stays empty.                                       *)
LEMMA ChannelStep == TypeOK /\ ChannelInv /\ [Next]_vars => ChannelInv'
<1> SUFFICES ASSUME TypeOK, ChannelInv, [Next]_vars,
                    NEW q \in Pipelines
             PROVE  /\ accepted'[q] = processed'[q] + entries'[q]
                    /\ closed'[q] => /\ pipePc'[q] \notin {"build", "failed"}
                                     /\ \A s \in SourcesOf(q) : srcPc'[s] = "done"
                    /\ pipePc'[q] = "exited" => closed'[q] /\ entries'[q] = 0
  BY DEF ChannelInv, SourcesOf
<1> DEFINE Goal == /\ accepted'[q] = processed'[q] + entries'[q]
                   /\ closed'[q] => /\ pipePc'[q] \notin {"build", "failed"}
                                    /\ \A s \in SourcesOf(q) : srcPc'[s] = "done"
                   /\ pipePc'[q] = "exited" => closed'[q] /\ entries'[q] = 0
<1> USE EngineAssumption DEF SourcesOf
<1>0. /\ accepted[q] \in Nat /\ processed[q] \in Nat /\ entries[q] \in Nat
      /\ accepted[q] = processed[q] + entries[q]
  BY DEF TypeOK, ChannelInv, Size
<1>1. CASE \/ Cancel \/ SendReload \/ Return \/ UNCHANGED vars
           \/ \E p \in Pipelines : SelectReload(p)
  BY <1>1 DEF Cancel, SendReload, Return, SelectReload, vars, ChannelInv,
              host, channel, dispatch
<1>2. CASE \E s \in Sources : SourceSend(s)
  <2> PICK s \in Sources : SourceSend(s)
    BY <1>2
  <2>1. CASE SourceOf[s] = q
    <3>1. ~closed[q] /\ pipePc[q] # "exited"
      BY <2>1 DEF ChannelInv, SourceSend
    <3>2. accepted'[q] = accepted[q] + 1 /\ entries'[q] = entries[q] + 1
      BY <2>1 DEF SourceSend, TypeOK
    <3> QED
      BY <1>0, <3>1, <3>2 DEF SourceSend, host, dispatch
  <2>2. CASE SourceOf[s] # q
    <3>1. accepted'[q] = accepted[q] /\ entries'[q] = entries[q]
      BY <2>2 DEF SourceSend, TypeOK
    <3> QED
      BY <1>0, <3>1 DEF SourceSend, host, dispatch, ChannelInv
  <2> QED
    BY <2>1, <2>2
<1>3. CASE \E s \in Sources : SourceEnd(s)
  BY <1>3 DEF SourceEnd, host, channel, dispatch, TypeOK, ChannelInv
<1>4. ASSUME NEW p \in Pipelines, CloseEntries(p) PROVE Goal
  BY <1>4 DEF CloseEntries, host, dispatch, TypeOK, ChannelInv
<1>5. ASSUME NEW p \in Pipelines, Build(p) PROVE Goal
  <2>1. pipePc[p] = "build" /\ ~closed[p]
    BY <1>5 DEF Build, ChannelInv
  <2>2. p # q => pipePc'[q] = pipePc[q]
    BY <1>5 DEF Build, Goto, TypeOK
  <2>3. p # q => \A s \in SourcesOf(q) : srcPc'[s] = srcPc[s]
    BY <1>5 DEF Build
  <2>4. p = q => pipePc'[q] \in {"select", "failed"}
    BY <1>5 DEF Build, Goto, TypeOK
  <2> QED
    BY <1>0, <1>5, <2>1, <2>2, <2>3, <2>4 DEF Build, channel, dispatch, ChannelInv
<1>6. ASSUME NEW p \in Pipelines, SelectEntry(p) \/ DrainEntry(p) PROVE Goal
  <2>0. Receive(p) /\ pipePc[p] \in {"select", "drain"}
    BY <1>6 DEF SelectEntry, DrainEntry
  <2>1. CASE p = q
    <3>1. entries'[q] = entries[q] - 1 /\ processed'[q] = processed[q] + 1
      BY <2>0, <2>1 DEF Receive, TypeOK
    <3>2. pipePc'[q] = "process"
      BY <2>0, <2>1 DEF Receive, Goto, TypeOK
    <3> QED
      BY <1>0, <2>0, <2>1, <3>1, <3>2 DEF Receive, ChannelInv
  <2>2. CASE p # q
    <3>1. entries'[q] = entries[q] /\ processed'[q] = processed[q] /\ pipePc'[q] = pipePc[q]
      BY <2>0, <2>2 DEF Receive, Goto, TypeOK
    <3> QED
      BY <1>0, <2>0, <3>1 DEF Receive, ChannelInv
  <2> QED
    BY <2>1, <2>2
<1>7. ASSUME NEW p \in Pipelines, SelectDone(p) \/ Leave(p) PROVE Goal
  BY <1>0, <1>7, SMTT(30) DEF SelectDone, Leave, Goto, channel, dispatch, TypeOK, ChannelInv
<1>8. ASSUME NEW p \in Pipelines, Process(p) \/ Write(p) \/ Panic(p) PROVE Goal
  <2>1. UNCHANGED <<srcPc, entries, closed, accepted, processed>>
    BY <1>8 DEF Process, Write, Panic, channel, dispatch
  <2>2. AtRest(p) \in {"select", "drain"}
    BY DEF AtRest
  <2>3. p # q => pipePc'[q] = pipePc[q]
    BY <1>8 DEF Process, Write, Panic, Goto, TypeOK
  <2>4. p = q => /\ pipePc'[q] # "exited"
                 /\ pipePc'[q] \in {"build", "failed"} => pipePc[q] \in {"build", "failed"}
    BY <1>8, <2>2 DEF Process, Write, Panic, Goto, TypeOK
  <2> QED
    BY <1>0, <2>1, <2>3, <2>4 DEF ChannelInv
<1> QED
  BY <1>1, <1>2, <1>3, <1>4, <1>5, <1>6, <1>7, <1>8 DEF Next, PipelineStep

-----------------------------------------------------------------------------
(* The fan-out of a pipeline advances one sink at a time and ends at the   *)
(* last one.                                                               *)
LEMMA FanOutStep == TypeOK /\ FanOutInv /\ [Next]_vars => FanOutInv'
<1> SUFFICES ASSUME TypeOK, FanOutInv, [Next]_vars PROVE FanOutInv'
  OBVIOUS
<1> DEFINE Rest(q) == next[q] = 1 /\ \A k \in 1..Sinks : offered[q][k] = events[q]
           Mid(q) == /\ next[q] \in 1..Sinks
                     /\ \A k \in 1..Sinks :
                          offered[q][k] = IF k < next[q] THEN events[q] ELSE events[q] - 1
           Good(q) == /\ pipePc[q] \notin {"write", "panicked"} => Rest(q)
                      /\ pipePc[q] = "write" => Mid(q)
<1> USE EngineAssumption
<1>0. \A q \in Pipelines : Good(q)
  BY DEF FanOutInv
<1>1. CASE UNCHANGED <<pipePc, next, events, offered>>
  BY <1>1 DEF FanOutInv
<1>2. ASSUME NEW p \in Pipelines, Build(p) \/ SelectDone(p) \/ Leave(p)
                                  \/ SelectEntry(p) \/ DrainEntry(p) \/ Panic(p)
      PROVE  FanOutInv'
  <2>1. UNCHANGED <<next, events, offered>>
    BY <1>2 DEF Build, SelectDone, Leave, SelectEntry, DrainEntry, Receive, Panic, dispatch
  <2>2. \E place \in {"select", "failed", "drain", "exited", "process", "panicked"} :
          pipePc' = [pipePc EXCEPT ![p] = place]
    BY <1>2 DEF Build, SelectDone, Leave, SelectEntry, DrainEntry, Receive, Panic, Goto
  <2>3. pipePc[p] # "write" \/ pipePc'[p] = "panicked"
    BY <1>2 DEF Build, SelectDone, Leave, SelectEntry, DrainEntry, Receive, Panic, Goto, TypeOK
  <2>4. pipePc[p] # "panicked"
    BY <1>2 DEF Build, SelectDone, Leave, SelectEntry, DrainEntry, Receive, Panic
  <2> QED
    BY <1>0, <2>1, <2>2, <2>3, <2>4 DEF FanOutInv, TypeOK
<1>3. ASSUME NEW p \in Pipelines, Process(p) PROVE FanOutInv'
  <2>1. Rest(p) /\ pipePc[p] = "process"
    BY <1>0, <1>3 DEF Process
  <2>2. UNCHANGED <<next, offered>>
    BY <1>3 DEF Process
  <2>3. AtRest(p) \in {"select", "drain"}
    BY DEF AtRest
  <2>4. ASSUME NEW q \in Pipelines, q # p PROVE Good(q)'
    <3>1. pipePc'[q] = pipePc[q] /\ events'[q] = events[q]
      BY <1>3, <2>4 DEF Process, Goto, TypeOK
    <3> QED
      BY <1>0, <2>2, <3>1
  <2>5. Good(p)'
    <3>1. CASE events' = events /\ pipePc'[p] = AtRest(p)
      BY <2>1, <2>2, <2>3, <3>1
    <3>2. CASE /\ events'[p] = events[p] + 1
               /\ pipePc'[p] = IF Sinks = 0 THEN AtRest(p) ELSE "write"
      <4>1. events[p] \in Nat
        BY DEF TypeOK
      <4>2. CASE Sinks = 0
        BY <2>1, <2>2, <2>3, <3>2, <4>2
      <4>3. CASE Sinks # 0
        BY <2>1, <2>2, <3>2, <4>1, <4>3
      <4> QED
        BY <4>2, <4>3
    <3> QED
      BY <1>3, <3>1, <3>2 DEF Process, Goto, TypeOK
  <2> QED
    BY <2>4, <2>5 DEF FanOutInv
<1>4. ASSUME NEW p \in Pipelines, Write(p) PROVE FanOutInv'
  <2>1. Mid(p) /\ UNCHANGED events
    BY <1>0, <1>4 DEF Write
  <2>2. AtRest(p) \in {"select", "drain"}
    BY DEF AtRest
  <2>3. ASSUME NEW q \in Pipelines, q # p PROVE Good(q)'
    <3>1. pipePc'[q] = pipePc[q] /\ next'[q] = next[q] /\ offered'[q] = offered[q]
      BY <1>4, <2>3 DEF Write, Goto, TypeOK
    <3>2. Good(q) /\ events'[q] = events[q]
      BY <1>0, <2>1, Zenon
    <3> HIDE DEF Mid, Rest
    <3>3. (Mid(q) => Mid(q)') /\ (Rest(q) => Rest(q)')
      BY <3>1, <3>2, Zenon DEF Mid, Rest
    <3> QED
      BY <3>1, <3>2, <3>3, Zenon
  <2>4. Good(p)'
    <3>1. events[p] \in Nat /\ next[p] \in Nat
      BY DEF TypeOK
    <3>2. \A k \in 1..Sinks :
            offered'[p][k] = IF k = next[p] THEN offered[p][k] + 1 ELSE offered[p][k]
      BY <1>4 DEF Write, TypeOK
    <3>3. \A k \in 1..Sinks : offered'[p][k] = IF k < next[p] + 1 THEN events[p] ELSE events[p] - 1
      BY <2>1, <3>1, <3>2
    <3>4. CASE next[p] = Sinks
      <4>1. pipePc'[p] = AtRest(p) /\ next'[p] = 1
        BY <1>4, <3>4 DEF Write, Goto, TypeOK
      <4>2. \A k \in 1..Sinks : offered'[p][k] = events[p]
        BY <3>3, <3>4
      <4> QED
        BY <2>1, <2>2, <4>1, <4>2
    <3>5. CASE next[p] # Sinks
      <4>1. pipePc'[p] = "write" /\ next'[p] = next[p] + 1
        BY <1>4, <3>5 DEF Write, Goto, TypeOK
      <4>2. next'[p] \in 1..Sinks
        <5>1. Sinks \in Nat /\ next[p] \in 1..Sinks
          BY <2>1
        <5> QED
          BY <3>5, <4>1, <5>1
      <4> QED
        BY <2>1, <3>3, <4>1, <4>2
    <3> QED
      BY <3>4, <3>5
  <2> QED
    BY <2>3, <2>4 DEF FanOutInv
<1> QED
  <2>1. CASE \/ Cancel \/ SendReload \/ Return \/ UNCHANGED vars
             \/ \E s \in Sources : SourceSend(s) \/ SourceEnd(s)
             \/ \E p \in Pipelines : CloseEntries(p) \/ SelectReload(p)
    <3>1. UNCHANGED <<pipePc, next, events, offered>>
      BY <2>1 DEF Cancel, SendReload, Return, SourceSend, SourceEnd, CloseEntries,
                  SelectReload, vars, dispatch
    <3> QED
      BY <1>1, <3>1
  <2> QED
    BY <1>2, <1>3, <1>4, <2>1 DEF Next, PipelineStep

-----------------------------------------------------------------------------
(* The initial state: nothing accepted, nothing offered, no channel closed. *)
LEMMA InitCorrect == Init => TypeOK /\ ChannelInv /\ FanOutInv
<1> SUFFICES ASSUME Init PROVE TypeOK /\ ChannelInv /\ FanOutInv
  OBVIOUS
<1>a. Size \in Nat
  BY EngineAssumption DEF Size
<1>b. entries \in [Pipelines -> 0..Size]
  BY <1>a DEF Init
<1>c. offered \in [Pipelines -> [1..Sinks -> Nat]]
  BY DEF Init
<1>d. pipePc \in [Pipelines -> {"build", "select", "drain", "process", "write",
                               "exited", "failed", "panicked"}]
  BY DEF Init
<1>e. /\ draining \in [Pipelines -> BOOLEAN] /\ closed \in [Pipelines -> BOOLEAN]
      /\ srcPc \in [Sources -> {"new", "run", "done"}]
  BY Zenon DEF Init
<1>1. TypeOK
  BY <1>b, <1>c, <1>d, <1>e DEF Init, TypeOK
<1>2. ChannelInv
  BY DEF Init, ChannelInv
<1>3. FanOutInv
  BY DEF Init, FanOutInv
<1> QED
  BY <1>1, <1>2, <1>3

(* Every variable of the engine keeps its type and no buffer exceeds its   *)
(* capacity.                                                               *)
THEOREM EngineTypes == Spec => []TypeOK
  BY InitCorrect, TypeStep, PTL DEF Spec

(* A pipeline that leaves, at shutdown or at the end of its sources, has   *)
(* processed every accepted entry, and no source of it still sends.        *)
THEOREM EngineDrains == Spec => []NothingLeftBehind
<1>1. TypeOK /\ ChannelInv => NothingLeftBehind
  <2> SUFFICES ASSUME TypeOK, ChannelInv, NEW p \in Pipelines
               PROVE  /\ pipePc[p] = "exited" => processed[p] = accepted[p]
                      /\ closed[p] \/ pipePc[p] = "exited" =>
                           \A s \in SourcesOf(p) : srcPc[s] = "done"
    BY DEF NothingLeftBehind
  <2>1. processed[p] \in Nat
    BY DEF TypeOK
  <2> QED
    BY <2>1 DEF ChannelInv
<1> QED
  BY InitCorrect, TypeStep, ChannelStep, <1>1, PTL DEF Spec

(* Outside dispatchEntry every sink has been offered every event.          *)
THEOREM EngineFansOut == Spec => []FanOutComplete
<1>1. FanOutInv => FanOutComplete
  BY DEF FanOutInv, FanOutComplete
<1> QED
  BY InitCorrect, TypeStep, FanOutStep, <1>1, PTL DEF Spec

-----------------------------------------------------------------------------
(* The sources: the channel outlives the senders.                          *)

(* The channel is closed after Run, and Run of the stream source outlives  *)
(* the accepted connections.                                               *)
StreamInv ==
    /\ ~outOpen => run = "returned"
    /\ run \in {"on", "drain", "returned"}
    /\ DOMAIN conn = Conns
    /\ kind \notin {"stream", "push"} => \A c \in Conns : conn[c] = "none"
    /\ kind # "stream" => \A c \in Conns : conn[c] # "accepted"
    /\ kind = "stream" /\ run # "on" => \A c \in Conns : conn[c] # "accepted"
    /\ kind = "stream" /\ run = "returned" => \A c \in Conns : conn[c] # "open"

(* Each step keeps the channel open for the connections being served.      *)
LEMMA StreamStep == StreamInv /\ [IngestNext]_ingestVars => StreamInv'
<1> SUFFICES ASSUME StreamInv, [IngestNext]_ingestVars PROVE StreamInv'
  OBVIOUS
<1> USE DEF chanVars, statVars, connVars, readVars, SetConn
<1>1. CASE UNCHANGED <<kind, run, conn, outOpen>>
  BY <1>1 DEF StreamInv
<1>2. CASE /\ UNCHANGED <<kind, conn, outOpen>> /\ run' = "returned"
           /\ kind = "stream" => run = "drain" /\ Serving = {}
  BY <1>2 DEF StreamInv, Serving
<1>3. ASSUME NEW c \in Conns, \/ Accept(c) \/ Serve(c) \/ ConnEnds(c) \/ PushRequest(c)
                              \/ PushPanics(c) \/ PushAck(c)
      PROVE  StreamInv'
  BY <1>3 DEF Accept, Serve, ConnEnds, PushRequest, PushPanics, PushAck, StreamInv
<1>4. CASE AcceptEnds
  BY <1>4 DEF AcceptEnds, StreamInv
<1>5. CASE CloseOut
  BY <1>5 DEF CloseOut, StreamInv
<1>6. CASE \/ ReadLine \/ PutLine \/ ReadEnds \/ Forward \/ ReadPacket \/ PullFetch
           \/ PullRecord \/ IngestReceive \/ IngestCancel \/ UNCHANGED ingestVars
           \/ PacketRecord \/ \E c \in Conns : ConnLine(c) \/ ConnRecord(c) \/ PushRecord(c)
  <2>1. UNCHANGED <<kind, run, conn, outOpen>>
    BY <1>6 DEF ReadLine, PutLine, ReadEnds, Forward, ReadPacket, PacketRecord, PullFetch,
                PullRecord, IngestReceive, IngestCancel, ingestVars, ConnLine, ConnRecord,
                PushRecord, Record, Malformed, Offer
  <2> QED
    BY <1>1, <2>1
<1>7. CASE \/ ForwardCancelled \/ LoopEnds \/ PacketEnds \/ StreamReturns \/ PushReturns
           \/ PullEnds
  <2>1. /\ UNCHANGED <<kind, conn, outOpen>> /\ run' = "returned"
        /\ kind = "stream" => run = "drain" /\ Serving = {}
    BY <1>7 DEF ForwardCancelled, LoopEnds, PacketEnds, StreamReturns, PushReturns,
                PullEnds, Returns, Buffered
  <2> QED
    BY <1>2, <2>1
<1> QED
  BY <1>3, <1>4, <1>5, <1>6, <1>7 DEF IngestNext, BufferedNext, ConnNext, PullNext

(* The channel is closed under no sender but a handler of push.            *)
THEOREM SendersOutlived == IngestSpec => []SendsMeetOpenChannel
<1>1. IngestInit => StreamInv
  BY DEF IngestInit, StreamInv
<1>2. StreamInv => SendsMeetOpenChannel
  BY DEF StreamInv, SendsMeetOpenChannel, Serving
<1> QED
  BY <1>1, <1>2, StreamStep, PTL DEF IngestSpec

-----------------------------------------------------------------------------
(* The plugin process.                                                     *)

Empty == stdin = <<>> /\ holding = None /\ stdout = <<>>

(* The request r is the one line on its way.                               *)
Only(r) == \/ stdin = <<r>> /\ holding = None /\ stdout = <<>>
           \/ stdin = <<>> /\ holding = r /\ stdout = <<>>
           \/ stdin = <<>> /\ holding = None /\ stdout = <<r>>

CallTypes ==
    /\ pc \in [Callers -> {"idle", "send", "recv"}]
    /\ calls \in [Callers -> Nat]
    /\ DOMAIN got = Callers
    /\ role \in {"request", "write"}

(* The mutex is held from the start of a call to its end.  A caller that   *)
(* waits for an answer has its request, alone, on the way, and while the   *)
(* process runs nothing is on the way otherwise: an answer left behind     *)
(* would go to the next call.                                              *)
PluginInv ==
    /\ CallTypes
    /\ \A c \in Callers : pc[c] # "idle" => holder = c
    /\ \A c \in Callers : pc[c] = "recv" => role = "request" /\ Only(Request(c))
    /\ role = "request" /\ proc = "running" /\ (\A c \in Callers : pc[c] # "recv") => Empty
    /\ OwnAnswer

-----------------------------------------------------------------------------
(* The plugin takes a line and answers it: it stays the only one.          *)
LEMMA OnlyMoves ==
    ASSUME NEW r, r # None, Only(r), PluginRead \/ PluginAnswer
    PROVE  Only(r)'
<1>1. CASE PluginRead
  <2>1. stdin = <<r>> /\ holding = None /\ stdout = <<>>
    BY <1>1 DEF PluginRead, Only
  <2>2. stdin' = <<>> /\ holding' = r /\ stdout' = <<>>
    BY <1>1, <2>1 DEF PluginRead
  <2> QED
    BY <2>2 DEF Only
<1>2. CASE PluginAnswer
  <2>1. stdin = <<>> /\ holding = r /\ stdout = <<>>
    BY <1>2 DEF PluginAnswer, Only
  <2>2. stdin' = <<>> /\ holding' = None /\ stdout' = <<r>>
    BY <1>2, <2>1 DEF PluginAnswer
  <2> QED
    BY <2>2 DEF Only
<1> QED
  BY <1>1, <1>2

(* Each step keeps one request on the way at a time.                       *)
LEMMA PluginStep == PluginInv /\ [PluginNext]_pluginVars => PluginInv'
<1> SUFFICES ASSUME PluginInv, [PluginNext]_pluginVars PROVE PluginInv'
  OBVIOUS
<1> USE NoneAssumption DEF pipeVars, callVars, closeVars, Request
<1>0. /\ CallTypes /\ OwnAnswer
      /\ \A c \in Callers : pc[c] # "idle" => holder = c
      /\ \A c \in Callers : pc[c] = "recv" => role = "request" /\ Only(Request(c))
      /\ role = "request" /\ proc = "running" /\ (\A c \in Callers : pc[c] # "recv") => Empty
  BY DEF PluginInv
<1>1. ASSUME NEW c \in Callers, Begin(c) PROVE PluginInv'
  <2>1. /\ pc' = [pc EXCEPT ![c] = "send"] /\ calls' = [calls EXCEPT ![c] = @ + 1]
        /\ got' = [got EXCEPT ![c] = None] /\ holder' = c
        /\ UNCHANGED <<role, proc, stdin, stdout, holding>>
    BY <1>1 DEF Begin
  <2>2. \A d \in Callers : pc[d] = "idle"
    BY <1>0, <1>1 DEF Begin
  <2>3. CallTypes'
    BY <1>0, <2>1 DEF CallTypes
  <2>4. OwnAnswer'
    BY <1>0, <2>1 DEF OwnAnswer, CallTypes
  <2>5. \A d \in Callers : pc'[d] # "recv" /\ (pc'[d] # "idle" => d = c)
    BY <1>0, <2>1, <2>2 DEF CallTypes
  <2>6. role' = "request" /\ proc' = "running" => Empty'
    BY <1>0, <2>1, <2>2 DEF Empty
  <2> QED
    BY <2>1, <2>3, <2>4, <2>5, <2>6 DEF PluginInv
<1>2. ASSUME NEW c \in Callers, Refuse(c) PROVE PluginInv'
  <2>1. /\ calls' = [calls EXCEPT ![c] = @ + 1] /\ got' = [got EXCEPT ![c] = None]
        /\ pc[c] = "idle" /\ UNCHANGED <<role, proc, stdin, stdout, holding, pc, holder>>
    BY <1>2 DEF Refuse
  <2>2. CallTypes' /\ OwnAnswer'
    BY <1>0, <2>1 DEF CallTypes, OwnAnswer
  <2>3. \A d \in Callers : pc'[d] = "recv" => role' = "request" /\ Only(Request(d))'
    BY <1>0, <2>1 DEF Only, CallTypes
  <2> QED
    BY <1>0, <2>1, <2>2, <2>3 DEF PluginInv, Empty
<1>3. ASSUME NEW c \in Callers, SendFails(c) \/ RecvEOF(c) PROVE PluginInv'
  <2>1. /\ pc' = [pc EXCEPT ![c] = "idle"] /\ pc[c] # "idle"
        /\ UNCHANGED <<role, proc, stdin, stdout, holding, calls, got>>
    BY <1>3 DEF SendFails, RecvEOF, CallReturns
  <2>2. \A d \in Callers : pc'[d] = "idle"
    BY <1>0, <2>1 DEF CallTypes
  <2>3. CallTypes' /\ OwnAnswer'
    BY <1>0, <2>1 DEF CallTypes, OwnAnswer
  <2>4. role' = "request" /\ proc' = "running" => Empty'
    <3>1. CASE pc[c] = "recv"
      BY <1>3, <2>1, <3>1 DEF SendFails, RecvEOF
    <3>2. CASE pc[c] # "recv"
      BY <1>0, <2>1, <3>2 DEF Empty, CallTypes
    <3> QED
      BY <3>1, <3>2
  <2> QED
    BY <2>2, <2>3, <2>4 DEF PluginInv
<1>4. ASSUME NEW c \in Callers, Send(c) PROVE PluginInv'
  <2>1. /\ pc[c] = "send" /\ proc = "running"
        /\ stdin' = Append(stdin, Request(c))
        /\ UNCHANGED <<role, proc, stdout, holding, calls, got>>
    BY <1>4 DEF Send, CallReturns
  <2>2. \A d \in Callers : d # c => pc[d] = "idle"
    BY <1>0, <2>1
  <2>3. CASE role = "write"
    <3>1. pc' = [pc EXCEPT ![c] = "idle"]
      BY <1>4, <2>3 DEF Send, CallReturns
    <3>2. CallTypes' /\ OwnAnswer' /\ \A d \in Callers : pc'[d] = "idle"
      BY <1>0, <2>1, <2>2, <3>1 DEF CallTypes, OwnAnswer
    <3> QED
      BY <2>1, <2>3, <3>2 DEF PluginInv
  <2>4. CASE role # "write"
    <3>1. pc' = [pc EXCEPT ![c] = "recv"] /\ UNCHANGED holder
      BY <1>4, <2>4 DEF Send
    <3>2. CallTypes' /\ OwnAnswer' /\ role = "request"
      BY <1>0, <2>1, <2>4, <3>1 DEF CallTypes, OwnAnswer
    <3>3. \A d \in Callers : pc'[d] # "idle" => d = c /\ holder' = c
      BY <1>0, <2>1, <2>2, <3>1 DEF CallTypes
    <3>4. Empty
      BY <1>0, <2>1, <2>2, <3>2
    <3>5. stdin' = <<Request(c)>>
      BY <2>1, <3>4 DEF Empty
    <3>6. Only(Request(c))'
      BY <2>1, <3>4, <3>5 DEF Only, Empty
    <3> QED
      BY <2>1, <3>1, <3>2, <3>3, <3>6 DEF PluginInv, CallTypes
  <2> QED
    BY <2>3, <2>4
<1>5. ASSUME NEW c \in Callers, Recv(c) PROVE PluginInv'
  <2>1. /\ pc[c] = "recv" /\ stdout # <<>>
        /\ got' = [got EXCEPT ![c] = Head(stdout)] /\ stdout' = Tail(stdout)
        /\ pc' = [pc EXCEPT ![c] = "idle"]
        /\ UNCHANGED <<role, proc, stdin, holding, calls>>
    BY <1>5 DEF Recv, CallReturns
  <2>2. stdin = <<>> /\ holding = None /\ stdout = <<Request(c)>>
    BY <1>0, <2>1 DEF Only
  <2>3. Head(stdout) = Request(c) /\ Empty'
    BY <2>1, <2>2 DEF Empty
  <2>4. CallTypes' /\ \A d \in Callers : pc'[d] = "idle"
    BY <1>0, <2>1 DEF CallTypes
  <2>5. OwnAnswer'
    BY <1>0, <2>1, <2>3 DEF OwnAnswer, CallTypes
  <2> QED
    BY <2>3, <2>4, <2>5 DEF PluginInv
<1>6. CASE PluginRead \/ PluginAnswer
  <2>1. UNCHANGED <<role, proc, holder, pc, calls, got>> /\ proc = "running"
    BY <1>6 DEF PluginRead, PluginAnswer
  <2>2. CallTypes' /\ OwnAnswer'
    BY <1>0, <2>1 DEF CallTypes, OwnAnswer
  <2>3. ~Empty
    BY <1>6 DEF PluginRead, PluginAnswer, Empty
  <2>4. ASSUME NEW c \in Callers, Only(Request(c)) PROVE Only(Request(c))'
    <3>1. PICK r \in Callers \X Nat : r = Request(c) /\ r = Request(c)'
      BY <1>0, <2>1 DEF CallTypes
    <3>2. Only(r)'
      BY <1>6, <2>4, <3>1, OnlyMoves
    <3> QED
      BY <3>1, <3>2 DEF Only
  <2> QED
    BY <1>0, <2>1, <2>2, <2>3, <2>4 DEF PluginInv
<1>7. CASE \/ PluginExit \/ PluginCancel \/ Reap \/ UNCHANGED pluginVars
           \/ \E k \in Closers : CloseStart(k) \/ CloseStep(k)
  <2>1. /\ UNCHANGED <<role, stdin, stdout, holding, holder, pc, calls, got>>
        /\ proc' = "running" => proc = "running"
    BY <1>7 DEF PluginExit, PluginCancel, Reap, pluginVars, CloseStart, CloseStep, CloseDone, CloseTimeout
  <2> QED
    BY <1>0, <2>1 DEF PluginInv, CallTypes, OwnAnswer, Only, Empty
<1> QED
  BY <1>1, <1>2, <1>3, <1>4, <1>5, <1>6, <1>7 DEF PluginNext, CallStep

(* Detect and executePlugin return the plugin's answer to the line they    *)
(* sent, whatever the plugin, the other callers and Close do.              *)
THEOREM AnswersMatch == PluginSpec => []OwnAnswer
<1>1. PluginInit => PluginInv
  BY DEF PluginInit, PluginInv, CallTypes, OwnAnswer, Empty
<1>2. PluginInv => OwnAnswer
  BY DEF PluginInv
<1> QED
  BY <1>1, <1>2, PluginStep, PTL DEF PluginSpec
-----------------------------------------------------------------------------
(* The sources: every line that came in is somewhere.                      *)

Kinds == {"stdin", "exec", "packet", "stream", "push", "pull"}

CounterTypes ==
    /\ kind \in Kinds /\ reader \in {"read", "held", "ended"}
    /\ cancelled \in BOOLEAN /\ failed \in BOOLEAN
    /\ left \in [Conns -> 0..MaxLines] /\ DOMAIN conn = Conns
    /\ buf \in Nat /\ taken \in Nat /\ sent \in Nat /\ gone \in Nat /\ broken \in Nat
    /\ linesRead \in Nat /\ parseErrors \in Nat /\ dropped \in Nat

(* Only stdin and exec have a buffer, and when their Run returns without   *)
(* being cancelled the reader has ended, the buffer empty or the read      *)
(* failed.  An entry is given up only by an exec that returns for it.      *)
BufferInv ==
    /\ ~Buffered => buf = 0 /\ reader = "read"
    /\ run = "returned" /\ Buffered =>
         cancelled \/ (reader = "ended" /\ (buf = 0 \/ failed))
    /\ gone = 0 \/ (gone = 1 /\ kind = "exec" /\ cancelled /\ run = "returned")

(* Who can have lines at hand.                                             *)
LeftInv ==
    \A c \in Conns : left[c] > 0 =>
      \/ kind \in {"packet", "pull"} /\ run = "on" /\ c = Body
      \/ kind = "stream" /\ conn[c] = "open"
      \/ kind = "push" /\ conn[c] \in {"open", "panicked"}

Settled == sent + dropped + (parseErrors - broken)
AtHand == Cardinality(Waiting)

Balanced == taken = Settled + gone + InHand + AtHand
ReadBalanced ==
    /\ kind \in {"push", "pull"} => linesRead = sent
    /\ kind = "exec" => linesRead = sent + dropped + gone + buf
    /\ kind \in {"stdin", "packet", "stream"} => linesRead = Settled + AtHand

AccountInv ==
    /\ CounterTypes /\ BufferInv /\ LeftInv /\ Balanced /\ ReadBalanced

-----------------------------------------------------------------------------
INSTANCE FiniteSetTheorems

(* The lines at hand are finitely many.                                    *)
LEMMA WaitingFinite ==
    ASSUME CounterTypes
    PROVE  IsFiniteSet(Waiting) /\ AtHand \in Nat
<1>1. IsFiniteSet(1..MaxLines)
  BY FS_Interval, IngestAssumption
<1>2. IsFiniteSet(Conns \X (1..MaxLines))
  BY <1>1, FS_Product, IngestAssumption
<1>3. Waiting \subseteq Conns \X (1..MaxLines)
  BY DEF Waiting
<1>4. IsFiniteSet(Waiting)
  BY <1>2, <1>3, FS_Subset
<1> QED
  BY <1>4, FS_CardinalityType DEF AtHand

(* A line dealt with is one fewer at hand.                                 *)
LEMMA OneFewer ==
    ASSUME CounterTypes, NEW c \in Conns, left[c] > 0,
           left' = [left EXCEPT ![c] = @ - 1]
    PROVE  left' \in [Conns -> 0..MaxLines] /\ AtHand' = AtHand - 1
<1>1. left \in [Conns -> 0..MaxLines] /\ left[c] \in 1..MaxLines
  BY IngestAssumption DEF CounterTypes
<1>2. left' \in [Conns -> 0..MaxLines]
  BY <1>1, IngestAssumption
<1>3. \A d \in Conns, k \in 1..MaxLines :
        k <= left'[d] <=> (k <= left[d] /\ <<d, k>> # <<c, left[c]>>)
  BY <1>1, IngestAssumption
<1>4. Waiting' = Waiting \ {<<c, left[c]>>}
  <2>1. \A w : w \in Waiting' <=> w \in Conns \X (1..MaxLines) /\ w[2] <= left'[w[1]]
    BY DEF Waiting
  <2>2. \A w : w \in Waiting <=> w \in Conns \X (1..MaxLines) /\ w[2] <= left[w[1]]
    BY DEF Waiting
  <2>3. \A w \in Conns \X (1..MaxLines) :
          w[2] <= left'[w[1]] <=> (w[2] <= left[w[1]] /\ w # <<c, left[c]>>)
    BY <1>3
  <2> QED
    BY <2>1, <2>2, <2>3
<1>5. <<c, left[c]>> \in Waiting
  BY <1>1 DEF Waiting
<1>6. Cardinality(Waiting \ {<<c, left[c]>>}) = Cardinality(Waiting) - 1
  BY <1>5, WaitingFinite, FS_RemoveElement
<1> QED
  BY <1>2, <1>4, <1>6 DEF AtHand

(* Lines that come in are at hand.                                         *)
LEMMA SomeMore ==
    ASSUME CounterTypes, NEW c \in Conns, left[c] = 0, NEW n \in 0..MaxLines,
           left' = [left EXCEPT ![c] = n]
    PROVE  left' \in [Conns -> 0..MaxLines] /\ AtHand' = AtHand + n
<1> DEFINE New == {c} \X (1..n)
<1>1. left \in [Conns -> 0..MaxLines] /\ n \in Nat
  BY IngestAssumption DEF CounterTypes
<1>2. left' \in [Conns -> 0..MaxLines]
  BY <1>1
<1>3. \A d \in Conns, k \in 1..MaxLines :
        k <= left'[d] <=> (k <= left[d] \/ (d = c /\ k <= n))
  BY <1>1, IngestAssumption
<1>4. Waiting' = Waiting \cup New
  <2>1. \A w : w \in Waiting' <=> w \in Conns \X (1..MaxLines) /\ w[2] <= left'[w[1]]
    BY DEF Waiting
  <2>2. \A w : w \in Waiting <=> w \in Conns \X (1..MaxLines) /\ w[2] <= left[w[1]]
    BY DEF Waiting
  <2>3. \A w \in Conns \X (1..MaxLines) :
          w[2] <= left'[w[1]] <=> (w[2] <= left[w[1]] \/ (w[1] = c /\ w[2] <= n))
    BY <1>3
  <2>4. \A w : w \in New <=> w \in Conns \X (1..MaxLines) /\ w[1] = c /\ w[2] <= n
    BY <1>1, IngestAssumption
  <2> HIDE DEF New
  <2> QED
    BY <2>1, <2>2, <2>3, <2>4
<1>5. Waiting \cap New = {}
  BY <1>1 DEF Waiting
<1>6. IsFiniteSet(New) /\ Cardinality(New) = n
  <2>1. IsFiniteSet(1..n) /\ Cardinality(1..n) = n
    BY <1>1, FS_Interval
  <2>2. IsFiniteSet({c}) /\ Cardinality({c}) = 1
    BY FS_Singleton
  <2>3. IsFiniteSet(New) /\ Cardinality(New) = 1 * n
    BY <2>1, <2>2, FS_Product
  <2> QED
    BY <1>1, <2>3
<1>7. Cardinality(Waiting \cup New) = Cardinality(Waiting) + n
  <2> HIDE DEF New
  <2>1. Cardinality(Waiting \cup New) =
          Cardinality(Waiting) + Cardinality(New) - Cardinality(Waiting \cap New)
    BY <1>6, WaitingFinite, FS_Union
  <2>2. Cardinality(Waiting \cap New) = 0
    BY <1>5, FS_EmptySet
  <2> QED
    BY <1>1, <1>6, <2>1, <2>2, WaitingFinite DEF AtHand
<1> QED
  BY <1>2, <1>4, <1>7 DEF AtHand

(* A line that the loop deals with is counted once.                        *)
LEMMA OneFate ==
    ASSUME CounterTypes, Malformed \/ Offer, broken' = broken
    PROVE  /\ sent' \in Nat /\ dropped' \in Nat /\ parseErrors' \in Nat
           /\ Settled' = Settled + 1 /\ Settled \in Int
           /\ sent' - sent \in {0, 1}
<1>1. \/ sent' = sent + 1 /\ dropped' = dropped /\ parseErrors' = parseErrors
      \/ sent' = sent /\ dropped' = dropped + 1 /\ parseErrors' = parseErrors
      \/ sent' = sent /\ dropped' = dropped /\ parseErrors' = parseErrors + 1
  BY DEF Malformed, Offer
<1>2. sent \in Nat /\ dropped \in Nat /\ parseErrors \in Nat /\ broken \in Nat
  BY DEF CounterTypes
<1>3. /\ sent' \in Nat /\ dropped' \in Nat /\ parseErrors' \in Nat
      /\ sent' - sent \in {0, 1}
  BY <1>1, <1>2
<1>4. Settled' = Settled + 1 /\ Settled \in Int
  BY <1>1, <1>2 DEF Settled
<1> QED
  BY <1>3, <1>4

(* The balance follows from what a step adds to its terms.                 *)
LEMMA Sum ==
    ASSUME CounterTypes, Balanced,
           NEW t \in Int, taken' = taken + t,
           NEW s \in Int, Settled' = Settled + s,
           NEW g \in Int, gone' = gone + g,
           NEW h \in Int, InHand' = InHand + h,
           NEW a \in Int, AtHand' = AtHand + a,
           t = s + g + h + a
    PROVE  Balanced'
<1>1. Settled \in Int /\ InHand \in Int /\ AtHand \in Int /\ gone \in Int /\ taken \in Int
  BY WaitingFinite DEF CounterTypes, Settled, InHand
<1>2. taken' = Settled' + gone' + InHand' + AtHand'
  BY <1>1 DEF Balanced
<1> QED
  BY <1>2 DEF Balanced

(* What the counters and the lines at hand add up to is a number.          *)
LEMMA SumTypes ==
    ASSUME CounterTypes
    PROVE  Settled \in Int /\ InHand \in Int /\ AtHand \in Int
BY WaitingFinite DEF CounterTypes, Settled, InHand

(* The counters alone decide Settled and, with left, AtHand.               *)
LEMMA SumsStay ==
    /\ UNCHANGED <<sent, dropped, parseErrors, broken>> => Settled' = Settled
    /\ UNCHANGED left => AtHand' = AtHand
    /\ UNCHANGED <<buf, reader>> => InHand' = InHand
BY DEF Settled, AtHand, Waiting, InHand

(* Reading, buffering and forwarding keep the accounts.                    *)
LEMMA BufferedStep == AccountInv /\ BufferedNext => AccountInv'
<1> SUFFICES ASSUME AccountInv, BufferedNext PROVE AccountInv'
  OBVIOUS
<1> USE DEF chanVars, statVars, connVars, histVars, Kinds
<1>0. CounterTypes /\ BufferInv /\ LeftInv /\ Balanced /\ ReadBalanced
  BY DEF AccountInv
<1>a. Settled \in Int /\ InHand \in Int /\ AtHand \in Int
  BY <1>0, SumTypes
<1>b. Buffered /\ kind \in {"stdin", "exec"}
  BY <1>0 DEF BufferedNext, ReadLine, PutLine, ReadEnds, Forward, ForwardCancelled, LoopEnds,
     Buffered, BufferInv, CounterTypes
<1>c. UNCHANGED <<kind, cancelled, left, conn, broken>>
  BY DEF BufferedNext, ReadLine, PutLine, ReadEnds, Forward, ForwardCancelled, LoopEnds, Returns
<1>d. AtHand' = AtHand /\ LeftInv'
  <2>1. AtHand' = AtHand
    BY <1>c, SumsStay
  <2>2. LeftInv'
    BY <1>0, <1>b, <1>c DEF LeftInv
  <2> QED
    BY <2>1, <2>2
<1>1. CASE ReadLine
  <2>1. /\ reader = "read" /\ reader' = "held" /\ taken' = taken + 1
        /\ UNCHANGED <<run, failed, buf, sent, dropped, parseErrors, linesRead, gone>>
    BY <1>1 DEF ReadLine, Take
  <2>2. CounterTypes'
    BY <1>0, <1>c, <2>1 DEF CounterTypes
  <2>3. BufferInv'
    BY <1>0, <1>b, <1>c, <2>1 DEF BufferInv, Buffered
  <2>4. InHand' = InHand + 1 /\ Settled' = Settled
    BY <1>0, <1>c, <2>1, SumsStay DEF InHand, CounterTypes
  <2>5. Balanced'
    <3>1. gone' = gone + 0 /\ Settled' = Settled + 0 /\ AtHand' = AtHand + 0
      BY <1>0, <1>a, <1>d, <2>1, <2>4 DEF CounterTypes
    <3> QED
      BY <1>0, <2>1, <2>4, <3>1, Sum
  <2>6. ReadBalanced'
    BY <1>0, <1>c, <1>d, <2>1, <2>4 DEF ReadBalanced
  <2> QED
    BY <1>d, <2>2, <2>3, <2>5, <2>6 DEF AccountInv
<1>2. CASE PutLine
  <2>1. /\ reader = "held" /\ reader' = "read"
        /\ UNCHANGED <<run, failed, taken, sent, gone>>
        /\ \/ /\ buf' = buf + 1 /\ UNCHANGED <<parseErrors, dropped>>
              /\ linesRead' = IF kind = "stdin" THEN linesRead ELSE linesRead + 1
           \/ /\ kind # "stdin" /\ UNCHANGED <<buf, dropped, linesRead>>
              /\ parseErrors' = parseErrors + 1
           \/ /\ kind # "stdin" /\ UNCHANGED <<buf, parseErrors>>
              /\ dropped' = dropped + 1 /\ linesRead' = linesRead + 1
    BY <1>2 DEF PutLine, Malformed
  <2>2. CounterTypes'
    BY <1>0, <1>c, <2>1 DEF CounterTypes
  <2>3. BufferInv'
    BY <1>0, <1>b, <1>c, <2>1 DEF BufferInv, Buffered
  <2>4. \/ InHand' = InHand + 0 /\ Settled' = Settled + 0
        \/ InHand' = InHand + (-1) /\ Settled' = Settled + 1
    BY <1>0, <1>c, <2>1 DEF InHand, Settled, CounterTypes
  <2>5. Balanced'
    <3>1. gone' = gone + 0 /\ taken' = taken + 0 /\ AtHand' = AtHand + 0
      BY <1>0, <1>a, <1>d, <2>1 DEF CounterTypes
    <3> QED
      BY <1>0, <2>4, <3>1, Sum
  <2>6. ReadBalanced'
    <3>1. CASE kind = "stdin"
      <4>1. Settled' = Settled /\ linesRead' = linesRead
        BY <1>c, <2>1, <3>1, SumsStay
      <4> QED
        BY <1>0, <1>c, <1>d, <3>1, <4>1 DEF ReadBalanced
    <3>2. CASE kind = "exec"
      BY <1>0, <1>c, <2>1, <3>2 DEF ReadBalanced, CounterTypes
    <3> QED
      BY <1>b, <3>1, <3>2
  <2> QED
    BY <1>d, <2>2, <2>3, <2>5, <2>6 DEF AccountInv
<1>3. CASE ReadEnds \/ LoopEnds
  <2>1. /\ UNCHANGED <<buf, taken, sent, gone, dropped, parseErrors, linesRead>>
        /\ \/ /\ reader = "read" /\ reader' = "ended" /\ failed' \in BOOLEAN
              /\ UNCHANGED run
           \/ /\ UNCHANGED <<reader, failed>> /\ run' = "returned"
              /\ cancelled \/ (reader = "ended" /\ (buf = 0 \/ failed))
    BY <1>3 DEF ReadEnds, LoopEnds, Returns
  <2>2. CounterTypes'
    BY <1>0, <1>c, <2>1 DEF CounterTypes
  <2>3. BufferInv'
    BY <1>0, <1>b, <1>c, <2>1 DEF BufferInv, Buffered
  <2>4. InHand' = InHand
    BY <2>1 DEF InHand
  <2>5. Settled' = Settled
    BY <1>c, <2>1, SumsStay
  <2>6. Balanced'
    BY <1>0, <1>d, <2>1, <2>4, <2>5 DEF Balanced
  <2>7. ReadBalanced'
    BY <1>0, <1>c, <1>d, <2>1, <2>5 DEF ReadBalanced
  <2> QED
    BY <1>d, <2>2, <2>3, <2>6, <2>7 DEF AccountInv
<1>4. CASE Forward
  <2>1. /\ buf > 0 /\ buf' = buf - 1 /\ run = "on" /\ (Malformed \/ Offer)
        /\ UNCHANGED <<run, failed, reader, taken, gone>>
        /\ linesRead' = IF kind = "stdin" THEN linesRead + 1 ELSE linesRead
        /\ kind = "exec" => Offer
    BY <1>4 DEF Forward
  <2>2. /\ sent' \in Nat /\ dropped' \in Nat /\ parseErrors' \in Nat
        /\ Settled' = Settled + 1
    BY <1>0, <1>c, <2>1, OneFate
  <2>3. CounterTypes'
    BY <1>0, <1>c, <2>1, <2>2 DEF CounterTypes
  <2>4. BufferInv'
    BY <1>0, <1>b, <1>c, <2>1 DEF BufferInv, Buffered
  <2>5. InHand' = InHand + (-1)
    BY <1>0, <2>1 DEF InHand, CounterTypes
  <2>6. Balanced'
    <3>1. gone' = gone + 0 /\ taken' = taken + 0 /\ AtHand' = AtHand + 0
      BY <1>0, <1>a, <1>d, <2>1 DEF CounterTypes
    <3> QED
      BY <1>0, <2>2, <2>5, <3>1, Sum
  <2>7. ReadBalanced'
    <3>1. CASE kind = "stdin"
      <4>1. linesRead' = Settled' + AtHand'
        BY <1>0, <1>a, <1>d, <2>1, <2>2, <3>1 DEF ReadBalanced
      <4> QED
        BY <1>c, <3>1, <4>1 DEF ReadBalanced
    <3>2. CASE kind = "exec"
      <4>0. \/ sent' = sent + 1 /\ dropped' = dropped
            \/ sent' = sent /\ dropped' = dropped + 1
        BY <2>1, <3>2 DEF Offer
      <4>2. linesRead = sent + dropped + gone + buf
        BY <1>0, <3>2 DEF ReadBalanced
      <4>3. linesRead' = sent' + dropped' + gone' + buf'
        BY <1>0, <2>1, <3>2, <4>0, <4>2 DEF CounterTypes
      <4> QED
        BY <1>c, <3>2, <4>3 DEF ReadBalanced
    <3> QED
      BY <1>b, <3>1, <3>2
  <2> QED
    BY <1>d, <2>3, <2>4, <2>6, <2>7 DEF AccountInv
<1>5. CASE ForwardCancelled
  <2>1. /\ buf > 0 /\ buf' = buf - 1 /\ gone' = gone + 1 /\ run = "on" /\ run' = "returned"
        /\ kind = "exec" /\ cancelled
        /\ UNCHANGED <<failed, reader, taken, sent, dropped, parseErrors, linesRead>>
    BY <1>5 DEF ForwardCancelled
  <2>2. CounterTypes'
    BY <1>0, <1>c, <2>1 DEF CounterTypes
  <2>3. BufferInv'
    BY <1>0, <1>b, <1>c, <2>1 DEF BufferInv, Buffered
  <2>4. InHand' = InHand + (-1) /\ Settled' = Settled + 0
    BY <1>0, <1>a, <1>c, <2>1, SumsStay DEF InHand, CounterTypes
  <2>5. Balanced'
    <3>1. taken' = taken + 0 /\ AtHand' = AtHand + 0
      BY <1>0, <1>a, <1>d, <2>1 DEF CounterTypes
    <3> QED
      BY <1>0, <2>1, <2>4, <3>1, Sum
  <2>6. ReadBalanced'
    BY <1>0, <1>c, <2>1 DEF ReadBalanced, CounterTypes
  <2> QED
    BY <1>d, <2>2, <2>3, <2>5, <2>6 DEF AccountInv
<1> QED
  BY <1>1, <1>2, <1>3, <1>4, <1>5 DEF BufferedNext

(* The lines of datagrams, connections, requests and bodies are accounted  *)
(* for when they come in.                                                  *)
LEMMA ArrivalStep ==
    ASSUME AccountInv, NEW c \in Conns,
           ReadPacket \/ ConnLine(c) \/ PushRequest(c) \/ PullFetch
    PROVE  AccountInv'
<1> USE DEF chanVars, statVars, connVars, readVars, Kinds
<1>0. CounterTypes /\ BufferInv /\ LeftInv /\ Balanced /\ ReadBalanced
  BY DEF AccountInv
<1>a. Settled \in Int /\ InHand \in Int /\ AtHand \in Int
  BY <1>0, SumTypes
<1>b. Body \in Conns
  BY IngestAssumption DEF Body
<1>1. UNCHANGED <<kind, run, cancelled, failed, reader, buf, sent, dropped, parseErrors,
                  gone, broken>>
  BY DEF ReadPacket, ConnLine, PushRequest, PullFetch
<1>c. DOMAIN conn' = DOMAIN conn
  BY DEF ReadPacket, ConnLine, PushRequest, PullFetch, SetConn
<1>2. CASE PushRequest(c) /\ UNCHANGED <<left, taken>>
  <2>1. UNCHANGED linesRead /\ \A d \in Conns : d # c => conn'[d] = conn[d]
    <3>1. \E v : conn' = [conn EXCEPT ![c] = v]
      BY <1>2 DEF PushRequest, SetConn
    <3>2. \A d \in Conns : d # c => conn'[d] = conn[d]
      BY <1>0, <3>1 DEF CounterTypes
    <3> QED
      BY <1>2, <3>2 DEF PushRequest
  <2>2. left[c] = 0
    <3>1. kind = "push" /\ conn[c] = "none"
      BY <1>2 DEF PushRequest
    <3> QED
      BY <1>0, <3>1 DEF LeftInv, CounterTypes
  <2>3. CounterTypes'
    BY <1>0, <1>1, <1>2, <1>c, <2>1 DEF CounterTypes
  <2>4. BufferInv'
    BY <1>0, <1>1 DEF BufferInv, Buffered
  <2>5. LeftInv'
    <3>1. \A d \in Conns : left[d] > 0 => d # c
      BY <2>2
    <3> QED
      BY <1>0, <1>1, <1>2, <2>1, <3>1 DEF LeftInv
  <2>6. Settled' = Settled /\ AtHand' = AtHand /\ InHand' = InHand
    BY <1>1, <1>2, SumsStay
  <2>7. Balanced' /\ ReadBalanced'
    BY <1>0, <1>1, <1>2, <2>1, <2>6 DEF Balanced, ReadBalanced
  <2> QED
    BY <2>3, <2>4, <2>5, <2>7 DEF AccountInv
<1>3. ASSUME NEW d \in Conns, NEW n \in 0..MaxLines, taken' = taken + n,
             left[d] = 0, left' = [left EXCEPT ![d] = n],
             \/ /\ kind \in {"packet", "stream"} /\ linesRead' = linesRead + n
             \/ /\ kind \in {"push", "pull"} /\ UNCHANGED linesRead,
             LeftInv'
      PROVE  AccountInv'
  <2>0. n \in Nat
    BY <1>3, IngestAssumption
  <2>1. left' \in [Conns -> 0..MaxLines] /\ AtHand' = AtHand + n
    BY <1>0, <1>3, SomeMore
  <2>2. CounterTypes'
    <3>1. taken' \in Nat /\ linesRead' \in Nat
      <4>1. taken \in Nat /\ linesRead \in Nat
        BY <1>0 DEF CounterTypes
      <4> QED
        BY <1>3, <2>0, <4>1
    <3>2. UNCHANGED <<kind, cancelled, failed, reader, buf, sent, dropped, parseErrors, gone, broken>>
      BY <1>1
    <3> QED
      BY <1>0, <1>c, <2>1, <3>1, <3>2, Zenon DEF CounterTypes
  <2>3. BufferInv'
    BY <1>0, <1>1 DEF BufferInv, Buffered
  <2>4. Settled' = Settled /\ InHand' = InHand
    BY <1>1, SumsStay
  <2>5. Balanced'
    <3>1. gone' = gone + 0 /\ Settled' = Settled + 0 /\ InHand' = InHand + 0
      BY <1>0, <1>1, <1>a, <2>4 DEF CounterTypes
    <3> QED
      BY <1>0, <1>3, <2>0, <2>1, <3>1, Sum
  <2>6. ReadBalanced'
    <3>1. kind \in {"packet", "stream"} => linesRead' = Settled' + AtHand'
      BY <1>0, <1>3, <1>a, <2>0, <2>1, <2>4 DEF ReadBalanced
    <3> QED
      BY <1>0, <1>1, <1>3, <3>1 DEF ReadBalanced
  <2> QED
    BY <1>3, <2>2, <2>3, <2>5, <2>6 DEF AccountInv
<1>5. CASE ReadPacket
  <2>1. /\ kind = "packet" /\ run = "on" /\ left[Body] = 0 /\ taken + 1 <= MaxLines
        /\ taken' = taken + 1 /\ left' = [left EXCEPT ![Body] = 1]
        /\ linesRead' = linesRead + 1
    BY <1>5 DEF ReadPacket, Take
  <2>2. 1 \in 0..MaxLines
    BY <1>0, <2>1, IngestAssumption DEF CounterTypes
  <2>3. LeftInv'
    BY <1>0, <1>1, <2>1 DEF LeftInv, CounterTypes
  <2> QED
    BY <1>b, <1>3, <2>1, <2>2, <2>3
<1>6. CASE ConnLine(c)
  <2>1. /\ kind = "stream" /\ conn[c] = "open" /\ left[c] = 0 /\ taken + 1 <= MaxLines
        /\ taken' = taken + 1 /\ left' = [left EXCEPT ![c] = 1]
        /\ linesRead' = linesRead + 1 /\ conn' = conn
    BY <1>6 DEF ConnLine, Take
  <2>2. 1 \in 0..MaxLines
    BY <1>0, <2>1, IngestAssumption DEF CounterTypes
  <2>3. LeftInv'
    BY <1>0, <1>1, <2>1 DEF LeftInv, CounterTypes
  <2> QED
    BY <1>3, <2>1, <2>2, <2>3
<1>7. CASE PushRequest(c) /\ ~UNCHANGED <<left, taken>>
  <2>1. /\ kind = "push" /\ conn[c] = "none" /\ conn' = [conn EXCEPT ![c] = "open"]
        /\ linesRead' = linesRead
        /\ \E n \in 0..MaxLines : taken' = taken + n /\ left' = [left EXCEPT ![c] = n]
    BY <1>7 DEF PushRequest, SetConn, Take
  <2>2. PICK n \in 0..MaxLines : taken' = taken + n /\ left' = [left EXCEPT ![c] = n]
    BY <2>1
  <2>3. left[c] = 0
    BY <1>0, <2>1 DEF LeftInv, CounterTypes
  <2>4. LeftInv'
    <3> SUFFICES ASSUME NEW d \in Conns, left'[d] > 0 PROVE conn'[d] \in {"open", "panicked"}
      BY <1>1, <2>1 DEF LeftInv
    <3>1. CASE d = c
      BY <1>0, <2>1, <3>1 DEF CounterTypes
    <3>2. CASE d # c
      BY <1>0, <2>1, <2>2, <3>2 DEF LeftInv, CounterTypes
    <3> QED
      BY <3>1, <3>2
  <2> QED
    BY <1>3, <2>1, <2>2, <2>3, <2>4
<1>8. CASE PullFetch
  <2>1. /\ kind = "pull" /\ run = "on" /\ left[Body] = 0 /\ linesRead' = linesRead
        /\ \E n \in 1..MaxLines : taken' = taken + n /\ left' = [left EXCEPT ![Body] = n]
    BY <1>8 DEF PullFetch, Take
  <2>2. PICK n \in 1..MaxLines : taken' = taken + n /\ left' = [left EXCEPT ![Body] = n]
    BY <2>1
  <2>3. LeftInv'
    BY <1>0, <1>1, <2>1, <2>2 DEF LeftInv, CounterTypes
  <2>4. n \in 0..MaxLines
    BY <2>2, IngestAssumption
  <2> QED
    BY <1>b, <1>3, <2>1, <2>2, <2>3, <2>4
<1> QED
  BY <1>2, <1>5, <1>6, <1>7, <1>8

(* A line at hand is dealt with once.                                      *)
LEMMA RecordStep ==
    ASSUME AccountInv, NEW c \in Conns, Record(c), kind \in {"packet", "stream", "push", "pull"}
    PROVE  AccountInv'
<1> USE DEF readVars, histVars, Kinds
<1>0. CounterTypes /\ BufferInv /\ LeftInv /\ Balanced /\ ReadBalanced
  BY DEF AccountInv
<1>a. Settled \in Int /\ InHand \in Int /\ AtHand \in Int
  BY <1>0, SumTypes
<1>1. /\ UNCHANGED <<kind, run, cancelled, failed, reader, buf, conn, taken, gone, broken>>
      /\ left[c] > 0 /\ left' = [left EXCEPT ![c] = @ - 1]
      /\ Malformed \/ Offer
      /\ linesRead' = IF kind \in {"push", "pull"} THEN linesRead + (sent' - sent) ELSE linesRead
  BY DEF Record
<1>2. /\ sent' \in Nat /\ dropped' \in Nat /\ parseErrors' \in Nat
      /\ Settled' = Settled + 1 /\ sent' - sent \in {0, 1}
  BY <1>0, <1>1, OneFate
<1>3. left' \in [Conns -> 0..MaxLines] /\ AtHand' = AtHand + (-1)
  BY <1>0, <1>1, <1>a, OneFewer
<1>4. CounterTypes'
  <2>0. linesRead \in Nat
    BY <1>0 DEF CounterTypes
  <2>1. linesRead' \in Nat
    BY <1>1, <1>2, <2>0
  <2> QED
    BY <1>0, <1>1, <1>2, <1>3, <2>1 DEF CounterTypes
<1>5. BufferInv'
  BY <1>0, <1>1 DEF BufferInv, Buffered
<1>6. LeftInv'
  <2>1. \A d \in Conns : left'[d] > 0 => left[d] > 0
    BY <1>0, <1>1 DEF CounterTypes
  <2> QED
    BY <1>0, <1>1, <2>1 DEF LeftInv
<1>7. InHand' = InHand + 0 /\ gone' = gone + 0 /\ taken' = taken + 0
  BY <1>0, <1>1, <1>a, SumsStay DEF CounterTypes
<1>8. Balanced'
  BY <1>0, <1>2, <1>3, <1>7, Sum
<1>9. ReadBalanced'
  <2>0. sent \in Nat /\ (kind \in {"push", "pull"} => linesRead = sent)
    BY <1>0 DEF ReadBalanced, CounterTypes
  <2>1. kind \in {"push", "pull"} => linesRead' = sent'
    BY <1>1, <1>2, <2>0
  <2>2. kind \in {"packet", "stream"} => linesRead' = Settled' + AtHand'
    BY <1>0, <1>1, <1>2, <1>3, <1>a DEF ReadBalanced
  <2> QED
    BY <1>1, <2>1, <2>2 DEF ReadBalanced
<1> QED
  BY <1>4, <1>5, <1>6, <1>8, <1>9 DEF AccountInv

(* The steps that move no line keep the accounts.                          *)
LEMMA OtherStep ==
    ASSUME AccountInv, StreamInv,
           \/ PacketEnds \/ StreamReturns \/ PushReturns \/ PullEnds
           \/ AcceptEnds \/ CloseOut \/ IngestReceive \/ IngestCancel \/ UNCHANGED ingestVars
           \/ \E c \in Conns : Accept(c) \/ Serve(c) \/ ConnEnds(c) \/ PushPanics(c) \/ PushAck(c)
    PROVE  AccountInv'
<1> USE DEF chanVars, statVars, readVars, histVars, connVars, Kinds
<1>0. CounterTypes /\ BufferInv /\ LeftInv /\ Balanced /\ ReadBalanced
  BY DEF AccountInv
<1>a. DOMAIN conn = Conns /\ cancelled \in BOOLEAN
  BY <1>0 DEF CounterTypes
<1> DEFINE Kept == UNCHANGED <<kind, failed, reader, buf, left, taken, sent, gone, dropped,
                               linesRead>>
           Errors == \/ parseErrors' = parseErrors + 1 /\ broken' = broken + 1
                     \/ UNCHANGED <<parseErrors, broken>>
           Fits(c) == \/ kind \in {"packet", "pull"} /\ run' = "on" /\ c = Body
                      \/ kind = "stream" /\ conn'[c] = "open"
                      \/ kind = "push" /\ conn'[c] \in {"open", "panicked"}
           Ends == (Buffered => (run' = "returned" => run = "returned"))
                   /\ (run = "returned" => run' = "returned")
           Effect == /\ Kept /\ Errors /\ Ends
                     /\ cancelled' \in BOOLEAN /\ (cancelled => cancelled')
                     /\ DOMAIN conn' = Conns
                     /\ \A c \in Conns : left[c] > 0 => Fits(c)
<1>b. \A c \in Conns : left[c] > 0 =>
        \/ kind \in {"packet", "pull"} /\ run = "on" /\ c = Body
        \/ kind = "stream" /\ conn[c] = "open"
        \/ kind = "push" /\ conn[c] \in {"open", "panicked"}
  BY <1>0 DEF LeftInv
<1>1. ASSUME PacketEnds \/ StreamReturns \/ PushReturns \/ PullEnds PROVE Effect
  <2>1. /\ Kept /\ UNCHANGED <<parseErrors, broken, cancelled, conn>> /\ run' = "returned"
    BY <1>1 DEF PacketEnds, StreamReturns, PushReturns, PullEnds, Returns
  <2>2. /\ kind \in {"packet", "stream", "push", "pull"}
        /\ kind \in {"packet", "pull"} => left[Body] = 0
        /\ kind = "stream" => Serving = {}
    BY <1>1 DEF PacketEnds, StreamReturns, PushReturns, PullEnds
  <2>3. ASSUME NEW c \in Conns, left[c] > 0 PROVE Fits(c)
    <3>1. CASE kind \in {"packet", "pull"}
      <4>1. c = Body
        BY <1>b, <2>3, <3>1
      <4>2. left[c] = 0
        BY <2>2, <3>1, <4>1, Zenon
      <4>3. FALSE
        BY <2>3, <4>2
      <4> QED
        BY <4>3, Zenon
    <3>2. CASE kind = "stream"
      <4>1. conn[c] = "open"
        BY <1>b, <2>3, <3>2
      <4> QED
        BY <2>2, <3>2, <4>1 DEF Serving
    <3>3. CASE kind = "push"
      <4>1. conn[c] \in {"open", "panicked"} /\ conn' = conn
        BY <1>b, <2>1, <2>3, <3>3
      <4> QED
        BY <3>3, <4>1
    <3> QED
      BY <2>2, <3>1, <3>2, <3>3
  <2> QED
    BY <1>a, <2>1, <2>2, <2>3 DEF Buffered
<1>2. ASSUME AcceptEnds PROVE Effect
  <2>1. /\ Kept /\ UNCHANGED <<parseErrors, broken, cancelled>>
        /\ kind = "stream" /\ run = "on" /\ run' = "drain"
        /\ conn' = [c \in Conns |-> IF conn[c] = "accepted" THEN "closed" ELSE conn[c]]
    BY <1>2 DEF AcceptEnds
  <2>2. \A c \in Conns : left[c] > 0 => Fits(c)
    BY <1>b, <2>1
  <2> QED
    BY <1>a, <2>1, <2>2
<1>3. ASSUME CloseOut \/ IngestReceive \/ IngestCancel \/ UNCHANGED ingestVars PROVE Effect
  <2>0. Kept /\ UNCHANGED <<parseErrors, broken, run, conn>>
    BY <1>3 DEF CloseOut, IngestReceive, IngestCancel, ingestVars
  <2>3. cancelled' = TRUE \/ cancelled' = cancelled
    BY <1>3 DEF CloseOut, IngestReceive, IngestCancel, ingestVars
  <2>1. /\ Kept /\ UNCHANGED <<parseErrors, broken, run, conn>>
        /\ cancelled' \in BOOLEAN /\ (cancelled => cancelled')
    BY <1>a, <2>0, <2>3
  <2>2. \A c \in Conns : left[c] > 0 => Fits(c)
    BY <1>b, <2>1
  <2> QED
    BY <1>a, <2>1, <2>2
<1>4. ASSUME NEW c \in Conns, Accept(c) \/ Serve(c) \/ ConnEnds(c) \/ PushPanics(c) \/ PushAck(c)
      PROVE  Effect
  <2>1. Kept /\ Errors /\ UNCHANGED <<cancelled, run>>
    BY <1>4 DEF Accept, Serve, ConnEnds, PushPanics, PushAck
  <2>2. PICK v \in {"accepted", "open", "closed", "panicked", "acked"} :
          /\ conn' = [conn EXCEPT ![c] = v]
          /\ v \in {"closed", "acked"} => left[c] = 0
          /\ v \in {"accepted", "open"} => conn[c] \in {"none", "accepted"}
          /\ v = "panicked" => kind = "push"
    BY <1>4 DEF Accept, Serve, ConnEnds, PushPanics, PushAck, SetConn
  <2>3. kind \notin {"packet", "pull"}
    BY <1>4 DEF Accept, Serve, ConnEnds, PushPanics, PushAck, StreamInv
  <2>4. DOMAIN conn' = Conns /\ conn'[c] = v /\ \A d \in Conns : d # c => conn'[d] = conn[d]
    BY <1>a, <2>2
  <2>5. ASSUME NEW d \in Conns, left[d] > 0 PROVE Fits(d)
    <3>1. \/ kind = "stream" /\ conn[d] = "open"
          \/ kind = "push" /\ conn[d] \in {"open", "panicked"}
      BY <1>b, <2>3, <2>5
    <3>2. CASE d # c
      <4>1. conn'[d] = conn[d]
        BY <2>4, <3>2
      <4> QED
        BY <3>1, <4>1
    <3>3. CASE d = c
      <4>1. v = "panicked" /\ kind = "push"
        BY <2>2, <2>5, <3>1, <3>3
      <4> QED
        BY <2>4, <3>3, <4>1
    <3> QED
      BY <3>2, <3>3
  <2> QED
    BY <1>a, <2>1, <2>4, <2>5
<1>c. Effect
  BY <1>1, <1>2, <1>3, <1>4
<1>d. /\ UNCHANGED <<kind, failed, reader, buf, left, taken, sent, gone, dropped, linesRead>>
      /\ DOMAIN conn' = Conns /\ cancelled' \in BOOLEAN
  BY <1>c
<1>e. Errors
  BY <1>c
<1>f. parseErrors' \in Nat /\ broken' \in Nat /\ parseErrors' - broken' = parseErrors - broken
  BY <1>0, <1>e DEF CounterTypes
<1>5. CounterTypes'
  <2> HIDE DEF Effect, Kept, Errors, Fits, Ends
  <2> QED
    BY <1>0, <1>d, <1>f, Zenon DEF CounterTypes
<1>6. BufferInv'
  BY <1>0, <1>c DEF BufferInv, Buffered
<1>7. Settled' = Settled /\ AtHand' = AtHand /\ InHand' = InHand
  <2>1. Settled' = Settled
    BY <1>d, <1>f, Zenon DEF Settled
  <2> QED
    BY <1>d, <2>1, SumsStay
<1>8. Balanced' /\ ReadBalanced'
  BY <1>0, <1>c, <1>7 DEF Balanced, ReadBalanced
<1>9. LeftInv'
  BY <1>c DEF LeftInv
<1> QED
  BY <1>5, <1>6, <1>8, <1>9 DEF AccountInv

(* Each step keeps the accounts.                                           *)
LEMMA AccountStep == AccountInv /\ StreamInv /\ [IngestNext]_ingestVars => AccountInv'
<1> SUFFICES ASSUME AccountInv, StreamInv, [IngestNext]_ingestVars PROVE AccountInv'
  OBVIOUS
<1>1. Body \in Conns
  BY IngestAssumption DEF Body
<1>2. CASE BufferedNext
  BY <1>2, BufferedStep
<1>3. CASE \/ ReadPacket \/ PullFetch \/ \E c \in Conns : ConnLine(c) \/ PushRequest(c)
  BY <1>1, <1>3, ArrivalStep
<1>4. CASE PacketRecord \/ PullRecord \/ \E c \in Conns : ConnRecord(c) \/ PushRecord(c)
  <2>1. PICK c \in Conns : Record(c) /\ kind \in {"packet", "stream", "push", "pull"}
    BY <1>1, <1>4 DEF PacketRecord, PullRecord, ConnRecord, PushRecord
  <2> QED
    BY <2>1, RecordStep
<1>5. CASE \/ PacketEnds \/ StreamReturns \/ PushReturns \/ PullEnds
           \/ AcceptEnds \/ CloseOut \/ IngestReceive \/ IngestCancel \/ UNCHANGED ingestVars
           \/ \E c \in Conns : Accept(c) \/ Serve(c) \/ ConnEnds(c) \/ PushPanics(c) \/ PushAck(c)
  BY <1>5, OtherStep
<1> QED
  BY <1>2, <1>3, <1>4, <1>5 DEF IngestNext, ConnNext, PullNext

(* Every line that came in is sent, counted, given up by an exec that was  *)
(* cancelled, in the buffer or at hand.  What is in the buffer of a source *)
(* that returned is lost only after cancellation or a read error, and what *)
(* is at hand of one only with push, whose peer gets no acknowledgement.   *)
THEOREM LinesAccounted == IngestSpec => []EveryLineAccounted
<1>1. IngestInit => AccountInv
  <2> SUFFICES ASSUME IngestInit PROVE AccountInv
    OBVIOUS
  <2>0. left \in [Conns -> 0..MaxLines] /\ DOMAIN conn = Conns
    BY IngestAssumption DEF IngestInit
  <2>1. CounterTypes
    BY <2>0 DEF IngestInit, CounterTypes, Kinds
  <2>2. BufferInv /\ LeftInv
    BY DEF IngestInit, BufferInv, LeftInv
  <2>3. Waiting = {}
    BY DEF IngestInit, Waiting
  <2>4. AtHand = 0
    BY <2>3, FS_EmptySet DEF AtHand
  <2>5. Settled = 0 /\ InHand = 0
    BY DEF IngestInit, Settled, InHand
  <2>6. Balanced /\ ReadBalanced
    BY <2>4, <2>5 DEF IngestInit, Balanced, ReadBalanced
  <2> QED
    BY <2>1, <2>2, <2>6 DEF AccountInv
<1>2. IngestInit => StreamInv
  BY DEF IngestInit, StreamInv
<1>3. AccountInv /\ StreamInv => EveryLineAccounted
  <2> SUFFICES ASSUME AccountInv, StreamInv PROVE EveryLineAccounted
    OBVIOUS
  <2>0. CounterTypes /\ BufferInv /\ LeftInv /\ Balanced /\ ReadBalanced
    BY DEF AccountInv
  <2>1. taken = sent + dropped + (parseErrors - broken) + gone + InHand + Cardinality(Waiting)
    BY <2>0 DEF Balanced, Settled, AtHand
  <2>2. linesRead = LinesRead
    <3>1. CASE kind \in {"push", "pull"}
      BY <2>0, <3>1 DEF ReadBalanced, LinesRead
    <3>2. CASE kind = "exec"
      BY <2>0, <3>2 DEF ReadBalanced, LinesRead
    <3>3. CASE kind \in {"stdin", "packet", "stream"}
      <4>1. linesRead = sent + dropped + (parseErrors - broken) + Cardinality(Waiting)
        BY <2>0, <3>3 DEF ReadBalanced, Settled, AtHand
      <4> QED
        BY <3>3, <4>1 DEF LinesRead
    <3> QED
      BY <2>0, <3>1, <3>2, <3>3 DEF CounterTypes, Kinds
  <2>3. gone = 0 \/ (gone = 1 /\ kind = "exec" /\ cancelled /\ run = "returned")
    BY <2>0 DEF BufferInv
  <2>4. run = "returned" /\ InHand > 0 => cancelled \/ failed
    BY <2>0 DEF BufferInv, InHand, Buffered, CounterTypes
  <2>5. ASSUME NEW c \in Conns, left[c] > 0
        PROVE  (run = "returned" => kind = "push") /\ conn[c] # "acked"
    <3>1. CASE kind \in {"packet", "pull"}
      BY <2>0, <2>5, <3>1 DEF LeftInv, StreamInv
    <3>2. CASE kind \in {"stream", "push"}
      BY <2>0, <2>5, <3>2 DEF LeftInv, StreamInv
    <3> QED
      BY <2>0, <2>5, <3>1, <3>2 DEF LeftInv
  <2> QED
    BY <2>1, <2>2, <2>3, <2>4, <2>5 DEF EveryLineAccounted
<1> QED
  BY <1>1, <1>2, <1>3, AccountStep, StreamStep, PTL DEF IngestSpec

=============================================================================
