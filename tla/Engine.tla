------------------------------- MODULE Engine -------------------------------
(***************************************************************************)
(* The stream engine of pkg/runtime/engine.go with the fan-in of           *)
(* pkg/input/merge.go.  Run starts one goroutine for each pipeline of the  *)
(* stream.  A pipeline builds its state, starts its sources (one goroutine *)
(* each, all sending without blocking to one bounded channel, entries),    *)
(* and then selects between shutdown, reload and the next entry.           *)
(*                                                                         *)
(* Entries are anonymous: entries[p] is the number of buffered ones, which *)
(* Go channels keep in order.  What Process decides, whether a sink or a   *)
(* reload fails, and when product code panics is chosen freely; the sinks, *)
(* sources and the processor are code outside this package.                *)
(***************************************************************************)
EXTENDS Integers, FiniteSets

CONSTANTS
    Pipelines,
    Sources,      \* the sources of all pipelines
    SourceOf,     \* [Sources -> Pipelines]
    Sinks,        \* number of sinks of a pipeline
    BufferSize,   \* StreamSpec.BufferSize
    DefaultSize,  \* defaultBufferSize
    MaxEntries,   \* bound: entries accepted by a pipeline
    MaxReloads,   \* bound: sends on reloadCh
    MaxPanics     \* bound: panics of product code

ASSUME EngineAssumption ==
    /\ SourceOf \in [Sources -> Pipelines]
    /\ Sinks \in Nat
    /\ BufferSize \in Nat /\ DefaultSize \in Nat
    /\ MaxEntries \in Nat /\ MaxReloads \in Nat /\ MaxPanics \in Nat

VARIABLES
    ctxDone,     \* the stream's context is cancelled
    signals,     \* values waiting on reloadCh
    signalled,   \* counter: sends on reloadCh
    running,     \* Run has not returned
    pipePc,      \* build, select, drain: at rest; process, write: inside
                 \* dispatchEntry; exited, failed, panicked: gone
    draining,    \* dispatchEntry was called from the drain loop
    next,        \* the sink that dispatchEntry writes to next
    srcPc,       \* new, run, done
    entries, closed,              \* the channel Merge returned
    accepted, processed, events,  \* counters of each pipeline: entries sent,
                 \* entries dispatched, payloads returned by Process
    offered,     \* events given to each sink, with or without success
    reloaded,    \* reload signals handled by each pipeline
    panics       \* counter

host     == <<ctxDone, signals, signalled>>
channel  == <<entries, closed, accepted>>
dispatch == <<draining, next, processed, events, offered>>

vars == <<host, running, pipePc, srcPc, channel, dispatch, reloaded, panics>>

Size == IF BufferSize = 0 THEN DefaultSize ELSE BufferSize

SourcesOf(p) == {s \in Sources : SourceOf[s] = p}

Init ==
    /\ ctxDone = FALSE /\ signals = 0 /\ signalled = 0
    /\ running = TRUE
    /\ pipePc = [p \in Pipelines |-> "build"]
    /\ draining = [p \in Pipelines |-> FALSE]
    /\ next = [p \in Pipelines |-> 1]
    /\ srcPc = [s \in Sources |-> "new"]
    /\ entries = [p \in Pipelines |-> 0]
    /\ closed = [p \in Pipelines |-> FALSE]
    /\ accepted = [p \in Pipelines |-> 0]
    /\ processed = [p \in Pipelines |-> 0]
    /\ events = [p \in Pipelines |-> 0]
    /\ offered = [p \in Pipelines |-> [k \in 1..Sinks |-> 0]]
    /\ reloaded = [p \in Pipelines |-> 0]
    /\ panics = 0

Goto(p, pc) == pipePc' = [pipePc EXCEPT ![p] = pc]

-----------------------------------------------------------------------------
(* The host cancels the context and sends on reloadCh.                     *)

Cancel ==
    /\ ~ctxDone
    /\ ctxDone' = TRUE
    /\ UNCHANGED <<signals, signalled, running, pipePc, srcPc, channel,
                   dispatch, reloaded, panics>>

SendReload ==
    /\ signalled < MaxReloads
    /\ signals' = signals + 1
    /\ signalled' = signalled + 1
    /\ UNCHANGED <<ctxDone, running, pipePc, srcPc, channel, dispatch,
                   reloaded, panics>>

-----------------------------------------------------------------------------
(* Merge and the sources.                                                  *)

(* A source offers an entry: dropped when the buffer is full.  A source    *)
(* may go on for a while after the context is cancelled.                   *)
SourceSend(s) ==
    LET p == SourceOf[s] IN
    /\ srcPc[s] = "run"
    /\ accepted[p] < MaxEntries
    /\ entries[p] < Size
    /\ entries' = [entries EXCEPT ![p] = @ + 1]
    /\ accepted' = [accepted EXCEPT ![p] = @ + 1]
    /\ UNCHANGED <<host, running, pipePc, srcPc, closed, dispatch, reloaded,
                   panics>>

(* Run of the source returns, with or without an error, or panics; Merge   *)
(* recovers.                                                               *)
SourceEnd(s) ==
    /\ srcPc[s] = "run"
    /\ srcPc' = [srcPc EXCEPT ![s] = "done"]
    /\ UNCHANGED <<host, running, pipePc, channel, dispatch, reloaded, panics>>

(* The goroutine that waits for all sources and closes the channel.        *)
CloseEntries(p) ==
    /\ pipePc[p] # "build" /\ pipePc[p] # "failed" /\ ~closed[p]
    /\ \A s \in SourcesOf(p) : srcPc[s] = "done"
    /\ closed' = [closed EXCEPT ![p] = TRUE]
    /\ UNCHANGED <<host, running, pipePc, srcPc, entries, accepted, dispatch,
                   reloaded, panics>>

-----------------------------------------------------------------------------
(* runPipeline.                                                            *)

(* factory.Build, then Merge starts the sources.                           *)
Build(p) ==
    /\ pipePc[p] = "build"
    /\ \/ /\ Goto(p, "select")
          /\ srcPc' = [s \in Sources |->
                         IF SourceOf[s] = p THEN "run" ELSE srcPc[s]]
       \/ /\ Goto(p, "failed")
          /\ UNCHANGED srcPc
    /\ UNCHANGED <<host, running, channel, dispatch, reloaded, panics>>

(* dispatchEntry is entered: processedCount is advanced before Process.    *)
Receive(p) ==
    /\ entries[p] > 0
    /\ entries' = [entries EXCEPT ![p] = @ - 1]
    /\ processed' = [processed EXCEPT ![p] = @ + 1]
    /\ draining' = [draining EXCEPT ![p] = pipePc[p] = "drain"]
    /\ Goto(p, "process")
    /\ UNCHANGED <<host, running, srcPc, closed, accepted, next, events,
                   offered, reloaded, panics>>

(* The entry case of the select; nothing keeps it from being taken when    *)
(* the context is already cancelled.                                       *)
SelectEntry(p) == pipePc[p] = "select" /\ Receive(p)

DrainEntry(p) == pipePc[p] = "drain" /\ Receive(p)

SelectDone(p) ==
    /\ pipePc[p] = "select"
    /\ ctxDone
    /\ Goto(p, "drain")
    /\ UNCHANGED <<host, running, srcPc, channel, dispatch, reloaded, panics>>

(* Mutant: the drain ends when the buffer is empty, closed or not.         *)
LeaveWhenEmpty(p) ==
    /\ pipePc[p] \in {"select", "drain"}
    /\ entries[p] = 0
    /\ closed[p] \/ pipePc[p] = "drain"
    /\ Goto(p, "exited")
    /\ UNCHANGED <<host, running, srcPc, channel, dispatch, reloaded, panics>>

(* The channel is closed and empty: the select and the drain loop return.  *)
Leave(p) ==
    /\ pipePc[p] \in {"select", "drain"}
    /\ entries[p] = 0 /\ closed[p]
    /\ Goto(p, "exited")
    /\ UNCHANGED <<host, running, srcPc, channel, dispatch, reloaded, panics>>

(* factory.Reload and, if it succeeds, Reload of the sinks: the signal is  *)
(* consumed by the one pipeline that receives it.                          *)
SelectReload(p) ==
    /\ pipePc[p] = "select"
    /\ signals > 0
    /\ signals' = signals - 1
    /\ reloaded' = [reloaded EXCEPT ![p] = @ + 1]
    /\ UNCHANGED <<ctxDone, signalled, running, pipePc, srcPc, channel,
                   dispatch, panics>>

-----------------------------------------------------------------------------
(* dispatchEntry.                                                          *)

AtRest(p) == IF draining[p] THEN "drain" ELSE "select"

(* Process returns Skip or no payload, or an event for the sinks.          *)
Process(p) ==
    /\ pipePc[p] = "process"
    /\ \/ Goto(p, AtRest(p)) /\ UNCHANGED events
       \/ /\ Goto(p, IF Sinks = 0 THEN AtRest(p) ELSE "write")
          /\ events' = [events EXCEPT ![p] = @ + 1]
    /\ UNCHANGED <<host, running, srcPc, channel, draining, next, processed,
                   offered, reloaded, panics>>

(* Mutant: the error of a sink ends the fan-out.                           *)
WriteOrStop(p) ==
    LET k == next[p] IN
    /\ pipePc[p] = "write"
    /\ offered' = [offered EXCEPT ![p][k] = @ + 1]
    /\ \E failed \in BOOLEAN :
         LET last == k = Sinks \/ failed IN
         /\ next' = [next EXCEPT ![p] = IF last THEN 1 ELSE k + 1]
         /\ Goto(p, IF last THEN AtRest(p) ELSE "write")
    /\ UNCHANGED <<host, running, srcPc, channel, draining, processed, events,
                   reloaded, panics>>

(* sink.Write, successful or not: the next sink is tried either way.       *)
Write(p) ==
    LET k == next[p]
        last == k = Sinks
    IN
    /\ pipePc[p] = "write"
    /\ offered' = [offered EXCEPT ![p][k] = @ + 1]
    /\ next' = [next EXCEPT ![p] = IF last THEN 1 ELSE k + 1]
    /\ Goto(p, IF last THEN AtRest(p) ELSE "write")
    /\ UNCHANGED <<host, running, srcPc, channel, draining, processed, events,
                   reloaded, panics>>

(* Mutant: a panic is not recovered in the goroutine of the pipeline: it   *)
(* takes its siblings with it.                                             *)
PanicAll(p) ==
    /\ pipePc[p] \in {"build", "select", "process", "write"}
    /\ panics < MaxPanics
    /\ panics' = panics + 1
    /\ pipePc' = [q \in Pipelines |-> "exited"]
    /\ UNCHANGED <<host, running, srcPc, channel, dispatch, reloaded>>

(* Build, Reload, Process or a sink panics: the pipeline's goroutine       *)
(* recovers and ends, its sources go on.                                   *)
Panic(p) ==
    /\ pipePc[p] \in {"build", "select", "process", "write"}
    /\ pipePc[p] = "select" => signals > 0
    /\ panics < MaxPanics
    /\ panics' = panics + 1
    /\ signals' = IF pipePc[p] = "select" THEN signals - 1 ELSE signals
    /\ Goto(p, IF pipePc[p] = "build" THEN "failed" ELSE "panicked")
    /\ UNCHANGED <<ctxDone, signalled, running, srcPc, channel, dispatch,
                   reloaded>>

(* Mutant: wg.Done is not deferred and a failed Build skips it.            *)
GoneAfterLoop(p) == pipePc[p] \in {"exited", "panicked"}

Gone(p) == pipePc[p] \in {"exited", "failed", "panicked"}

(* wg.Wait() in Run.                                                       *)
Return ==
    /\ running
    /\ \A p \in Pipelines : Gone(p)
    /\ running' = FALSE
    /\ UNCHANGED <<host, pipePc, srcPc, channel, dispatch, reloaded, panics>>

PipelineStep(p) ==
    \/ Build(p)
    \/ SelectEntry(p)
    \/ SelectDone(p)
    \/ SelectReload(p)
    \/ DrainEntry(p)
    \/ Leave(p)
    \/ Process(p)
    \/ Write(p)

Next ==
    \/ Cancel
    \/ SendReload
    \/ \E s \in Sources : SourceSend(s) \/ SourceEnd(s)
    \/ \E p \in Pipelines : CloseEntries(p) \/ PipelineStep(p) \/ Panic(p)
    \/ Return

Spec == Init /\ [][Next]_vars

(* The Go scheduler runs every goroutine that can go on, and a source      *)
(* returns when its context is done, as plugin.Source demands.             *)
FairSpec ==
    /\ Spec
    /\ WF_vars(Return)
    /\ \A p \in Pipelines : WF_vars(PipelineStep(p)) /\ WF_vars(CloseEntries(p))
    /\ \A s \in Sources : WF_vars(ctxDone /\ SourceEnd(s))

-----------------------------------------------------------------------------
(* Properties.                                                             *)

(* Every variable stays in its type, the buffers within their capacity.    *)
TypeOK ==
    /\ ctxDone \in BOOLEAN /\ running \in BOOLEAN
    /\ signals \in Nat /\ signalled \in Nat /\ panics \in Nat
    /\ pipePc \in [Pipelines -> {"build", "select", "drain", "process", "write",
                                 "exited", "failed", "panicked"}]
    /\ draining \in [Pipelines -> BOOLEAN]
    /\ next \in [Pipelines -> Nat]
    /\ srcPc \in [Sources -> {"new", "run", "done"}]
    /\ entries \in [Pipelines -> 0..Size]
    /\ closed \in [Pipelines -> BOOLEAN]
    /\ accepted \in [Pipelines -> Nat] /\ processed \in [Pipelines -> Nat]
    /\ events \in [Pipelines -> Nat] /\ reloaded \in [Pipelines -> Nat]
    /\ offered \in [Pipelines -> [1..Sinks -> Nat]]

(* A pipeline that leaves by itself, drained or not, has processed every   *)
(* entry its sources got into the buffer, and no source of it sends any    *)
(* more: none can meet the closed channel.                                 *)
NothingLeftBehind ==
    \A p \in Pipelines :
      /\ pipePc[p] = "exited" => processed[p] = accepted[p]
      /\ closed[p] \/ pipePc[p] = "exited" =>
           \A s \in SourcesOf(p) : srcPc[s] = "done"

(* Outside dispatchEntry every sink of a pipeline has been offered every   *)
(* event, whatever the other sinks answered.                               *)
FanOutComplete ==
    \A p \in Pipelines :
      pipePc[p] \in {"select", "drain", "exited"} =>
        \A k \in 1..Sinks : offered[p][k] = events[p]

(* Run returns after the context is cancelled, in spite of panics, failed  *)
(* builds and reloads.                                                     *)
ShutdownCompletes == ctxDone ~> ~running

(* A panic stays in its pipeline: an accepted entry is processed unless    *)
(* its own pipeline panics.                                                *)
AcceptedIsProcessed ==
    \A p \in Pipelines : \A k \in 1..MaxEntries :
      (accepted[p] >= k) ~> (processed[p] >= k \/ pipePc[p] = "panicked")
=============================================================================
