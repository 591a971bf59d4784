----------------------------- MODULE ExecPlugin -----------------------------
(***************************************************************************)
(* A plugin process and the callers that share it: pkg/execplugin.         *)
(* ManagedProcess (process.go) owns the pipes and the life of the process. *)
(* ExecDetector.Detect and ExecExecutor.executePlugin send a line and wait *)
(* for one, ExecSink.Write only sends.  The plugin is external: it reads a *)
(* line, may answer it, and may stop at any time.                          *)
(*                                                                         *)
(* A pipe holds PipeCap lines; a request is the caller and a number, and   *)
(* its answer carries the same pair.                                       *)
(***************************************************************************)
EXTENDS Integers, Sequences

CONSTANTS
    Callers,    \* goroutines that call Detect, executePlugin or Write
    Closers,    \* goroutines that call Close
    None,
    PipeCap,    \* lines in a pipe before a write to it blocks
    MaxCalls    \* bound on the calls of one caller

ASSUME PipeAssumption == PipeCap \in Nat \ {0}
ASSUME NoneAssumption == None \notin Callers \cup (Callers \X Nat)

VARIABLES
    role,       \* "request" for the detector and the executor, "write" for the sink
    proc,       \* running, exited (not waited for), or reaped
    signal,     \* none, term or kill
    stdinOpen,
    stdin, stdout,  \* the lines in the pipes
    holding,    \* external: the request the plugin works on, or None
    holder,     \* the caller that holds the mutex, or None
    pc, calls,  \* of each caller: its place, and the number of its call
    got,        \* the answer the call received, or None
    stats,      \* ok and errors: the counters of Stats (the detector has none)
    waiter,     \* waitOnce: none, wait, or done
    cpc         \* of each closer: idle, waiting, killing or returned

pluginVars == <<role, proc, signal, stdinOpen, stdin, stdout, holding, holder,
                pc, calls, got, stats, waiter, cpc>>

pipeVars == <<stdinOpen, stdin, stdout, holding>>
callVars == <<holder, pc, calls, got, stats>>
closeVars == <<waiter, cpc>>

Request(c) == <<c, calls[c]>>

-----------------------------------------------------------------------------
(* The callers.                                                            *)

(* Mutant: the mutex is not taken.                                         *)
BeginUnlocked(c) ==
    /\ pc[c] = "idle" /\ calls[c] < MaxCalls
    /\ pc' = [pc EXCEPT ![c] = "send"]
    /\ calls' = [calls EXCEPT ![c] = @ + 1]
    /\ got' = [got EXCEPT ![c] = None]
    /\ UNCHANGED <<role, proc, signal, pipeVars, holder, stats, closeVars>>

(* A call takes the mutex of the detector, the executor or the process.    *)
Begin(c) ==
    /\ pc[c] = "idle" /\ holder = None /\ calls[c] < MaxCalls
    /\ holder' = c
    /\ pc' = [pc EXCEPT ![c] = "send"]
    /\ calls' = [calls EXCEPT ![c] = @ + 1]
    /\ got' = [got EXCEPT ![c] = None]
    /\ UNCHANGED <<role, proc, signal, pipeVars, stats, closeVars>>

(* The event does not encode, or, before the executor takes the mutex, is  *)
(* nil: nothing is sent.                                                   *)
Refuse(c) ==
    /\ pc[c] = "idle" /\ calls[c] < MaxCalls
    /\ role = "write" => holder = None
    /\ calls' = [calls EXCEPT ![c] = @ + 1]
    /\ got' = [got EXCEPT ![c] = None]
    /\ stats' = [stats EXCEPT !.errors = @ + 1]
    /\ UNCHANGED <<role, proc, signal, pipeVars, holder, pc, closeVars>>

(* The deferred unlock, and a counter.                                     *)
CallReturns(c, counter) ==
    /\ pc' = [pc EXCEPT ![c] = "idle"]
    /\ holder' = None
    /\ stats' = [stats EXCEPT ![counter] = @ + 1]
    /\ UNCHANGED <<role, proc, signal, calls, closeVars>>

(* Send on a closed stdin or to a process that is gone.                    *)
SendFails(c) ==
    /\ pc[c] = "send" /\ (~stdinOpen \/ proc # "running")
    /\ CallReturns(c, "errors") /\ UNCHANGED <<got, pipeVars>>

(* Send blocks while the pipe is full.  Write returns at once.             *)
Send(c) ==
    /\ pc[c] = "send" /\ stdinOpen /\ proc = "running" /\ Len(stdin) < PipeCap
    /\ stdin' = Append(stdin, Request(c))
    /\ IF role = "write" THEN CallReturns(c, "ok")
       ELSE /\ pc' = [pc EXCEPT ![c] = "recv"]
            /\ UNCHANGED <<role, proc, signal, holder, calls, stats, closeVars>>
    /\ UNCHANGED <<stdinOpen, stdout, holding, got>>

(* Recv: a line, which may not parse or carry the error of the plugin.     *)
Recv(c) ==
    /\ pc[c] = "recv" /\ stdout # <<>>
    /\ got' = [got EXCEPT ![c] = Head(stdout)]
    /\ stdout' = Tail(stdout)
    /\ \E counter \in {"ok", "errors"} : CallReturns(c, counter)
    /\ UNCHANGED <<stdinOpen, stdin, holding>>

(* Mutant: EOF counts as a line that is still to come.                     *)
RecvNoEOF(c) ==
    /\ pc[c] = "recv" /\ proc = "reaped" /\ stdout # <<>>
    /\ CallReturns(c, "errors") /\ UNCHANGED <<got, pipeVars>>

(* EOF, or the read end was closed by cmd.Wait with a line still in it.    *)
RecvEOF(c) ==
    /\ pc[c] = "recv"
    /\ proc = "exited" => stdout = <<>>
    /\ proc # "running"
    /\ CallReturns(c, "errors") /\ UNCHANGED <<got, pipeVars>>

-----------------------------------------------------------------------------
(* External: the plugin.                                                   *)

PluginRead ==
    /\ proc = "running" /\ holding = None /\ stdin # <<>>
    /\ holding' = Head(stdin) /\ stdin' = Tail(stdin)
    /\ UNCHANGED <<role, proc, signal, stdinOpen, stdout, callVars, closeVars>>

PluginAnswer ==
    /\ proc = "running" /\ holding # None /\ Len(stdout) < PipeCap
    /\ stdout' = Append(stdout, holding) /\ holding' = None
    /\ UNCHANGED <<role, proc, signal, stdinOpen, stdin, callVars, closeVars>>

(* It crashes, or obeys a signal, or stops at the end of its input.        *)
PluginExit ==
    /\ proc = "running"
    /\ proc' = "exited"
    /\ UNCHANGED <<role, signal, pipeVars, callVars, closeVars>>

(* exec.CommandContext kills the process when the context ends.            *)
PluginCancel ==
    /\ proc = "running" /\ signal' = "kill"
    /\ UNCHANGED <<role, proc, pipeVars, callVars, closeVars>>

-----------------------------------------------------------------------------
(* Close.                                                                  *)

(* closeMu is free, stdin is closed, and a process that was not waited for *)
(* gets a SIGTERM and a goroutine that waits for it.                       *)
CloseStart(k) ==
    /\ cpc[k] = "idle" /\ \A j \in Closers : cpc[j] \notin {"waiting", "killing"}
    /\ stdinOpen' = FALSE
    /\ IF proc = "reaped"
       THEN cpc' = [cpc EXCEPT ![k] = "returned"] /\ UNCHANGED <<signal, waiter>>
       ELSE /\ cpc' = [cpc EXCEPT ![k] = "waiting"]
            /\ signal' = IF signal = "none" THEN "term" ELSE signal
            /\ waiter' = "wait"
    /\ UNCHANGED <<role, proc, stdin, stdout, holding, callVars>>

(* cmd.Wait, called through waitOnce.                                      *)
Reap ==
    /\ waiter = "wait" /\ proc = "exited"
    /\ proc' = "reaped" /\ waiter' = "done"
    /\ UNCHANGED <<role, signal, pipeVars, callVars, cpc>>

CloseDone(k) ==
    /\ cpc[k] \in {"waiting", "killing"} /\ waiter = "done"
    /\ cpc' = [cpc EXCEPT ![k] = "returned"]
    /\ UNCHANGED <<role, proc, signal, pipeVars, callVars, waiter>>

(* Mutant: the plugin is asked once more.                                  *)
CloseTimeoutTerm(k) ==
    /\ cpc[k] = "waiting" /\ waiter # "done"
    /\ signal' = "term"
    /\ cpc' = [cpc EXCEPT ![k] = "killing"]
    /\ UNCHANGED <<role, proc, pipeVars, callVars, waiter>>

(* After 3 s the process is killed; Close still waits for it.              *)
CloseTimeout(k) ==
    /\ cpc[k] = "waiting" /\ waiter # "done"
    /\ signal' = "kill"
    /\ cpc' = [cpc EXCEPT ![k] = "killing"]
    /\ UNCHANGED <<role, proc, pipeVars, callVars, waiter>>

-----------------------------------------------------------------------------
PluginInit ==
    /\ role \in {"request", "write"}
    /\ proc = "running" /\ signal = "none" /\ stdinOpen = TRUE
    /\ stdin = <<>> /\ stdout = <<>> /\ holding = None /\ holder = None
    /\ pc = [c \in Callers |-> "idle"] /\ calls = [c \in Callers |-> 0]
    /\ got = [c \in Callers |-> None]
    /\ stats = [ok |-> 0, errors |-> 0]
    /\ waiter = "none" /\ cpc = [k \in Closers |-> "idle"]

CallStep(c) ==
    SendFails(c) \/ Send(c) \/ Recv(c) \/ RecvEOF(c)

CloseStep(k) == CloseDone(k) \/ CloseTimeout(k)

PluginNext ==
    \/ \E c \in Callers : Begin(c) \/ Refuse(c) \/ CallStep(c)
    \/ PluginRead \/ PluginAnswer \/ PluginExit \/ PluginCancel
    \/ \E k \in Closers : CloseStart(k) \/ CloseStep(k)
    \/ Reap

PluginSpec == PluginInit /\ [][PluginNext]_pluginVars

(* The goroutines of the host run, timers fire, and a process that was     *)
(* killed is gone.  The plugin itself owes nothing.                        *)
PluginFairSpec ==
    /\ PluginSpec
    /\ \A c \in Callers : WF_pluginVars(CallStep(c))
    /\ \A k \in Closers : WF_pluginVars(CloseStep(k))
    /\ WF_pluginVars(Reap)
    /\ WF_pluginVars(signal = "kill" /\ PluginExit)

-----------------------------------------------------------------------------
(* Properties.                                                             *)

(* The answer a call receives is the answer to its own request, though     *)
(* callers share the pipes and a plugin may be slow, crash or be closed.   *)
OwnAnswer == \A c \in Callers : got[c] # None => got[c] = Request(c)

(* A Close that began returns, even if the plugin ignores SIGTERM.         *)
CloseReturns == \A k \in Closers : cpc[k] = "waiting" ~> cpc[k] = "returned"

(* After Close no caller stays behind in Send or Recv with the mutex held. *)
CloseReleasesCallers ==
    \A c \in Callers : (~stdinOpen /\ pc[c] # "idle") ~> pc[c] = "idle"
=============================================================================
