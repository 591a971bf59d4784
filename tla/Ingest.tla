------------------------------- MODULE Ingest -------------------------------
(***************************************************************************)
(* One source and the channel that input.Merge gives it: Run of the stdin, *)
(* exec-plugin, syslog (packet and stream) and HTTP (push and pull)        *)
(* sources, from the peer's lines to the channel, with cancellation, read  *)
(* errors, full buffers and the close of the channel once Run returned.    *)
(*                                                                         *)
(* A line is only counted.  Parsing it, opening its envelope or decoding a *)
(* body of records has one of two outcomes: an entry, or a parse error.    *)
(***************************************************************************)
EXTENDS Integers, FiniteSets

CONSTANTS
    Conns,              \* connections of the stream source, requests of push
    MaxConns,           \* slots of the stream source's semaphore
    OutCap,             \* capacity of the channel
    BufCap,             \* capacity of scanCh and of entries
    MaxLines            \* bound: lines the peer sends

ASSUME IngestAssumption ==
    /\ MaxConns \in Nat \ {0} /\ MaxLines \in Nat
    /\ Conns # {} /\ IsFiniteSet(Conns)

VARIABLES
    kind,       \* the source
    run,        \* "on", "drain" (runStream in wg.Wait) or "returned"
    cancelled,  \* ctx is done
    failed,     \* reading from the peer failed
    reader,     \* the reading goroutine: "read", "held" (has a line) or "ended"
    buf,        \* entries in scanCh or entries
    conn,       \* the state of each connection or request
    left,       \* lines of each connection, request or body still to handle
    out, outOpen,                      \* the channel of Merge
    linesRead, parseErrors, dropped,   \* the counters of Stats
    taken, sent, gone, broken          \* history: lines taken from the peer, sent,
                                       \* given up, and read errors counted

ingestVars == <<kind, run, cancelled, failed, reader, buf, conn, left, out, outOpen,
                linesRead, parseErrors, dropped, taken, sent, gone, broken>>
chanVars == <<out, outOpen>>
statVars == <<linesRead, parseErrors, dropped, sent>>
connVars == <<conn, left>>
readVars == <<reader, buf>>
histVars == <<taken, gone, broken>>

Buffered == kind \in {"stdin", "exec"}
Body == CHOOSE c \in Conns : TRUE   \* pull handles one body, packet one datagram

-----------------------------------------------------------------------------
(* The non-blocking send that ends every path: sent, or dropped when the   *)
(* channel is full.                                                        *)
Offer ==
    /\ outOpen
    /\ IF out < OutCap
       THEN out' = out + 1 /\ sent' = sent + 1 /\ UNCHANGED dropped
       ELSE dropped' = dropped + 1 /\ UNCHANGED <<out, sent>>
    /\ UNCHANGED <<outOpen, parseErrors>>

(* A line that does not parse.                                             *)
Malformed ==
    /\ parseErrors' = parseErrors + 1
    /\ UNCHANGED <<chanVars, dropped, sent>>

(* The peer's next n lines come in.                                        *)
Take(n) == taken + n <= MaxLines /\ taken' = taken + n

(* The next of the lines at hand: parsed and offered, or malformed.  The   *)
(* loops over the records of a body count in linesRead what they sent, the *)
(* others counted the line when it was read.                               *)
Record(c) ==
    /\ left[c] > 0
    /\ left' = [left EXCEPT ![c] = @ - 1]
    /\ Malformed \/ Offer
    /\ linesRead' = IF kind \in {"push", "pull"} THEN linesRead + (sent' - sent) ELSE linesRead
    /\ UNCHANGED <<kind, run, cancelled, failed, readVars, conn, histVars>>

(* Run returns.                                                            *)
Returns ==
    /\ run' = "returned"
    /\ UNCHANGED <<kind, cancelled, failed, reader, conn, left, chanVars, statVars, histVars>>

-----------------------------------------------------------------------------
(* stdin and exec: a goroutine reads, the loop of Run forwards.            *)

(* The goroutine reads a line.                                             *)
ReadLine ==
    /\ Buffered /\ reader = "read" /\ Take(1)
    /\ reader' = "held"
    /\ UNCHANGED <<kind, run, cancelled, failed, buf, connVars, chanVars, statVars, gone, broken>>

(* That of stdin waits for room in scanCh; that of exec parses the line    *)
(* and drops it when its buffer is full.                                   *)
PutLine ==
    /\ reader = "held" /\ reader' = "read"
    /\ IF kind = "stdin" THEN buf < BufCap /\ buf' = buf + 1 /\ UNCHANGED <<chanVars, statVars>>
       ELSE \/ Malformed /\ UNCHANGED <<buf, linesRead>>
            \/ /\ linesRead' = linesRead + 1
               /\ IF buf < BufCap THEN buf' = buf + 1 /\ UNCHANGED dropped
                  ELSE dropped' = dropped + 1 /\ UNCHANGED buf
               /\ UNCHANGED <<chanVars, parseErrors, sent>>
    /\ UNCHANGED <<kind, run, cancelled, failed, connVars, histVars>>

(* End of the input, or an error that goes to the error channel; either    *)
(* way the buffer is closed.                                               *)
ReadEnds ==
    /\ Buffered /\ reader = "read"
    /\ reader' = "ended" /\ failed' \in BOOLEAN
    /\ UNCHANGED <<kind, run, cancelled, buf, connVars, chanVars, statVars, histVars>>

(* The loop takes an entry.  exec selects between the send and the         *)
(* context: once ctx is done it drops nothing.                             *)
Forward ==
    /\ Buffered /\ run = "on" /\ buf > 0
    /\ buf' = buf - 1
    /\ IF kind = "stdin" THEN linesRead' = linesRead + 1 /\ (Malformed \/ Offer)
       ELSE UNCHANGED linesRead /\ Offer /\ (cancelled => out < OutCap)
    /\ UNCHANGED <<kind, run, cancelled, failed, reader, connVars, histVars>>

(* The context is chosen, the only choice when the channel is full: the    *)
(* entry is gone.                                                          *)
ForwardCancelled ==
    /\ kind = "exec" /\ run = "on" /\ cancelled /\ buf > 0
    /\ buf' = buf - 1 /\ gone' = gone + 1
    /\ run' = "returned"
    /\ UNCHANGED <<kind, cancelled, failed, reader, connVars, chanVars, statVars, taken, broken>>

(* Mutant: the end of the reader ends the loop.                            *)
LoopEndsEarly ==
    /\ Buffered /\ run = "on"
    /\ cancelled \/ reader = "ended"
    /\ UNCHANGED buf
    /\ Returns

(* Mutant: the loop does not select on ctx.                                *)
LoopEndsUncancelled ==
    /\ Buffered /\ run = "on" /\ reader = "ended" /\ (buf = 0 \/ failed)
    /\ UNCHANGED buf
    /\ Returns

(* The loop ends: cancelled, buffer closed and empty, or a read error, at  *)
(* which entries may still be in the buffer.                               *)
LoopEnds ==
    /\ Buffered /\ run = "on"
    /\ \/ cancelled
       \/ reader = "ended" /\ (buf = 0 \/ failed)
    /\ UNCHANGED buf
    /\ Returns

-----------------------------------------------------------------------------
(* syslog over packets: the loop reads, parses and sends; any read error   *)
(* ends it.                                                                *)
ReadPacket ==
    /\ kind = "packet" /\ run = "on" /\ left[Body] = 0 /\ Take(1)
    /\ linesRead' = linesRead + 1
    /\ left' = [left EXCEPT ![Body] = 1]
    /\ UNCHANGED <<kind, run, cancelled, failed, readVars, conn, chanVars,
                   parseErrors, dropped, sent, gone, broken>>

PacketRecord == kind = "packet" /\ run = "on" /\ Record(Body)

PacketEnds ==
    /\ kind = "packet" /\ run = "on" /\ left[Body] = 0
    /\ UNCHANGED buf
    /\ Returns

-----------------------------------------------------------------------------
(* syslog over connections.                                                *)

Serving == {c \in Conns : conn[c] = "open"}
SetConn(c, s) == conn' = [conn EXCEPT ![c] = s]

Accept(c) ==
    /\ kind = "stream" /\ run = "on" /\ conn[c] = "none"
    /\ \A d \in Conns : conn[d] # "accepted"
    /\ SetConn(c, "accepted")
    /\ UNCHANGED <<kind, run, cancelled, failed, readVars, left, chanVars, statVars, histVars>>

(* The accept loop waits for a slot, and the connection is served.         *)
Serve(c) ==
    /\ conn[c] = "accepted" /\ Cardinality(Serving) < MaxConns
    /\ SetConn(c, "open")
    /\ UNCHANGED <<kind, run, cancelled, failed, readVars, left, chanVars, statVars, histVars>>

(* Accept fails, or ctx is done while a connection waits for a slot, which *)
(* is then closed.                                                         *)
AcceptEnds ==
    /\ kind = "stream" /\ run = "on"
    /\ cancelled \/ \A c \in Conns : conn[c] # "accepted"
    /\ run' = "drain"
    /\ conn' = [c \in Conns |-> IF conn[c] = "accepted" THEN "closed" ELSE conn[c]]
    /\ UNCHANGED <<kind, cancelled, failed, readVars, left, chanVars, statVars, histVars>>

ConnLine(c) ==
    /\ kind = "stream" /\ conn[c] = "open" /\ left[c] = 0 /\ Take(1)
    /\ linesRead' = linesRead + 1
    /\ left' = [left EXCEPT ![c] = 1]
    /\ UNCHANGED <<kind, run, cancelled, failed, readVars, conn, chanVars,
                   parseErrors, dropped, sent, gone, broken>>

ConnRecord(c) == kind = "stream" /\ conn[c] = "open" /\ Record(c)

(* The peer closes, or reading fails, which counts as a parse error and is *)
(* what the goroutine that waits for ctx causes.                           *)
ConnEnds(c) ==
    /\ kind = "stream" /\ conn[c] = "open" /\ left[c] = 0
    /\ SetConn(c, "closed")
    /\ \/ parseErrors' = parseErrors + 1 /\ broken' = broken + 1
       \/ UNCHANGED <<parseErrors, broken>>
    /\ UNCHANGED <<kind, run, cancelled, failed, readVars, left, chanVars,
                   linesRead, dropped, sent, taken, gone>>

(* Mutant: runStream does not wait for its handlers.                       *)
StreamReturnsEarly ==
    /\ kind = "stream" /\ run = "drain"
    /\ UNCHANGED buf
    /\ Returns

(* wg.Wait.                                                                *)
StreamReturns ==
    /\ kind = "stream" /\ run = "drain" /\ Serving = {}
    /\ UNCHANGED buf
    /\ Returns

-----------------------------------------------------------------------------
(* HTTP push: the server runs a handler per request.  Shutdown makes Run   *)
(* return while handlers are still at work.                                *)

(* A request is refused (not authorised, too large, wrong type, not        *)
(* decodable) or its records come in.  A handler that began before         *)
(* Shutdown may get there after Run returned.                              *)
PushRequest(c) ==
    /\ kind = "push" /\ conn[c] = "none"
    /\ \/ SetConn(c, "refused") /\ UNCHANGED <<left, taken>>
       \/ /\ SetConn(c, "open")
          /\ \E n \in 0..MaxLines : Take(n) /\ left' = [left EXCEPT ![c] = n]
    /\ UNCHANGED <<kind, run, cancelled, failed, readVars, chanVars, statVars, gone, broken>>

PushRecord(c) == kind = "push" /\ conn[c] = "open" /\ Record(c)

(* A send on the closed channel panics; net/http recovers and closes the   *)
(* connection without an answer, and without counting what is left.        *)
PushPanics(c) ==
    /\ kind = "push" /\ conn[c] = "open" /\ left[c] > 0 /\ ~outOpen
    /\ SetConn(c, "panicked")
    /\ UNCHANGED <<kind, run, cancelled, failed, readVars, left, chanVars, statVars, histVars>>

(* The answer, after the last record.                                      *)
PushAck(c) ==
    /\ kind = "push" /\ conn[c] = "open" /\ left[c] = 0
    /\ SetConn(c, "acked")
    /\ UNCHANGED <<kind, run, cancelled, failed, readVars, left, chanVars, statVars, histVars>>

(* Shutdown after ctx is done, or a listener that fails.                   *)
PushReturns ==
    /\ kind = "push" /\ run = "on"
    /\ UNCHANGED buf
    /\ Returns

-----------------------------------------------------------------------------
(* HTTP pull: at a tick the body is fetched and its records are handled; a *)
(* failed fetch waits for the next tick.                                   *)
PullFetch ==
    /\ kind = "pull" /\ run = "on" /\ left[Body] = 0 /\ ~cancelled
    /\ \E n \in 1..MaxLines : Take(n) /\ left' = [left EXCEPT ![Body] = n]
    /\ UNCHANGED <<kind, run, cancelled, failed, readVars, conn, chanVars, statVars, gone, broken>>

PullRecord == kind = "pull" /\ run = "on" /\ Record(Body)

PullEnds ==
    /\ kind = "pull" /\ run = "on" /\ cancelled /\ left[Body] = 0
    /\ UNCHANGED buf
    /\ Returns

-----------------------------------------------------------------------------
(* Merge closes the channel after Run returned; the engine receives.       *)
CloseOut ==
    /\ run = "returned" /\ outOpen /\ outOpen' = FALSE
    /\ UNCHANGED <<kind, run, cancelled, failed, readVars, connVars, out, statVars, histVars>>

IngestReceive ==
    /\ out > 0 /\ out' = out - 1
    /\ UNCHANGED <<kind, run, cancelled, failed, readVars, connVars, outOpen, statVars, histVars>>

IngestCancel ==
    /\ ~cancelled /\ cancelled' = TRUE
    /\ UNCHANGED <<kind, run, failed, readVars, connVars, chanVars, statVars, histVars>>

IngestInit ==
    /\ kind \in {"stdin", "exec", "packet", "stream", "push", "pull"}
    /\ run = "on" /\ cancelled = FALSE /\ failed = FALSE
    /\ reader = "read" /\ buf = 0
    /\ conn = [c \in Conns |-> "none"] /\ left = [c \in Conns |-> 0]
    /\ out = 0 /\ outOpen = TRUE
    /\ linesRead = 0 /\ parseErrors = 0 /\ dropped = 0
    /\ taken = 0 /\ sent = 0 /\ gone = 0 /\ broken = 0

BufferedNext == ReadLine \/ PutLine \/ ReadEnds \/ Forward \/ ForwardCancelled \/ LoopEnds
ConnNext(c) == \/ Accept(c) \/ Serve(c) \/ ConnLine(c) \/ ConnRecord(c) \/ ConnEnds(c)
               \/ PushRequest(c) \/ PushRecord(c) \/ PushPanics(c) \/ PushAck(c)
PullNext == PullFetch \/ PullRecord \/ PullEnds

IngestNext ==
    \/ BufferedNext \/ ReadPacket \/ PacketRecord \/ PacketEnds
    \/ \E c \in Conns : ConnNext(c)
    \/ AcceptEnds \/ StreamReturns \/ PushReturns \/ PullNext
    \/ CloseOut \/ IngestReceive \/ IngestCancel

IngestSpec == IngestInit /\ [][IngestNext]_ingestVars

(* Once ctx is done the goroutines that wait for it close the listener and *)
(* the connections, and a select that keeps being offered its ctx branch   *)
(* takes it; a line at hand is dealt with.  Nothing obliges the peer to    *)
(* send or the engine to receive.                                          *)
IngestFairSpec ==
    /\ IngestSpec
    /\ WF_ingestVars(cancelled /\ (LoopEnds \/ PacketEnds \/ AcceptEnds \/ PushReturns))
    /\ \A c \in Conns : WF_ingestVars(cancelled /\ ConnEnds(c)) /\ WF_ingestVars(ConnRecord(c))
    /\ WF_ingestVars(PacketRecord) /\ WF_ingestVars(PullRecord)
    /\ WF_ingestVars(StreamReturns) /\ WF_ingestVars(PullEnds) /\ WF_ingestVars(CloseOut)

-----------------------------------------------------------------------------
(* Properties.                                                             *)

(* The lines with the reading goroutine and in its buffer, and those at    *)
(* hand of a connection, a request or a body.                              *)
InHand == buf + (IF reader = "held" THEN 1 ELSE 0)
Waiting == {w \in Conns \X (1..MaxLines) : w[2] <= left[w[1]]}

(* What linesRead counts: push and pull what they sent, exec the entries   *)
(* it parsed, the others every line their loop has seen.                   *)
LinesRead ==
    CASE kind \in {"push", "pull"} -> sent
      [] kind = "exec" -> sent + dropped + gone + buf
      [] OTHER -> sent + dropped + (parseErrors - broken) + Cardinality(Waiting)

(* Every line that came in from the peer is sent, counted as dropped or as *)
(* a parse error, or still to be dealt with, but for one entry that exec   *)
(* gives up when its select finds the context done.  Lines still in the    *)
(* buffer of a source that returned are lost, uncounted, only after        *)
(* cancellation or a read error; lines still at hand of one only with      *)
(* push, whose Run returns under its handlers: a request with lines left   *)
(* is never acknowledged.                                                  *)
EveryLineAccounted ==
    /\ taken = sent + dropped + (parseErrors - broken) + gone + InHand + Cardinality(Waiting)
    /\ linesRead = LinesRead
    /\ gone = 0 \/ (gone = 1 /\ kind = "exec" /\ cancelled /\ run = "returned")
    /\ run = "returned" /\ InHand > 0 => cancelled \/ failed
    /\ \A c \in Conns : left[c] > 0 =>
         /\ run = "returned" => kind = "push"
         /\ conn[c] # "acked"

(* Only the handlers of push can meet the closed channel: runStream waits  *)
(* for its handlers, and the other sources send from Run itself.           *)
SendsMeetOpenChannel == ~outOpen => Serving = {} \/ kind = "push"

(* After cancellation Run returns and the channel is closed, whatever the  *)
(* peer does and however full the channel is.                              *)
RunReturns == cancelled ~> ~outOpen
=============================================================================
