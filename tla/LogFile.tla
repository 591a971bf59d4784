------------------------------ MODULE LogFile -------------------------------
(***************************************************************************)
(* A log file between its writer and its reader: FileSink writes it        *)
(* (pkg/sink/file/sink.go), a log rotator moves or truncates it, and       *)
(* FileSource reads it (pkg/source/file/source.go) through TailReader      *)
(* (pkg/tail/tail.go) and fsnotify events.  The lines of all files are     *)
(* numbered in the order they are written, so that a reader that sees      *)
(* 1, 2, 3, ... saw each line once.  A file is known by its inode, a       *)
(* number; 0 is no file.  mishaps collects whatever may cost a line:       *)
(*   late       written to a rotated file the reader had already left      *)
(*   overlap    rotated before the reader had come to the file             *)
(*   reloads    two Reloads at a time                                      *)
(*   truncated  the file was truncated in place                            *)
(*   unseen     fsnotify lost an event (a full queue, a watcher error)     *)
(*   unopened   the new file exists but could not be opened                *)
(*   unread     a read failed before the end of the file                   *)
(*   dropped    the channel was full, the line too long or the read late   *)
(*   timeout    a read that timed out shared its line with the next one    *)
(*   skipped    FileSource could not parse the line or out was full        *)
(***************************************************************************)
EXTENDS Integers, Sequences, FiniteSets

CONSTANTS
    Reloaders,   \* goroutines that call FileSink.Reload
    ChanSize,    \* capacity of the channel of lines
    MaxLines, MaxFiles, MaxTruncs, MaxMishaps   \* bounds

VARIABLES
    files,      \* the lines of each inode
    path,       \* the inode at the path
    handle,     \* FileSink.f
    opened,     \* of each reloader: the file it opened, 0 outside Reload
    next,       \* the number of the next line
    events,     \* fsnotify: the events of the path not yet handled
    watched,    \* the inode with a watch of its own
    tailing,    \* TailReader.Run: waiting, running or ended
    f, pos,     \* the file it has open and the lines it has read of it
    reading,    \* readAvailableLines: no, on, or drain (f is closed after it)
    start,      \* the first line that is not history
    lines,      \* the channel of lines
    seen,       \* the lines FileSource sent to out
    source,     \* FileSource.Run: running or returned
    ctx,        \* the context is cancelled
    truncs, mishaps   \* history: truncations, and what may cost a line

vars == <<files, path, handle, opened, next, events, watched, tailing, f, pos,
          reading, start, lines, seen, source, ctx, truncs, mishaps>>
sinkVars == <<handle, opened, next>>
tailVars == <<tailing, f, pos, reading, start, watched, lines>>
sourceVars == <<seen, source, ctx>>

(* External: an event of the path; equal neighbours are merged.            *)
Notify(e) ==
    events' = IF events # <<>> /\ events[Len(events)] = e THEN events
              ELSE Append(events, e)

Mishap(cond, m) ==
    /\ mishaps' = IF cond THEN mishaps \cup {m} ELSE mishaps
    /\ Cardinality(mishaps') <= MaxMishaps

-----------------------------------------------------------------------------
(* FileSink.                                                               *)

(* One line to the open file.  It is late when the tailer left that file.  *)
Write ==
    /\ handle # 0 /\ next <= MaxLines
    /\ files' = [files EXCEPT ![handle] = Append(@, next)]
    /\ next' = next + 1
    /\ IF handle \in {path, watched} THEN Notify("write") ELSE UNCHANGED events
    /\ Mishap(handle \notin {path, f}, "late")
    /\ UNCHANGED <<path, handle, opened, tailVars, sourceVars, truncs>>

(* Mutant: the path is opened only if the file is gone.                    *)
ReloadLazy(r) ==
    /\ opened[r] = 0 /\ path = 0 /\ Len(files) < MaxFiles
    /\ files' = Append(files, <<>>) /\ path' = Len(files')
    /\ opened' = [opened EXCEPT ![r] = handle]
    /\ Notify("create") /\ UNCHANGED mishaps
    /\ UNCHANGED <<handle, next, tailVars, sourceVars, truncs>>

(* openSinkFile, before the mutex is taken: the file at the path, created  *)
(* when there is none.                                                     *)
ReloadOpen(r) ==
    /\ opened[r] = 0
    /\ IF path # 0 THEN UNCHANGED <<files, path, events>>
       ELSE /\ Len(files) < MaxFiles
            /\ files' = Append(files, <<>>) /\ path' = Len(files')
            /\ Notify("create")
    /\ opened' = [opened EXCEPT ![r] = path']
    /\ Mishap(\E q \in Reloaders : opened[q] # 0, "reloads")
    /\ UNCHANGED <<handle, next, tailVars, sourceVars, truncs>>

(* Under the mutex: the old file is closed, even if Close was first.       *)
ReloadSwap(r) ==
    /\ opened[r] # 0
    /\ handle' = opened[r]
    /\ opened' = [opened EXCEPT ![r] = 0]
    /\ UNCHANGED <<files, path, next, events, tailVars, sourceVars, truncs, mishaps>>

CloseSink ==
    /\ handle # 0 /\ ctx
    /\ handle' = 0
    /\ UNCHANGED <<files, path, opened, next, events, tailVars, sourceVars, truncs, mishaps>>

-----------------------------------------------------------------------------
(* External: the log rotator, by mv or by copytruncate.                    *)

(* Rotations overlap when the tailer has not come to the file of the path. *)
Rotate ==
    /\ path # 0 /\ Len(files) < MaxFiles
    /\ path' = 0
    /\ Notify("rename")
    /\ Mishap(tailing = "waiting" \/ f # path \/ "create" \in {events[i] : i \in 1..Len(events)},
              "overlap")
    /\ UNCHANGED <<files, sinkVars, tailVars, sourceVars, truncs>>

Truncate ==
    /\ path # 0 /\ truncs < MaxTruncs
    /\ files' = [files EXCEPT ![path] = <<>>]
    /\ truncs' = truncs + 1
    /\ Notify("write")
    /\ Mishap(TRUE, "truncated")
    /\ UNCHANGED <<path, sinkVars, tailVars, sourceVars>>

(* External: the event queue was full, or the watcher failed.  TailReader  *)
(* logs it and goes on.                                                    *)
LoseEvent ==
    /\ tailing # "ended" /\ events # <<>>
    /\ events' = SubSeq(events, 1, Len(events) - 1)
    /\ Mishap(TRUE, "unseen")
    /\ UNCHANGED <<files, path, sinkVars, tailVars, sourceVars, truncs>>

-----------------------------------------------------------------------------
(* TailReader.                                                             *)

(* waitForFile: open, and seek to the end; either may fail and is tried    *)
(* again.                                                                  *)
WaitForFile ==
    /\ tailing = "waiting" /\ path # 0 /\ ~ctx
    /\ tailing' = "running"
    /\ f' = path /\ pos' = Len(files[path]) /\ watched' = path
    /\ start' = next
    /\ UNCHANGED <<files, path, sinkVars, events, reading, lines, sourceVars, truncs, mishaps>>

Take(e) ==
    /\ tailing = "running" /\ reading = "no" /\ events # <<>> /\ Head(events) = e
    /\ events' = Tail(events)

(* Mutant: a file that was read to its end counts as truncated.            *)
handleTruncationAtEnd == IF pos >= Len(files[f]) THEN 0 ELSE pos

(* The position lies past the end: the file was truncated in place.        *)
handleTruncation == IF pos > Len(files[f]) THEN 0 ELSE pos

(* WRITE: the seek or the stat of handleTruncation may fail.               *)
HandleWrite ==
    /\ Take("write")
    /\ IF f = 0 THEN UNCHANGED <<pos, reading>>
       ELSE pos' \in {pos, handleTruncation} /\ reading' = "on"
    /\ UNCHANGED <<files, path, sinkVars, tailing, f, start, watched, lines, sourceVars,
                   truncs, mishaps>>

(* Mutant: the old file is closed without reading the rest of it.          *)
HandleRenameNoDrain ==
    /\ Take("rename")
    /\ f' = 0 /\ watched' = 0
    /\ UNCHANGED <<files, path, sinkVars, tailing, pos, reading, start, lines, sourceVars,
                   truncs, mishaps>>

(* RENAME or REMOVE: the rest of the old file is read, then it is closed.  *)
HandleRename ==
    /\ Take("rename")
    /\ IF f = 0 THEN watched' = 0 /\ UNCHANGED reading
       ELSE reading' = "drain" /\ UNCHANGED watched
    /\ UNCHANGED <<files, path, sinkVars, tailing, f, pos, start, lines, sourceVars,
                   truncs, mishaps>>

(* CREATE: the file at the path is read from its start.  When it is gone   *)
(* or cannot be opened the reader has no file until the next CREATE.       *)
HandleCreate ==
    /\ Take("create")
    /\ \/ /\ path # 0
          /\ f' = path /\ pos' = 0 /\ watched' = path /\ reading' = "on"
          /\ UNCHANGED mishaps
       \/ /\ f' = 0
          /\ Mishap(path # 0, "unopened")
          /\ UNCHANGED <<pos, watched, reading>>
    /\ UNCHANGED <<files, path, sinkVars, tailing, start, lines, sourceVars, truncs>>

(* readAvailableLines, one line: it is sent or dropped.  A read that times *)
(* out leaves a goroutine with the bufio.Reader that the next read uses:   *)
(* the line is lost to it, or the two read the same one.  The second may   *)
(* happen once: nothing is claimed of a reader after it.                   *)
ReadLine ==
    /\ reading # "no" /\ pos < Len(files[f])
    /\ \/ /\ Len(lines) < ChanSize
          /\ lines' = Append(lines, files[f][pos + 1]) /\ pos' = pos + 1
          /\ UNCHANGED mishaps
       \/ /\ pos' = pos + 1
          /\ Mishap(TRUE, "dropped") /\ UNCHANGED lines
       \/ /\ Len(lines) < ChanSize /\ "timeout" \notin mishaps
          /\ lines' = Append(lines, files[f][pos + 1]) /\ pos' = pos
          /\ Mishap(TRUE, "timeout")
    /\ UNCHANGED <<files, path, sinkVars, events, tailing, f, reading, start, watched,
                   sourceVars, truncs>>

(* The end of the file, or a read that fails before it.                    *)
ReadEnds ==
    /\ reading # "no"
    /\ Mishap(pos < Len(files[f]), "unread")
    /\ reading' = "no"
    /\ IF reading = "drain" THEN f' = 0 /\ watched' = 0 ELSE UNCHANGED <<f, watched>>
    /\ UNCHANGED <<files, path, sinkVars, events, tailing, pos, start, lines, sourceVars, truncs>>

(* The cancelled Run closes the channel; so does one that got no watcher   *)
(* or could not watch the directory.                                       *)
TailEnds ==
    /\ tailing = "waiting" \/ (tailing = "running" /\ reading = "no" /\ ctx)
    /\ tailing' = "ended" /\ f' = 0 /\ watched' = 0
    /\ UNCHANGED <<files, path, sinkVars, events, pos, reading, start, lines, sourceVars,
                   truncs, mishaps>>

-----------------------------------------------------------------------------
(* FileSource.Run ranges over the channel and returns when it is closed.   *)

(* A line that does not parse, or finds out full, goes no further.         *)
Receive ==
    /\ source = "running" /\ lines # <<>>
    /\ lines' = Tail(lines)
    /\ \/ seen' = Append(seen, Head(lines)) /\ UNCHANGED mishaps
       \/ UNCHANGED seen /\ Mishap(TRUE, "skipped")
    /\ UNCHANGED <<files, path, sinkVars, events, tailing, f, pos, reading, start, watched,
                   source, ctx, truncs>>

Return ==
    /\ source = "running" /\ lines = <<>> /\ tailing = "ended"
    /\ source' = "returned"
    /\ UNCHANGED <<files, path, sinkVars, events, tailVars, seen, ctx, truncs, mishaps>>

Cancel ==
    /\ ~ctx /\ ctx' = TRUE
    /\ UNCHANGED <<files, path, sinkVars, events, tailVars, seen, source, truncs, mishaps>>

-----------------------------------------------------------------------------
(* The sink has the file open; the reader starts when or before it exists. *)
Init ==
    /\ files = <<<<>>>> /\ path = 1 /\ handle = 1
    /\ opened = [r \in Reloaders |-> 0] /\ next = 1
    /\ events = <<>> /\ watched = 0 /\ tailing = "waiting" /\ f = 0 /\ pos = 0
    /\ reading = "no" /\ start = 1 /\ lines = <<>> /\ seen = <<>> /\ source = "running"
    /\ ctx = FALSE /\ truncs = 0 /\ mishaps = {}

HandleEvent == HandleWrite \/ HandleRename \/ HandleCreate

Next ==
    \/ Write \/ CloseSink \/ Rotate \/ Truncate \/ Cancel
    \/ \E r \in Reloaders : ReloadOpen(r) \/ ReloadSwap(r)
    \/ WaitForFile \/ LoseEvent \/ HandleEvent \/ ReadLine \/ ReadEnds \/ TailEnds
    \/ Receive \/ Return

Spec == Init /\ [][Next]_vars

-----------------------------------------------------------------------------
(* Properties.                                                             *)

Received == seen \o lines

(* No line is delivered twice or out of order, whatever is truncated,      *)
(* dropped, unseen or unopened, as long as no two reads shared a line,     *)
(* Reloads do not overlap and the path is not rotated again before the     *)
(* reader came to its file.                                                *)
InOrderOnce ==
    mishaps \cap {"overlap", "reloads", "timeout"} = {} =>
      \A i, j \in 1..Len(Received) : i < j => Received[i] < Received[j]

(* A reader with no event left to handle has every line written since it   *)
(* opened the file, over rotations too: lines FileSink writes are lost     *)
(* only by one of the mishaps.  pkg/source/file/README.md:9-11 promises    *)
(* more, a retry when the file disappears for a while: Run only retries    *)
(* before it first opened the file, so "unopened" is one of them.          *)
NothingLost ==
    mishaps = {} /\ tailing = "running" /\ reading = "no" /\ events = <<>> =>
      Received = [i \in 1..(next - start) |-> start + i - 1]

(* After Reload the sink writes the file at the path, not the rotated one, *)
(* unless two Reloads overlapped.                                          *)
HandleFollowsPath ==
    (/\ path # 0 /\ handle # 0 /\ "reloads" \notin mishaps
     /\ \A r \in Reloaders : opened[r] = 0) => handle = path
=============================================================================
