---------------------------- MODULE LogFileProofs ----------------------------
(***************************************************************************)
(* Proofs that the sink follows the path of a rotated log file, that its   *)
(* reader delivers no line twice or out of order, and that the mishaps are *)
(* the only ways to lose one: for any number of reloaders, lines,          *)
(* rotations and truncations and any size of the channel of lines.         *)
(***************************************************************************)
EXTENDS LogFile, TLAPS

EventKinds == {"write", "rename", "create"}

(* The types, whatever goes wrong.                                         *)
LogTypes ==
    /\ files \in Seq(Seq(Nat)) /\ next \in Nat /\ start \in Nat /\ pos \in Nat
    /\ path \in 0..Len(files) /\ handle \in 0..Len(files) /\ f \in 0..Len(files)
    /\ opened \in [Reloaders -> 0..Len(files)]
    /\ events \in Seq(EventKinds)
    /\ tailing \in {"waiting", "running", "ended"}
    /\ reading \in {"no", "on", "drain"}
    /\ lines \in Seq(Nat) /\ seen \in Seq(Nat)

(* The path has the newest file or none.  A file holds lines already       *)
(* written, in order.                                                      *)
FileInv ==
    /\ path \in {0, Len(files)}
    /\ \A i \in 1..Len(files) : \A k \in 1..Len(files[i]) : files[i][k] < next
    /\ \A i \in 1..Len(files) : \A k, l \in 1..Len(files[i]) :
         k < l => files[i][k] < files[i][l]

(* Reloads one at a time: what a reload has opened is the file at the path *)
(* unless that was rotated, the sink never goes back to an older file, and *)
(* so the lines of an older file are older.                                *)
SinkInv ==
    "reloads" \notin mishaps =>
      /\ \A q, r \in Reloaders : opened[q] # 0 /\ opened[r] # 0 => q = r
      /\ \A r \in Reloaders : opened[r] # 0 =>
           /\ handle <= opened[r] /\ path \in {0, opened[r]}
           /\ \A j \in 1..Len(files) : opened[r] < j => files[j] = <<>>
      /\ handle # 0 => \A j \in 1..Len(files) : handle < j => files[j] = <<>>
      /\ \A i, j \in 1..Len(files) : i < j =>
           \A k \in 1..Len(files[i]), l \in 1..Len(files[j]) : files[i][k] < files[j][l]
      /\ HandleFollowsPath

Pending(e) == \E i \in 1..Len(events) : events[i] = e

(* The open file of the reader has the watch, and when it is no more the   *)
(* file at the path the event that says so is still to come, or is being   *)
(* handled, or was lost.                                                   *)
WatchInv ==
    /\ tailing # "running" => f = 0
    /\ tailing = "waiting" => seen = <<>> /\ lines = <<>>
    /\ f # 0 => watched = f
    /\ reading # "no" => tailing = "running" /\ f # 0
    /\ f # 0 /\ f # path =>
         Pending("rename") \/ reading = "drain" \/ "unseen" \in mishaps

(* Rotations one at a time: a rotation and the new file that follows it    *)
(* are each announced once and in this order, the new file until the       *)
(* reader has come to it or failed to open it.                             *)
EventsOrdered ==
    \A i, j \in 1..Len(events) :
      /\ events[i] = events[j] /\ events[i] # "write" => i = j
      /\ events[i] = "rename" /\ events[j] = "create" => i < j

EventInv ==
    "overlap" \notin mishaps =>
      /\ tailing = "waiting" => path # 0 /\ ~Pending("rename") /\ ~Pending("create")
      /\ Pending("create") => path # 0 /\ f # path
      /\ tailing = "running" /\ Pending("rename") => f # path
      /\ reading = "drain" => f # path /\ ~Pending("rename")
      /\ tailing = "running" /\ path # 0 /\ f # path =>
           Pending("create") \/ mishaps \cap {"unseen", "unopened"} # {}
      /\ EventsOrdered

(* Every line received is older than the ones after it and than all that   *)
(* the reader may still read: of its file those past its position, or all  *)
(* after a truncation, and the whole of a file still to be announced.      *)
Older(k) == \A i \in 1..Len(Received) : Received[i] < k

OrderInv ==
    mishaps \cap {"overlap", "reloads", "timeout"} = {} =>
      /\ \A i, j \in 1..Len(Received) : i < j => Received[i] < Received[j]
      /\ Older(next)
      /\ f # 0 => \A k \in 1..Len(files[f]) : handleTruncation < k => Older(files[f][k])
      /\ Pending("create") => \A k \in 1..Len(files[path]) : Older(files[path][k])

(* Nothing went wrong: what was received, what is unread of the open file  *)
(* and what is in the announced file are the lines from start on, without  *)
(* a gap.                                                                  *)
Unread == IF f = 0 THEN 0 ELSE Len(files[f]) - pos

Announced == IF Pending("create") THEN Len(files[path]) ELSE 0

NoGap ==
    /\ start + Len(Received) + Unread + Announced = next
    /\ \A i \in 1..Len(Received) : Received[i] = start + i - 1
    /\ \A k \in 1..Unread : files[f][pos + k] = start + Len(Received) + k - 1
    /\ \A k \in 1..Announced : files[path][k] = start + Len(Received) + Unread + k - 1
    /\ Unread > 0 => events # <<>> \/ reading # "no"

GapInv ==
    mishaps = {} =>
      /\ f # 0 => pos <= Len(files[f])
      /\ tailing = "running" => NoGap

-----------------------------------------------------------------------------
(* What the operators do to sequences.                                     *)

(* What a concatenation of lines holds, index by index.                    *)
LEMMA LinesConcat ==
    ASSUME NEW s \in Seq(Nat), NEW t \in Seq(Nat)
    PROVE  /\ s \o t \in Seq(Nat) /\ Len(s \o t) = Len(s) + Len(t)
           /\ \A k \in 1..(Len(s) + Len(t)) :
                (s \o t)[k] = IF k <= Len(s) THEN s[k] ELSE t[k - Len(s)]
  OBVIOUS

(* Concatenation is associative.                                           *)
LEMMA LinesAssociative ==
    ASSUME NEW s \in Seq(Nat), NEW t \in Seq(Nat), NEW u \in Seq(Nat)
    PROVE  (s \o t) \o u = s \o (t \o u)
  OBVIOUS

(* The head moves from one sequence to the end of the other.               *)
LEMMA LineMoves ==
    ASSUME NEW s \in Seq(Nat), NEW t \in Seq(Nat), t # <<>>
    PROVE  /\ Append(s, Head(t)) \in Seq(Nat) /\ Tail(t) \in Seq(Nat)
           /\ Append(s, Head(t)) \o Tail(t) = s \o t
  <1>1. Head(t) \in Nat /\ Tail(t) \in Seq(Nat) /\ <<Head(t)>> \in Seq(Nat)
    OBVIOUS
  <1>2. Append(s, Head(t)) \in Seq(Nat) /\ Append(s, Head(t)) = s \o <<Head(t)>>
    BY <1>1
  <1>3. t = <<Head(t)>> \o Tail(t)
    OBVIOUS
  <1>4. (s \o <<Head(t)>>) \o Tail(t) = s \o (<<Head(t)>> \o Tail(t))
    BY <1>1, LinesAssociative
  <1>5. QED  BY <1>1, <1>2, <1>3, <1>4, Zenon

(* An event is put last, or it was last already.                           *)
LEMMA NotifyEffect ==
    ASSUME LogTypes, NEW e \in EventKinds, Notify(e)
    PROVE  /\ events' \in Seq(EventKinds)
           /\ Len(events') \in {Len(events), Len(events) + 1} /\ Len(events') > 0
           /\ \A i \in 1..Len(events) : events'[i] = events[i]
           /\ events'[Len(events')] = e
  <1>1. CASE events # <<>> /\ events[Len(events)] = e
    BY <1>1 DEF LogTypes, Notify
  <1>2. CASE ~(events # <<>> /\ events[Len(events)] = e)
    BY <1>2 DEF LogTypes, Notify
  <1>3. QED  BY <1>1, <1>2

(* fsnotify adds the event, or merges it with one that is pending.         *)
LEMMA NotifyPending ==
    ASSUME LogTypes, NEW e \in EventKinds, Notify(e), NEW x
    PROVE  Pending(x)' <=> Pending(x) \/ x = e
  <1>0. Len(events) \in Nat
    BY DEF LogTypes
  <1>1. ASSUME Pending(x)' PROVE Pending(x) \/ x = e
    <2>1. PICK i \in 1..Len(events') : events'[i] = x
      BY <1>1 DEF Pending
    <2>2. i \in 1..Len(events) \/ i = Len(events')
      BY <1>0, <2>1, NotifyEffect
    <2>3. QED  BY <2>1, <2>2, NotifyEffect DEF Pending
  <1>2. ASSUME Pending(x) PROVE Pending(x)'
    <2>1. PICK i \in 1..Len(events) : events[i] = x
      BY <1>2 DEF Pending
    <2>2. i \in 1..Len(events') /\ events'[i] = x
      BY <1>0, <2>1, NotifyEffect
    <2>3. QED  BY <2>2 DEF Pending
  <1>3. ASSUME x = e PROVE Pending(x)'
    <2>1. Len(events') \in 1..Len(events') /\ events'[Len(events')] = x
      BY <1>0, <1>3, NotifyEffect
    <2>2. QED  BY <2>1 DEF Pending
  <1>4. QED  BY <1>1, <1>2, <1>3

(* The first event is taken off.                                           *)
LEMMA TakeEffect ==
    ASSUME LogTypes, NEW e, Take(e)
    PROVE  /\ events' \in Seq(EventKinds)
           /\ Len(events) = Len(events') + 1 /\ events[1] = e
           /\ \A i \in 1..Len(events') : events'[i] = events[i + 1]
  BY DEF LogTypes, Take

(* The reader takes an event that was pending and leaves the others.       *)
LEMMA TakePending ==
    ASSUME LogTypes, NEW e, Take(e), NEW x
    PROVE  /\ Pending(e)
           /\ Pending(x)' => Pending(x)
           /\ Pending(x) /\ x # e => Pending(x)'
  <1>0. Len(events') \in Nat /\ Len(events) \in Nat
    BY TakeEffect DEF LogTypes
  <1>1. Pending(e)
    BY <1>0, TakeEffect DEF Pending
  <1>2. ASSUME Pending(x)' PROVE Pending(x)
    <2>1. PICK i \in 1..Len(events') : events'[i] = x
      BY <1>2 DEF Pending
    <2>2. i + 1 \in 1..Len(events) /\ events[i + 1] = x
      BY <1>0, <2>1, TakeEffect
    <2>3. QED  BY <2>2 DEF Pending
  <1>3. ASSUME Pending(x), x # e PROVE Pending(x)'
    <2>1. PICK i \in 1..Len(events) : events[i] = x
      BY <1>3 DEF Pending
    <2>2. i - 1 \in 1..Len(events') /\ events'[i - 1] = x
      BY <1>0, <1>3, <2>1, TakeEffect
    <2>3. QED  BY <2>2 DEF Pending
  <1>4. QED  BY <1>1, <1>2, <1>3

(* The lines of one file change, or an empty file is added.                *)
LEMMA FileSet ==
    ASSUME LogTypes, NEW i \in 1..Len(files), NEW s \in Seq(Nat),
           files' = [files EXCEPT ![i] = s]
    PROVE  /\ files' \in Seq(Seq(Nat)) /\ Len(files') = Len(files) /\ files'[i] = s
           /\ \A j \in 1..Len(files) : j # i => files'[j] = files[j]
  BY DEF LogTypes

(* A new file is empty and the others stay.                                *)
LEMMA FileAdded ==
    ASSUME LogTypes, files' = Append(files, <<>>)
    PROVE  /\ files' \in Seq(Seq(Nat)) /\ Len(files') = Len(files) + 1
           /\ files'[Len(files) + 1] = <<>>
           /\ \A j \in 1..Len(files) : files'[j] = files[j]
  <1>1. <<>> \in Seq(Nat)
    OBVIOUS
  <1>2. QED  BY <1>1 DEF LogTypes

(* Write appends the next line to the file of the handle and to no other.  *)
LEMMA WriteEffect ==
    ASSUME LogTypes, Write
    PROVE  /\ handle \in 1..Len(files) /\ files' \in Seq(Seq(Nat))
           /\ Len(files') = Len(files) /\ next' = next + 1
           /\ \A j \in 1..Len(files) : j # handle => files'[j] = files[j]
           /\ Len(files'[handle]) = Len(files[handle]) + 1
           /\ files'[handle][Len(files[handle]) + 1] = next
           /\ \A k \in 1..Len(files[handle]) : files'[handle][k] = files[handle][k]
  <1>1. handle \in 1..Len(files) /\ files[handle] \in Seq(Nat) /\ next \in Nat
    BY DEF LogTypes, Write
  <1> DEFINE longer == Append(files[handle], next)
  <1>2. /\ longer \in Seq(Nat) /\ Len(longer) = Len(files[handle]) + 1
        /\ longer[Len(files[handle]) + 1] = next
        /\ \A k \in 1..Len(files[handle]) : longer[k] = files[handle][k]
    BY <1>1
  <1>3. files' = [files EXCEPT ![handle] = longer] /\ next' = next + 1
    BY DEF Write
  <1> HIDE DEF longer
  <1>4. QED  BY <1>1, <1>2, <1>3, FileSet

(* What was sent to out and what is in the channel are the lines received. *)
LEMMA ReceivedType ==
    ASSUME LogTypes
    PROVE  /\ Received \in Seq(Nat) /\ Len(Received) = Len(seen) + Len(lines)
           /\ \A k \in 1..Len(Received) :
                Received[k] = IF k <= Len(seen) THEN seen[k] ELSE lines[k - Len(seen)]
  <1>1. seen \in Seq(Nat) /\ lines \in Seq(Nat)
    BY DEF LogTypes
  <1>2. QED  BY <1>1, LinesConcat DEF Received

(* The line x was received after the others.                               *)
Gained(x) ==
    /\ Len(Received') = Len(Received) + 1
    /\ \A k \in 1..Len(Received) : Received'[k] = Received[k]
    /\ Received'[Len(Received) + 1] = x

(* One of the lines received went no further.                              *)
Missed ==
    \E m \in Nat :
      /\ Len(Received) = Len(Received') + 1
      /\ \A k \in 1..Len(Received') :
           Received'[k] = IF k <= m THEN Received[k] ELSE Received[k + 1]

(* A line sent to the channel is received after the others.                *)
LEMMA SentEffect ==
    ASSUME LogTypes, NEW x \in Nat, seen' = seen, lines' = Append(lines, x)
    PROVE  lines' \in Seq(Nat) /\ Gained(x)
  <1>1. /\ seen \in Seq(Nat) /\ lines \in Seq(Nat) /\ Len(seen) \in Nat /\ Len(lines) \in Nat
    BY DEF LogTypes
  <1>2. /\ lines' \in Seq(Nat) /\ Len(lines') = Len(lines) + 1
        /\ lines'[Len(lines) + 1] = x
        /\ \A k \in 1..Len(lines) : lines'[k] = lines[k]
    BY <1>1
  <1>3. /\ Len(Received') = Len(seen) + Len(lines')
        /\ \A k \in 1..(Len(seen) + Len(lines')) :
             Received'[k] = IF k <= Len(seen) THEN seen[k] ELSE lines'[k - Len(seen)]
    <2>1. Received' = seen \o lines'
      BY DEF Received
    <2> HIDE DEF Received
    <2>2. QED  BY <1>1, <1>2, <2>1, LinesConcat
  <1>4. /\ Len(Received) = Len(seen) + Len(lines)
        /\ \A k \in 1..Len(Received) :
             Received[k] = IF k <= Len(seen) THEN seen[k] ELSE lines[k - Len(seen)]
    BY ReceivedType
  <1>5. Len(Received') = Len(Received) + 1
    BY <1>1, <1>2, <1>3, <1>4
  <1>6. ASSUME NEW k \in 1..Len(Received) PROVE Received'[k] = Received[k]
    <2>1. k \in 1..(Len(seen) + Len(lines')) /\ (k <= Len(seen) \/ k - Len(seen) \in 1..Len(lines))
      BY <1>1, <1>2, <1>4
    <2>2. QED  BY <1>2, <1>3, <1>4, <2>1
  <1>7. Received'[Len(Received) + 1] = x
    <2>1. /\ Len(Received) + 1 \in 1..(Len(seen) + Len(lines'))
          /\ ~(Len(Received) + 1 <= Len(seen))
          /\ Len(Received) + 1 - Len(seen) = Len(lines) + 1
      BY <1>1, <1>2, <1>4
    <2>2. QED  BY <1>2, <1>3, <2>1
  <1>8. QED  BY <1>2, <1>5, <1>6, <1>7 DEF Gained

(* FileSource takes a line: those received stay the same, or one of them   *)
(* goes no further and that is a mishap.                                   *)
LEMMA ReceiveEffect ==
    ASSUME LogTypes, Receive
    PROVE  /\ seen' \in Seq(Nat) /\ lines' \in Seq(Nat) /\ mishaps \subseteq mishaps'
           /\ Received' = Received \/ Missed
           /\ mishaps' = {} => Received' = Received
  <1>1. /\ seen \in Seq(Nat) /\ lines \in Seq(Nat) /\ lines # <<>> /\ lines' = Tail(lines)
        /\ Len(seen) \in Nat /\ Len(lines) \in Nat
    BY DEF LogTypes, Receive
  <1>2. CASE seen' = Append(seen, Head(lines)) /\ mishaps' = mishaps
    <2>1. Received' = Received /\ seen' \in Seq(Nat) /\ lines' \in Seq(Nat)
      BY <1>1, <1>2, LineMoves DEF Received
    <2>2. QED  BY <1>2, <2>1
  <1>3. CASE seen' = seen /\ mishaps' = mishaps \cup {"skipped"}
    <2>1. /\ lines' \in Seq(Nat) /\ Len(lines) = Len(lines') + 1
          /\ \A k \in 1..Len(lines') : lines'[k] = lines[k + 1]
      BY <1>1
    <2>2. /\ Len(Received') = Len(seen) + Len(lines')
          /\ \A k \in 1..(Len(seen) + Len(lines')) :
               Received'[k] = IF k <= Len(seen) THEN seen[k] ELSE lines'[k - Len(seen)]
      <3>1. Received' = seen \o lines'
        BY <1>3 DEF Received
      <3> HIDE DEF Received
      <3>2. QED  BY <1>1, <2>1, <3>1, LinesConcat
    <2>3. /\ Len(Received) = Len(seen) + Len(lines)
          /\ \A k \in 1..Len(Received) :
               Received[k] = IF k <= Len(seen) THEN seen[k] ELSE lines[k - Len(seen)]
      BY ReceivedType
    <2>4. Len(Received) = Len(Received') + 1
      BY <1>1, <2>1, <2>2, <2>3
    <2>5. ASSUME NEW k \in 1..Len(Received')
          PROVE  Received'[k] = IF k <= Len(seen) THEN Received[k] ELSE Received[k + 1]
      <3>1. k \in 1..Len(Received) /\ k + 1 \in 1..Len(Received) /\ Len(lines') \in Nat
        BY <1>1, <2>1, <2>2, <2>4
      <3>2. CASE k <= Len(seen)
        BY <2>2, <2>3, <3>1, <3>2
      <3>3. CASE ~(k <= Len(seen))
        <4>1. k - Len(seen) \in 1..Len(lines') /\ (k + 1) - Len(seen) = (k - Len(seen)) + 1
              /\ ~(k + 1 <= Len(seen))
          BY <1>1, <2>2, <3>1, <3>3
        <4>2. QED  BY <2>1, <2>2, <2>3, <3>1, <3>3, <4>1
      <3>4. QED  BY <3>2, <3>3
    <2>6. Missed
      BY <1>1, <2>4, <2>5 DEF Missed
    <2>7. QED  BY <1>1, <1>3, <2>1, <2>6
  <1>4. QED  BY <1>2, <1>3 DEF Receive, Mishap

(* A sequence without its last element.                                    *)
LEMMA Shortened ==
    ASSUME NEW S, NEW s \in Seq(S), NEW n \in Nat, Len(s) = n + 1,
           NEW t, t = SubSeq(s, 1, n)
    PROVE  t \in Seq(S) /\ Len(t) = n /\ \A i \in 1..Len(t) : t[i] = s[i]
  <1>1. t \in Seq(S)  OBVIOUS
  <1>2. Len(t) = n  OBVIOUS
  <1>3. \A i \in 1..n : t[i] = s[i]  OBVIOUS
  <1>4. QED  BY <1>1, <1>2, <1>3

(* The newest of the queued events is lost.                                *)
LEMMA LoseEffect ==
    ASSUME LogTypes, LoseEvent
    PROVE  /\ events' \in Seq(EventKinds) /\ Len(events) = Len(events') + 1
           /\ \A i \in 1..Len(events') : events'[i] = events[i]
           /\ "unseen" \in mishaps' /\ mishaps \subseteq mishaps'
  <1>1. /\ events \in Seq(EventKinds) /\ Len(events) \in Nat /\ Len(events) # 0
        /\ events' = SubSeq(events, 1, Len(events) - 1)
    BY DEF LogTypes, LoseEvent
  <1>2. /\ events' \in Seq(EventKinds) /\ Len(events) = Len(events') + 1
        /\ \A i \in 1..Len(events') : events'[i] = events[i]
    <2>1. PICK n \in Nat : n = Len(events) - 1
      BY <1>1
    <2>2. Len(events) = n + 1 /\ events' = SubSeq(events, 1, n)
      BY <1>1, <2>1
    <2>3. events' \in Seq(EventKinds) /\ Len(events') = n
          /\ \A i \in 1..Len(events') : events'[i] = events[i]
      BY <1>1, <2>2, Shortened
    <2>4. QED  BY <2>2, <2>3
  <1>3. QED  BY <1>2 DEF LoseEvent, Mishap

-----------------------------------------------------------------------------
(* The types and the history.                                              *)

(* The initial state has the types.                                        *)
LEMMA TypesInit == Init => LogTypes
  <1>1. <<>> \in Seq(Nat) /\ <<<<>>>> \in Seq(Seq(Nat)) /\ Len(<<<<>>>>) = 1
        /\ <<>> \in Seq(EventKinds)
    OBVIOUS
  <1>2. QED  BY <1>1 DEF Init, LogTypes

(* Reload opens the file at the path, and creates it if there is none.     *)
LEMMA ReloadOpenEffect ==
    ASSUME LogTypes, NEW r \in Reloaders, ReloadOpen(r)
    PROVE  /\ files' \in Seq(Seq(Nat)) /\ events' \in Seq(EventKinds)
           /\ path' \in 1..Len(files') /\ opened' = [opened EXCEPT ![r] = path']
           /\ Len(files') >= Len(files)
           /\ \A j \in 1..Len(files) : files'[j] = files[j]
           /\ path # 0 => files' = files /\ path' = path /\ events' = events
           /\ path = 0 => /\ path' = Len(files') /\ Len(files') = Len(files) + 1
                          /\ files'[path'] = <<>> /\ Notify("create")
  <1>1. opened' = [opened EXCEPT ![r] = path']
    BY DEF ReloadOpen
  <1>2. CASE path # 0
    BY <1>1, <1>2 DEF LogTypes, ReloadOpen
  <1>3. CASE path = 0
    <2>1. files' = Append(files, <<>>) /\ path' = Len(files') /\ Notify("create")
      BY <1>3 DEF ReloadOpen
    <2>2. /\ files' \in Seq(Seq(Nat)) /\ Len(files') = Len(files) + 1
          /\ files'[Len(files) + 1] = <<>>
          /\ \A j \in 1..Len(files) : files'[j] = files[j]
      BY <2>1, FileAdded
    <2>3. events' \in Seq(EventKinds)
      BY <2>1, NotifyEffect DEF EventKinds
    <2>4. Len(files) \in Nat
      BY DEF LogTypes
    <2>5. QED  BY <1>1, <1>3, <2>1, <2>2, <2>3, <2>4
  <1>4. QED  BY <1>2, <1>3

(* Truncation empties the file at the path and no other.                   *)
LEMMA TruncateEffect ==
    ASSUME LogTypes, Truncate
    PROVE  /\ path \in 1..Len(files) /\ files' \in Seq(Seq(Nat))
           /\ Len(files') = Len(files) /\ files'[path] = <<>>
           /\ \A j \in 1..Len(files) : j # path => files'[j] = files[j]
  <1>1. path \in 1..Len(files) /\ files' = [files EXCEPT ![path] = <<>>] /\ <<>> \in Seq(Nat)
    BY DEF LogTypes, Truncate
  <1>2. QED  BY <1>1, FileSet

(* The types hold, and what went wrong is not forgotten.                   *)
LEMMA TypesStep ==
    ASSUME LogTypes, WatchInv, [Next]_vars
    PROVE  LogTypes' /\ mishaps \subseteq mishaps'
  <1>0. Len(files) \in Nat /\ \A j \in 1..Len(files) : files[j] \in Seq(Nat)
    BY DEF LogTypes
  <1>1. CASE Write
    <2>1. events' \in Seq(EventKinds)
      <3>1. CASE Notify("write")
        BY <3>1, NotifyEffect DEF EventKinds
      <3>2. CASE events' = events
        BY <3>2 DEF LogTypes
      <3>3. QED  BY <1>1, <3>1, <3>2 DEF Write
    <2>2. files' \in Seq(Seq(Nat)) /\ Len(files') = Len(files) /\ next' = next + 1
      BY <1>1, WriteEffect
    <2>3. QED  BY <1>1, <2>1, <2>2 DEF LogTypes, Write, Mishap, tailVars, sourceVars
  <1>2. CASE CloseSink
    BY <1>2 DEF LogTypes, CloseSink, tailVars, sourceVars
  <1>3. CASE Rotate
    <2>1. events' \in Seq(EventKinds)
      BY <1>3, NotifyEffect DEF Rotate, EventKinds
    <2>2. QED  BY <1>3, <2>1 DEF LogTypes, Rotate, Mishap, sinkVars, tailVars, sourceVars
  <1>4. CASE Truncate
    <2>1. events' \in Seq(EventKinds)
      BY <1>4, NotifyEffect DEF Truncate, EventKinds
    <2>2. files' \in Seq(Seq(Nat)) /\ Len(files') = Len(files)
      BY <1>4, TruncateEffect
    <2>3. QED  BY <1>4, <2>1, <2>2 DEF LogTypes, Truncate, Mishap, sinkVars, tailVars, sourceVars
  <1>5. CASE Cancel
    BY <1>5 DEF LogTypes, Cancel, sinkVars, tailVars
  <1>6. ASSUME NEW r \in Reloaders, ReloadOpen(r)
        PROVE  LogTypes' /\ mishaps \subseteq mishaps'
    <2>1. /\ files' \in Seq(Seq(Nat)) /\ events' \in Seq(EventKinds)
          /\ path' \in 1..Len(files') /\ opened' = [opened EXCEPT ![r] = path']
          /\ Len(files') >= Len(files)
      BY <1>6, ReloadOpenEffect
    <2>2. Len(files') \in Nat
      BY <2>1
    <2>3. opened' \in [Reloaders -> 0..Len(files')]
      BY <1>0, <2>1, <2>2 DEF LogTypes
    <2>4. QED
      BY <1>0, <1>6, <2>1, <2>2, <2>3, SMTT(30) DEF LogTypes, ReloadOpen, Mishap, tailVars, sourceVars
  <1>7. ASSUME NEW r \in Reloaders, ReloadSwap(r)
        PROVE  LogTypes' /\ mishaps \subseteq mishaps'
    BY <1>7 DEF LogTypes, ReloadSwap, tailVars, sourceVars
  <1>8. CASE WaitForFile
    BY <1>0, <1>8 DEF LogTypes, WaitForFile, sinkVars, sourceVars
  <1>9. CASE HandleWrite
    <2>1. events' \in Seq(EventKinds)
      BY <1>9, TakeEffect DEF HandleWrite
    <2>2. pos' \in Nat /\ reading' \in {"no", "on", "drain"}
      <3>1. CASE f = 0
        BY <1>9, <3>1 DEF HandleWrite, LogTypes
      <3>2. CASE f # 0
        <4>1. f \in 1..Len(files) /\ pos \in Nat
          BY <3>2 DEF LogTypes
        <4>2. handleTruncation \in Nat
          BY <4>1 DEF handleTruncation
        <4>3. pos' \in {pos, handleTruncation} /\ reading' = "on"
          BY <1>9, <3>2 DEF HandleWrite
        <4>4. QED  BY <4>1, <4>2, <4>3
      <3>3. QED  BY <3>1, <3>2
    <2>3. QED  BY <1>9, <2>1, <2>2 DEF LogTypes, HandleWrite, sinkVars, sourceVars
  <1>10. CASE HandleRename
    <2>1. events' \in Seq(EventKinds)
      BY <1>10, TakeEffect DEF HandleRename
    <2>2. reading' \in {"no", "on", "drain"}
      BY <1>10 DEF HandleRename, LogTypes
    <2>3. QED  BY <1>10, <2>1, <2>2 DEF LogTypes, HandleRename, sinkVars, sourceVars
  <1>11. CASE HandleCreate
    <2>1. events' \in Seq(EventKinds)
      BY <1>11, TakeEffect DEF HandleCreate
    <2>2. /\ f' \in 0..Len(files) /\ pos' \in Nat /\ reading' \in {"no", "on", "drain"}
          /\ mishaps \subseteq mishaps'
      BY <1>0, <1>11 DEF LogTypes, HandleCreate, Mishap
    <2>3. QED  BY <1>11, <2>1, <2>2 DEF LogTypes, HandleCreate, sinkVars, sourceVars
  <1>12. CASE TailEnds
    BY <1>0, <1>12 DEF LogTypes, TailEnds, sinkVars, sourceVars
  <1>13. CASE Receive
    <2>1. seen' \in Seq(Nat) /\ lines' \in Seq(Nat) /\ mishaps \subseteq mishaps'
      BY <1>13, ReceiveEffect
    <2>2. QED  BY <1>13, <2>1 DEF LogTypes, Receive, sinkVars
  <1>17. ASSUME ReadLine PROVE LogTypes' /\ mishaps \subseteq mishaps'
    <2>1. /\ f \in 1..Len(files) /\ pos \in Nat /\ Len(files[f]) \in Nat
          /\ pos < Len(files[f]) /\ files[f] \in Seq(Nat)
      BY <1>0, <1>17 DEF LogTypes, WatchInv, ReadLine
    <2>2. files[f][pos + 1] \in Nat
      BY <2>1
    <2>3. lines' \in Seq(Nat)
      <3>1. CASE lines' = Append(lines, files[f][pos + 1])
        BY <1>17, <2>2, <3>1, SentEffect DEF ReadLine, sourceVars
      <3>2. CASE lines' = lines
        BY <3>2 DEF LogTypes
      <3>3. QED  BY <1>17, <3>1, <3>2 DEF ReadLine
    <2>4. pos' \in Nat /\ mishaps \subseteq mishaps'
      BY <1>17, <2>1 DEF ReadLine, Mishap
    <2>5. QED  BY <1>17, <2>3, <2>4 DEF LogTypes, ReadLine, sinkVars, sourceVars
  <1>18. CASE ReadEnds
    <2>1. f' \in 0..Len(files) /\ mishaps \subseteq mishaps'
      BY <1>0, <1>18 DEF LogTypes, ReadEnds, Mishap
    <2>2. QED  BY <1>18, <2>1 DEF LogTypes, ReadEnds, sinkVars, sourceVars
  <1>19. CASE LoseEvent
    <2>1. events' \in Seq(EventKinds) /\ mishaps \subseteq mishaps'
      BY <1>19, LoseEffect
    <2>2. QED  BY <1>19, <2>1 DEF LogTypes, LoseEvent, sinkVars, tailVars, sourceVars
  <1>14. CASE Return
    BY <1>14 DEF LogTypes, Return, sinkVars, tailVars
  <1>15. CASE UNCHANGED vars
    BY <1>15 DEF LogTypes, vars
  <1>16. QED
    BY <1>1, <1>2, <1>3, <1>4, <1>5, <1>6, <1>7, <1>8, <1>9, <1>10, <1>11, <1>12, <1>13,
       <1>14, <1>15, <1>17, <1>18, <1>19 DEF Next, HandleEvent

-----------------------------------------------------------------------------
(* The files and the sink.                                                 *)

SinkStep ==
    \/ Write \/ CloseSink \/ Rotate \/ Truncate
    \/ \E r \in Reloaders : ReloadOpen(r) \/ ReloadSwap(r)

(* The reader changes neither the files nor the sink.                      *)
LEMMA ReaderFrame ==
    ASSUME [Next]_vars, ~SinkStep
    PROVE  UNCHANGED <<files, path, handle, opened, next>>
  BY DEF Next, HandleEvent, vars, sinkVars, SinkStep, Cancel, WaitForFile, HandleWrite,
         HandleRename, HandleCreate, LoseEvent, ReadLine, ReadEnds, TailEnds, Receive, Return

(* Every step keeps the lines in order within a file, and the newest file  *)
(* at the path.                                                            *)
LEMMA FileStep ==
    ASSUME LogTypes, FileInv, [Next]_vars
    PROVE  FileInv'
  <1>0. Len(files) \in Nat /\ next \in Nat /\ \A j \in 1..Len(files) : files[j] \in Seq(Nat)
    BY DEF LogTypes
  <1>1. CASE Write
    <2>1. /\ handle \in 1..Len(files) /\ Len(files') = Len(files) /\ next' = next + 1
          /\ \A j \in 1..Len(files) : j # handle => files'[j] = files[j]
          /\ Len(files'[handle]) = Len(files[handle]) + 1
          /\ files'[handle][Len(files[handle]) + 1] = next
          /\ \A k \in 1..Len(files[handle]) : files'[handle][k] = files[handle][k]
      BY <1>1, WriteEffect
    <2>2. path' = path
      BY <1>1 DEF Write
    <2>3. \A i \in 1..Len(files) : Len(files[i]) \in Nat
               /\ \A k \in 1..Len(files[i]) : files[i][k] \in Nat
      BY <1>0
    <2>4. ASSUME NEW i \in 1..Len(files'), NEW k \in 1..Len(files'[i])
          PROVE  files'[i][k] < next'
      <3>1. CASE i # handle
        BY <1>0, <2>1, <2>3, <3>1 DEF FileInv
      <3>2. CASE i = handle
        <4>1. k \in 1..Len(files[handle]) \/ k = Len(files[handle]) + 1
          BY <2>1, <2>3, <3>2
        <4>2. \A m \in 1..Len(files[handle]) : files[handle][m] < next /\ files[handle][m] \in Nat
          BY <2>1, <2>3 DEF FileInv
        <4>3. CASE k \in 1..Len(files[handle])
          <5>1. files'[handle][k] = files[handle][k]
            BY <2>1, <4>3
          <5>2. QED  BY <1>0, <2>1, <3>2, <4>2, <4>3, <5>1
        <4>4. CASE k = Len(files[handle]) + 1
          BY <1>0, <2>1, <3>2, <4>4
        <4>5. QED  BY <4>1, <4>3, <4>4
      <3>3. QED  BY <3>1, <3>2
    <2>5. ASSUME NEW i \in 1..Len(files'), NEW k \in 1..Len(files'[i]),
                 NEW l \in 1..Len(files'[i]), k < l
          PROVE  files'[i][k] < files'[i][l]
      <3>1. CASE i # handle
        BY <2>1, <2>5, <3>1 DEF FileInv
      <3>2. CASE i = handle
        <4>1. /\ k \in 1..Len(files[handle])
              /\ l \in 1..Len(files[handle]) \/ l = Len(files[handle]) + 1
          BY <2>1, <2>3, <2>5, <3>2
        <4>2. QED  BY <2>1, <2>5, <3>2, <4>1 DEF FileInv
      <3>3. QED  BY <3>1, <3>2
    <2>6. path' \in {0, Len(files')}
      BY <2>1, <2>2 DEF FileInv
    <2>7. QED  BY <2>4, <2>5, <2>6 DEF FileInv
  <1>2. CASE CloseSink \/ Rotate \/ \E r \in Reloaders : ReloadSwap(r)
    BY <1>2 DEF FileInv, CloseSink, Rotate, ReloadSwap, sinkVars
  <1>3. CASE Truncate
    <2>1. /\ path \in 1..Len(files) /\ Len(files') = Len(files) /\ files'[path] = <<>>
          /\ \A j \in 1..Len(files) : j # path => files'[j] = files[j]
      BY <1>3, TruncateEffect
    <2>2. path' = path /\ next' = next
      BY <1>3 DEF Truncate, sinkVars
    <2>3. QED  BY <2>1, <2>2 DEF FileInv
  <1>4. ASSUME NEW r \in Reloaders, ReloadOpen(r) PROVE FileInv'
    <2>1. next' = next
      BY <1>4 DEF ReloadOpen
    <2>2. CASE path # 0
      BY <1>4, <2>1, <2>2, ReloadOpenEffect DEF FileInv
    <2>3. CASE path = 0
      <3>1. /\ path' = Len(files') /\ Len(files') = Len(files) + 1
            /\ files'[Len(files) + 1] = <<>>
            /\ \A j \in 1..Len(files) : files'[j] = files[j]
        BY <1>4, <2>3, ReloadOpenEffect
      <3>2. \A j \in 1..Len(files') : j \in 1..Len(files) \/ j = Len(files) + 1
        BY <1>0, <3>1
      <3>3. Len(<<>>) = 0 /\ \A k \in 1..0 : FALSE
        OBVIOUS
      <3>4. ASSUME NEW i \in 1..Len(files')
            PROVE  /\ \A k \in 1..Len(files'[i]) : files'[i][k] < next'
                   /\ \A k, l \in 1..Len(files'[i]) : k < l => files'[i][k] < files'[i][l]
        <4>1. CASE i \in 1..Len(files)
          BY <2>1, <3>1, <4>1 DEF FileInv
        <4>2. CASE i = Len(files) + 1
          BY <3>1, <3>3, <4>2
        <4>3. QED  BY <3>2, <4>1, <4>2
      <3>5. QED  BY <3>1, <3>4 DEF FileInv
    <2>4. QED  BY <2>2, <2>3
  <1>5. CASE ~SinkStep
    BY <1>5, ReaderFrame DEF FileInv
  <1>6. QED  BY <1>1, <1>2, <1>3, <1>4, <1>5 DEF SinkStep

(* Every step keeps what is known of the sink and its reloads.             *)
LEMMA SinkPreserved ==
    ASSUME LogTypes, FileInv, SinkInv, WatchInv, [Next]_vars
    PROVE  SinkInv'
  <1>0. /\ Len(files) \in Nat /\ next \in Nat
        /\ path \in 0..Len(files) /\ handle \in 0..Len(files)
        /\ \A j \in 1..Len(files) : files[j] \in Seq(Nat)
        /\ opened \in [Reloaders -> 0..Len(files)]
    BY DEF LogTypes
  <1>1. mishaps \subseteq mishaps'
    BY TypesStep
  <1>2. SUFFICES ASSUME "reloads" \notin mishaps' PROVE SinkInv'
    BY DEF SinkInv
  <1>3. "reloads" \notin mishaps
    BY <1>1, <1>2
  <1>4. CASE Write
    <2>1. /\ handle \in 1..Len(files) /\ Len(files') = Len(files)
          /\ \A j \in 1..Len(files) : j # handle => files'[j] = files[j]
          /\ Len(files'[handle]) = Len(files[handle]) + 1
          /\ files'[handle][Len(files[handle]) + 1] = next
          /\ \A k \in 1..Len(files[handle]) : files'[handle][k] = files[handle][k]
      BY <1>4, WriteEffect
    <2>2. UNCHANGED <<path, handle, opened>>
      BY <1>4 DEF Write
    <2>3. ASSUME NEW r \in Reloaders, opened[r] # 0, NEW j \in 1..Len(files), opened[r] < j
          PROVE  files'[j] = <<>>
      <3>1. handle <= opened[r] /\ files[j] = <<>>
        BY <1>3, <2>3 DEF SinkInv
      <3>2. j # handle
        BY <1>0, <2>3, <3>1
      <3>3. QED  BY <2>1, <3>1, <3>2
    <2>4. ASSUME NEW j \in 1..Len(files), handle < j
          PROVE  files[j] = <<>> /\ files'[j] = <<>>
      BY <1>0, <1>3, <2>1, <2>4, SMTT(30) DEF SinkInv
    <2>5. ASSUME NEW i \in 1..Len(files), NEW j \in 1..Len(files), i < j,
                 NEW k \in 1..Len(files'[i]), NEW l \in 1..Len(files'[j])
          PROVE  files'[i][k] < files'[j][l]
      <3>1. i # handle
        BY <2>4, <2>5
      <3>2. CASE j # handle
        BY <1>3, <2>1, <2>5, <3>1, <3>2 DEF SinkInv
      <3>3. CASE j = handle
        <4>1. Len(files[handle]) \in Nat
          BY <1>0, <2>1
        <4>2. l \in 1..Len(files[handle]) \/ l = Len(files[handle]) + 1
          BY <2>1, <3>3, <4>1
        <4>3. k \in 1..Len(files[i]) /\ files'[i] = files[i]
          BY <2>1, <3>1
        <4>4. QED  BY <1>3, <2>1, <2>5, <3>3, <4>2, <4>3 DEF SinkInv, FileInv
      <3>4. QED  BY <3>2, <3>3
    <2>6. HandleFollowsPath'
      BY <1>3, <2>2 DEF SinkInv, HandleFollowsPath
    <2>7. QED  BY <1>3, <2>1, <2>2, <2>3, <2>4, <2>5, <2>6 DEF SinkInv
  <1>5. CASE CloseSink
    <2>1. handle' = 0 /\ UNCHANGED <<files, path, opened>>
      BY <1>5 DEF CloseSink
    <2>2. \A r \in Reloaders : handle' <= opened[r]
      BY <1>0, <2>1
    <2>3. HandleFollowsPath'
      BY <2>1 DEF HandleFollowsPath
    <2>4. QED  BY <1>3, <2>1, <2>2, <2>3, SMTT(30) DEF SinkInv
  <1>6. CASE Rotate
    <2>1. path' = 0 /\ UNCHANGED <<files, handle, opened>>
      BY <1>6 DEF Rotate, sinkVars
    <2>2. HandleFollowsPath'
      BY <2>1 DEF HandleFollowsPath
    <2>3. QED  BY <1>3, <2>1, <2>2 DEF SinkInv
  <1>7. CASE Truncate
    <2>1. /\ path \in 1..Len(files) /\ Len(files') = Len(files) /\ files'[path] = <<>>
          /\ \A j \in 1..Len(files) : j # path => files'[j] = files[j]
      BY <1>7, TruncateEffect
    <2>2. UNCHANGED <<path, handle, opened>>
      BY <1>7 DEF Truncate, sinkVars
    <2>3. \A j \in 1..Len(files) : files'[j] = files[j] \/ files'[j] = <<>>
      BY <2>1
    <2>4. \A i, j \in 1..Len(files) : i < j =>
            \A k \in 1..Len(files'[i]), l \in 1..Len(files'[j]) : files'[i][k] < files'[j][l]
      BY <1>3, <2>1, SMTT(30) DEF SinkInv
    <2>5. HandleFollowsPath'
      BY <1>3, <2>2 DEF SinkInv, HandleFollowsPath
    <2>6. QED  BY <1>3, <2>1, <2>2, <2>3, <2>4, <2>5 DEF SinkInv
  <1>8. ASSUME NEW r \in Reloaders, ReloadOpen(r) PROVE SinkInv'
    <2>1. \A q \in Reloaders : opened[q] = 0
      BY <1>2, <1>8 DEF ReloadOpen, Mishap
    <2>2. handle' = handle /\ opened' = [opened EXCEPT ![r] = path']
      BY <1>8 DEF ReloadOpen
    <2>3. /\ path' = Len(files') /\ path' # 0 /\ Len(files') >= Len(files)
          /\ Len(files') \in Nat
          /\ \A j \in 1..Len(files') :
               files'[j] = <<>> \/ (j \in 1..Len(files) /\ files'[j] = files[j])
      <3>1. CASE path # 0
        BY <1>0, <1>8, <3>1, ReloadOpenEffect DEF FileInv
      <3>2. CASE path = 0
        <4>1. /\ path' = Len(files') /\ Len(files') = Len(files) + 1
              /\ files'[Len(files) + 1] = <<>>
              /\ \A j \in 1..Len(files) : files'[j] = files[j]
          BY <1>8, <3>2, ReloadOpenEffect
        <4>2. \A j \in 1..Len(files') : j \in 1..Len(files) \/ j = Len(files) + 1
          BY <1>0, <4>1
        <4>3. QED  BY <1>0, <4>1, <4>2
      <3>3. QED  BY <3>1, <3>2
    <2>4. \A q \in Reloaders : opened'[q] # 0 => q = r /\ opened'[q] = path'
      BY <1>0, <2>1, <2>2
    <2>5. opened'[r] = path'
      BY <1>0, <2>2
    <2>6. handle' <= path'
      BY <1>0, <2>2, <2>3
    <2>7. HandleFollowsPath'
      BY <2>3, <2>5 DEF HandleFollowsPath
    <2>8. \A j \in 1..Len(files') : ~(path' < j)
      BY <2>3
    <2>9. \A i, j \in 1..Len(files') : i < j =>
            \A k \in 1..Len(files'[i]), l \in 1..Len(files'[j]) : files'[i][k] < files'[j][l]
      BY <1>3, <2>3 DEF SinkInv
    <2>10. handle' # 0 => \A j \in 1..Len(files') : handle' < j => files'[j] = <<>>
      BY <1>3, <2>2, <2>3 DEF SinkInv
    <2>11. QED  BY <2>4, <2>6, <2>7, <2>8, <2>9, <2>10 DEF SinkInv
  <1>9. ASSUME NEW r \in Reloaders, ReloadSwap(r) PROVE SinkInv'
    <2>1. /\ opened[r] # 0 /\ handle' = opened[r] /\ opened' = [opened EXCEPT ![r] = 0]
          /\ UNCHANGED <<files, path>>
      BY <1>9 DEF ReloadSwap
    <2>2. \A q \in Reloaders : opened'[q] = 0
      BY <1>0, <1>3, <2>1 DEF SinkInv
    <2>3. path \in {0, opened[r]}
      BY <1>3, <2>1 DEF SinkInv
    <2>4. HandleFollowsPath'
      BY <2>1, <2>3 DEF HandleFollowsPath
    <2>5. \A j \in 1..Len(files) : opened[r] < j => files[j] = <<>>
      BY <1>3, <2>1 DEF SinkInv
    <2>6. QED  BY <1>3, <2>1, <2>2, <2>4, <2>5 DEF SinkInv
  <1>10. CASE ~SinkStep
    <2>1. UNCHANGED <<files, path, handle, opened>>
      BY <1>10, ReaderFrame
    <2>2. HandleFollowsPath'
      BY <1>3, <2>1 DEF SinkInv, HandleFollowsPath
    <2>3. QED  BY <1>3, <2>1, <2>2 DEF SinkInv
  <1>11. QED  BY <1>4, <1>5, <1>6, <1>7, <1>8, <1>9, <1>10 DEF SinkStep

-----------------------------------------------------------------------------
(* The watch and the events.                                               *)

(* A step that leaves the queued events alone keeps what is said of them.  *)
LEMMA EventsKept ==
    ASSUME events' = events, NEW x
    PROVE  (Pending(x)' <=> Pending(x)) /\ (EventsOrdered' <=> EventsOrdered)
  BY DEF Pending, EventsOrdered

(* A write only adds an event of its kind.                                 *)
LEMMA WriteEvents ==
    ASSUME LogTypes, Notify("write") \/ events' = events
    PROVE  /\ Pending("rename")' <=> Pending("rename")
           /\ Pending("create")' <=> Pending("create")
  <1>1. CASE Notify("write")
    BY <1>1, NotifyPending DEF EventKinds
  <1>2. CASE events' = events
    BY <1>2, EventsKept
  <1>3. QED  BY <1>1, <1>2

(* An event is announced once and in order if it was not yet.              *)
LEMMA NotifyOrdered ==
    ASSUME LogTypes, EventsOrdered, NEW e \in EventKinds, Notify(e),
           e # "write" => ~Pending(e), e = "rename" => ~Pending("create")
    PROVE  EventsOrdered'
  <1>0. Len(events) \in Nat
    BY DEF LogTypes
  <1>1. /\ Len(events') \in {Len(events), Len(events) + 1}
        /\ \A i \in 1..Len(events) : events'[i] = events[i]
        /\ events'[Len(events')] = e
    BY NotifyEffect
  <1>2. SUFFICES ASSUME NEW i \in 1..Len(events'), NEW j \in 1..Len(events')
                 PROVE  /\ events'[i] = events'[j] /\ events'[i] # "write" => i = j
                        /\ events'[i] = "rename" /\ events'[j] = "create" => i < j
    BY DEF EventsOrdered
  <1>3. /\ i \in 1..Len(events) \/ (i = Len(events') /\ i = Len(events) + 1)
        /\ j \in 1..Len(events) \/ (j = Len(events') /\ j = Len(events) + 1)
    BY <1>0, <1>1
  <1>4. CASE i \in 1..Len(events) /\ j \in 1..Len(events)
    BY <1>1, <1>4 DEF EventsOrdered
  <1>5. CASE i \in 1..Len(events) /\ j = Len(events') /\ j = Len(events) + 1
    BY <1>0, <1>1, <1>5 DEF Pending
  <1>6. CASE i = Len(events') /\ i = Len(events) + 1 /\ j \in 1..Len(events)
    BY <1>0, <1>1, <1>6 DEF Pending
  <1>7. CASE i = Len(events') /\ j = Len(events')
    BY <1>1, <1>7 DEF EventKinds
  <1>8. QED  BY <1>3, <1>4, <1>5, <1>6, <1>7

(* Taking an event keeps rename before create, each pending once.          *)
LEMMA TakeOrdered ==
    ASSUME LogTypes, EventsOrdered, NEW e, Take(e)
    PROVE  /\ EventsOrdered'
           /\ e # "write" => ~Pending(e)'
           /\ e = "create" => ~Pending("rename")'
  <1>0. Len(events) \in Nat /\ Len(events') \in Nat
    BY TakeEffect DEF LogTypes
  <1>1. /\ Len(events) = Len(events') + 1 /\ events[1] = e
        /\ \A i \in 1..Len(events') : events'[i] = events[i + 1]
    BY TakeEffect
  <1>2. 1 \in 1..Len(events) /\ \A i \in 1..Len(events') : i + 1 \in 1..Len(events) /\ i + 1 > 1
    BY <1>0, <1>1
  <1>3. ASSUME NEW i \in 1..Len(events'), NEW j \in 1..Len(events')
        PROVE  /\ events'[i] = events'[j] /\ events'[i] # "write" => i = j
               /\ events'[i] = "rename" /\ events'[j] = "create" => i < j
    <2>1. i + 1 \in 1..Len(events) /\ j + 1 \in 1..Len(events)
      BY <1>2
    <2>2. /\ events[i + 1] = events[j + 1] /\ events[i + 1] # "write" => i + 1 = j + 1
          /\ events[i + 1] = "rename" /\ events[j + 1] = "create" => i + 1 < j + 1
      BY <2>1 DEF EventsOrdered
    <2>3. QED  BY <1>0, <1>1, <2>2
  <1>4. ASSUME e # "write", Pending(e)' PROVE FALSE
    <2>1. PICK i \in 1..Len(events') : events'[i] = e
      BY <1>4 DEF Pending
    <2>2. events[i + 1] = events[1] /\ events[1] # "write" /\ i + 1 # 1
      BY <1>1, <1>2, <1>4, <2>1
    <2>3. QED  BY <1>2, <2>2 DEF EventsOrdered
  <1>5. ASSUME e = "create", Pending("rename")' PROVE FALSE
    <2>1. PICK i \in 1..Len(events') : events'[i] = "rename"
      BY <1>5 DEF Pending
    <2>2. events[i + 1] = "rename" /\ events[1] = "create" /\ ~(i + 1 < 1)
      BY <1>0, <1>1, <1>2, <1>5, <2>1
    <2>3. QED  BY <1>2, <2>2 DEF EventsOrdered
  <1>6. EventsOrdered'
    BY <1>3 DEF EventsOrdered
  <1>7. QED  BY <1>4, <1>5, <1>6

(* Losing an event leaves the others, in their order.                      *)
LEMMA LosePending ==
    ASSUME LogTypes, LoseEvent, NEW x
    PROVE  (Pending(x)' => Pending(x)) /\ (EventsOrdered => EventsOrdered')
  <1>1. /\ Len(events) \in Nat /\ Len(events') \in Nat /\ Len(events) = Len(events') + 1
        /\ \A i \in 1..Len(events') : events'[i] = events[i]
    BY LoseEffect DEF LogTypes
  <1>2. \A i \in 1..Len(events') : i \in 1..Len(events)
    BY <1>1
  <1>3. QED  BY <1>1, <1>2 DEF Pending, EventsOrdered

(* Every step keeps what is known of the watch.                            *)
LEMMA WatchStep ==
    ASSUME LogTypes, WatchInv, [Next]_vars
    PROVE  WatchInv'
  <1>0. Len(files) \in Nat /\ f \in 0..Len(files)
    BY DEF LogTypes
  <1>1. mishaps \subseteq mishaps'
    BY TypesStep
  <1>2. ASSUME UNCHANGED <<tailing, f, watched, path, reading>>,
               tailing = "waiting" => seen' = seen /\ lines' = lines,
               Pending("rename") => Pending("rename")' \/ "unseen" \in mishaps'
        PROVE  WatchInv'
    BY <1>1, <1>2 DEF WatchInv
  <1>3. CASE Write \/ Truncate
    <2>1. Pending("rename")' <=> Pending("rename")
      BY <1>3, WriteEvents DEF Write, Truncate
    <2>2. QED  BY <1>2, <1>3, <2>1 DEF Write, Truncate, tailVars, sourceVars
  <1>4. CASE CloseSink \/ Cancel \/ Return \/ UNCHANGED vars
             \/ \E r \in Reloaders : ReloadSwap(r)
    <2>1. Pending("rename")' <=> Pending("rename")
      BY <1>4, EventsKept DEF CloseSink, Cancel, Return, ReloadSwap, vars
    <2>2. QED
      BY <1>2, <1>4, <2>1 DEF CloseSink, Cancel, Return, ReloadSwap, vars, tailVars, sourceVars
  <1>5. CASE Rotate
    <2>1. Pending("rename")'
      BY <1>5, NotifyPending DEF Rotate, EventKinds
    <2>2. QED  BY <1>5, <2>1 DEF WatchInv, Rotate, tailVars, sourceVars
  <1>6. ASSUME NEW r \in Reloaders, ReloadOpen(r) PROVE WatchInv'
    <2>1. UNCHANGED <<tailing, f, watched, reading, lines, seen>>
      BY <1>6 DEF ReloadOpen, tailVars, sourceVars
    <2>2. CASE path # 0
      <3>1. path' = path /\ events' = events
        BY <1>6, <2>2, ReloadOpenEffect
      <3>2. Pending("rename")' <=> Pending("rename")
        BY <3>1, EventsKept
      <3>3. QED  BY <1>2, <2>1, <3>1, <3>2
    <2>3. CASE path = 0
      <3>1. Notify("create")
        BY <1>6, <2>3, ReloadOpenEffect
      <3>2. Pending("rename") => Pending("rename")'
        BY <3>1, NotifyPending DEF EventKinds
      <3>3. QED  BY <1>1, <2>1, <2>3, <3>2 DEF WatchInv
    <2>4. QED  BY <2>2, <2>3
  <1>7. CASE WaitForFile
    BY <1>7 DEF WatchInv, WaitForFile
  <1>8. CASE HandleWrite
    <2>1. tailing = "running" /\ reading = "no" /\ UNCHANGED <<tailing, f, watched, path>>
      BY <1>8 DEF HandleWrite, Take
    <2>2. Pending("rename") => Pending("rename")'
      BY <1>8, TakePending DEF HandleWrite
    <2>3. reading' # "no" => f # 0
      BY <1>8, <2>1 DEF HandleWrite
    <2>4. QED  BY <1>1, <2>1, <2>2, <2>3 DEF WatchInv
  <1>9. CASE HandleRename
    BY <1>9 DEF WatchInv, HandleRename, Take
  <1>10. CASE HandleCreate
    BY <1>10 DEF WatchInv, HandleCreate, Take
  <1>11. CASE TailEnds
    BY <1>11 DEF WatchInv, TailEnds
  <1>12. CASE Receive
    <2>1. Pending("rename")' <=> Pending("rename")
      BY <1>12, EventsKept DEF Receive
    <2>2. tailing # "waiting"
      BY <1>12 DEF WatchInv, Receive
    <2>3. QED  BY <1>2, <1>12, <2>1, <2>2 DEF Receive
  <1>13. CASE LoseEvent
    <2>1. "unseen" \in mishaps'
      BY <1>13, LoseEffect
    <2>2. QED  BY <1>2, <1>13, <2>1 DEF LoseEvent, tailVars, sourceVars
  <1>14. CASE ReadLine
    <2>1. Pending("rename")' <=> Pending("rename")
      BY <1>14, EventsKept DEF ReadLine
    <2>2. tailing = "running"
      BY <1>14 DEF WatchInv, ReadLine
    <2>3. QED  BY <1>2, <1>14, <2>1, <2>2 DEF ReadLine
  <1>15. CASE ReadEnds
    <2>1. Pending("rename")' <=> Pending("rename")
      BY <1>15, EventsKept DEF ReadEnds
    <2>2. tailing = "running" /\ reading' = "no" /\ UNCHANGED <<tailing, path>>
      BY <1>15 DEF WatchInv, ReadEnds
    <2>3. CASE reading = "drain"
      BY <1>15, <2>2, <2>3 DEF WatchInv, ReadEnds
    <2>4. CASE reading # "drain"
      BY <1>1, <1>15, <2>1, <2>2, <2>4 DEF WatchInv, ReadEnds
    <2>5. QED  BY <2>3, <2>4
  <1>16. QED
    BY <1>3, <1>4, <1>5, <1>6, <1>7, <1>8, <1>9, <1>10, <1>11, <1>12, <1>13, <1>14, <1>15
       DEF Next, HandleEvent

(* Every step keeps a rotation announced until the reader has seen it.     *)
LEMMA EventStep ==
    ASSUME LogTypes, WatchInv, EventInv, [Next]_vars
    PROVE  EventInv'
  <1>0. Len(files) \in Nat /\ f \in 0..Len(files) /\ path \in 0..Len(files)
    BY DEF LogTypes
  <1>1. SUFFICES ASSUME "overlap" \notin mishaps' PROVE EventInv'
    BY DEF EventInv
  <1>2. "overlap" \notin mishaps /\ mishaps \subseteq mishaps'
    BY <1>1, TypesStep
  <1>3. EventsOrdered
    BY <1>2 DEF EventInv
  <1>4. ASSUME UNCHANGED <<tailing, f, path, reading>>, Notify("write") \/ events' = events
        PROVE  EventInv'
    <2>1. /\ Pending("rename")' <=> Pending("rename")
          /\ Pending("create")' <=> Pending("create")
      BY <1>4, WriteEvents
    <2>2. EventsOrdered'
      <3>1. CASE Notify("write")
        BY <1>3, <3>1, NotifyOrdered DEF EventKinds
      <3>2. CASE events' = events
        BY <1>3, <3>2, EventsKept
      <3>3. QED  BY <1>4, <3>1, <3>2
    <2>3. QED  BY <1>2, <1>4, <2>1, <2>2 DEF EventInv
  <1>5. CASE Write \/ Truncate \/ CloseSink \/ Cancel \/ Receive \/ Return \/ ReadLine
             \/ UNCHANGED vars \/ \E r \in Reloaders : ReloadSwap(r)
    BY <1>4, <1>5 DEF Write, Truncate, CloseSink, Cancel, Receive, Return, ReadLine,
                      ReloadSwap, vars, tailVars
  <1>6. CASE Rotate
    <2>1. f = path /\ path # 0 /\ ~Pending("create") /\ tailing # "waiting"
      BY <1>1, <1>6 DEF Rotate, Mishap, Pending
    <2>2. tailing = "running" /\ ~Pending("rename") /\ reading # "drain"
      BY <1>2, <2>1 DEF WatchInv, EventInv
    <2>3. Notify("rename") /\ UNCHANGED <<tailing, f, reading>> /\ path' = 0
      BY <1>6 DEF Rotate, tailVars
    <2>4. ~Pending("create")'
      BY <2>1, <2>3, NotifyPending DEF EventKinds
    <2>5. EventsOrdered'
      BY <1>3, <2>1, <2>2, <2>3, NotifyOrdered DEF EventKinds
    <2>6. QED  BY <2>1, <2>2, <2>3, <2>4, <2>5 DEF EventInv
  <1>7. ASSUME NEW r \in Reloaders, ReloadOpen(r) PROVE EventInv'
    <2>1. UNCHANGED <<tailing, f, reading>>
      BY <1>7 DEF ReloadOpen, tailVars
    <2>2. CASE path # 0
      BY <1>4, <1>7, <2>1, <2>2, ReloadOpenEffect
    <2>3. CASE path = 0
      <3>1. Notify("create") /\ path' = Len(files) + 1
        BY <1>7, <2>3, ReloadOpenEffect
      <3>2. tailing # "waiting" /\ ~Pending("create")
        BY <1>2, <2>3 DEF EventInv
      <3>3. Pending("create")' /\ (reading = "drain" => ~Pending("rename")')
        BY <1>2, <3>1, NotifyPending DEF EventKinds, EventInv
      <3>4. EventsOrdered'
        BY <1>3, <3>1, <3>2, NotifyOrdered DEF EventKinds
      <3>5. path' # 0 /\ f # path'
        BY <1>0, <3>1
      <3>6. QED  BY <2>1, <3>2, <3>3, <3>4, <3>5 DEF EventInv
    <2>4. QED  BY <2>2, <2>3
  <1>8. CASE WaitForFile
    <2>1. tailing = "waiting" /\ tailing' = "running" /\ path # 0 /\ f' = path
          /\ reading' = "no" /\ UNCHANGED <<path, events>>
      BY <1>8 DEF WaitForFile, WatchInv
    <2>2. ~Pending("rename")' /\ ~Pending("create")' /\ EventsOrdered'
      BY <1>2, <1>3, <2>1, EventsKept DEF EventInv
    <2>3. QED  BY <2>1, <2>2 DEF EventInv
  <1>9. CASE HandleWrite
    <2>1. Take("write") /\ UNCHANGED <<tailing, f, path>> /\ tailing = "running"
          /\ reading' # "drain"
      BY <1>9 DEF HandleWrite, Take
    <2>2. /\ Pending("rename")' <=> Pending("rename")
          /\ Pending("create")' <=> Pending("create")
      BY <2>1, TakePending
    <2>3. EventsOrdered'
      BY <1>3, <2>1, TakeOrdered
    <2>4. QED  BY <1>2, <2>1, <2>2, <2>3 DEF EventInv
  <1>10. CASE HandleRename
    <2>1. Take("rename") /\ UNCHANGED <<tailing, path, f>> /\ tailing = "running"
      BY <1>10 DEF HandleRename, Take
    <2>2. Pending("create")' <=> Pending("create")
      BY <2>1, TakePending
    <2>3. f # path
      BY <1>2, <2>1, TakePending DEF EventInv
    <2>4. EventsOrdered' /\ ~Pending("rename")'
      BY <1>3, <2>1, TakeOrdered
    <2>5. QED  BY <1>2, <2>1, <2>2, <2>3, <2>4 DEF EventInv
  <1>11. CASE HandleCreate
    <2>1. /\ Take("create") /\ UNCHANGED <<tailing, path>> /\ tailing = "running"
          /\ f' = path \/ "unopened" \in mishaps'
          /\ reading' # "drain"
      BY <1>11 DEF HandleCreate, Take, Mishap
    <2>2. EventsOrdered' /\ ~Pending("rename")' /\ ~Pending("create")'
      BY <1>3, <2>1, TakeOrdered
    <2>3. QED  BY <2>1, <2>2 DEF EventInv
  <1>12. CASE TailEnds
    <2>1. tailing' = "ended" /\ f' = 0 /\ UNCHANGED <<path, events>> /\ reading' = "no"
      BY <1>12 DEF TailEnds, WatchInv
    <2>2. (Pending("create")' => Pending("create")) /\ EventsOrdered'
      BY <1>3, <2>1, EventsKept
    <2>3. QED  BY <1>2, <2>1, <2>2 DEF EventInv
  <1>13. CASE LoseEvent
    <2>1. /\ Pending("rename")' => Pending("rename")
          /\ Pending("create")' => Pending("create")
          /\ EventsOrdered' /\ "unseen" \in mishaps'
      BY <1>3, <1>13, LosePending, LoseEffect
    <2>2. UNCHANGED <<tailing, f, path, reading>>
      BY <1>13 DEF LoseEvent, tailVars
    <2>3. QED  BY <1>2, <2>1, <2>2 DEF EventInv
  <1>14. CASE ReadEnds
    <2>1. reading # "no" /\ reading' = "no" /\ UNCHANGED <<tailing, path, events>>
      BY <1>14 DEF ReadEnds
    <2>2. /\ Pending("rename")' <=> Pending("rename")
          /\ Pending("create")' <=> Pending("create")
          /\ EventsOrdered' /\ tailing = "running"
      BY <1>3, <2>1, EventsKept DEF WatchInv
    <2>3. CASE reading = "drain"
      <3>1. f # path /\ ~Pending("rename") /\ f' = 0
        BY <1>2, <1>14, <2>3 DEF EventInv, ReadEnds
      <3>2. Pending("create") \/ path = 0 \/ mishaps \cap {"unseen", "unopened"} # {}
        BY <1>2, <2>2, <3>1 DEF EventInv
      <3>3. Pending("create") => path # 0
        BY <1>2 DEF EventInv
      <3>4. QED  BY <1>2, <2>1, <2>2, <3>1, <3>2, <3>3 DEF EventInv
    <2>4. CASE reading # "drain"
      <3>1. f' = f
        BY <1>14, <2>4 DEF ReadEnds
      <3>2. QED  BY <1>2, <2>1, <2>2, <3>1 DEF EventInv
    <2>5. QED  BY <2>3, <2>4
  <1>15. QED
    BY <1>5, <1>6, <1>7, <1>8, <1>9, <1>10, <1>11, <1>12, <1>13, <1>14 DEF Next, HandleEvent

-----------------------------------------------------------------------------
(* The order of the lines received.                                        *)

Ascending == \A i, j \in 1..Len(Received) : i < j => Received[i] < Received[j]

OlderThen(x) == \A i \in 1..Len(Received') : Received'[i] < x

(* A line later than those received is put after them: the order stays,    *)
(* and so does what is later than both.                                    *)
LEMMA GainedOrder ==
    ASSUME LogTypes, Ascending, NEW x \in Nat, Older(x), Gained(x)
    PROVE  Ascending' /\ \A y : Older(y) /\ x < y => OlderThen(y)
  <1>0. Len(Received) \in Nat
    BY ReceivedType
  <1>1. /\ Len(Received') = Len(Received) + 1
        /\ \A k \in 1..Len(Received) : Received'[k] = Received[k]
        /\ Received'[Len(Received) + 1] = x
    BY DEF Gained
  <1>2. \A k \in 1..Len(Received') : k \in 1..Len(Received) \/ k = Len(Received) + 1
    BY <1>0, <1>1
  <1>3. Ascending'
    <2>1. SUFFICES ASSUME NEW k \in 1..Len(Received'), NEW l \in 1..Len(Received'), k < l
                   PROVE  Received'[k] < Received'[l]
      BY DEF Ascending
    <2>2. k \in 1..Len(Received)
      BY <1>0, <1>1, <2>1
    <2>3. CASE l \in 1..Len(Received)
      BY <1>1, <2>1, <2>2, <2>3 DEF Ascending
    <2>4. CASE l = Len(Received) + 1
      BY <1>1, <2>2, <2>4 DEF Older
    <2>5. QED  BY <1>2, <2>3, <2>4
  <1>4. ASSUME NEW y, Older(y), x < y PROVE OlderThen(y)
    BY <1>1, <1>2, <1>4 DEF Older, OlderThen
  <1>5. QED  BY <1>3, <1>4

(* A line that goes no further leaves the others in their order.           *)
LEMMA MissedOrder ==
    ASSUME LogTypes, Ascending, Missed, seen' \in Seq(Nat), lines' \in Seq(Nat)
    PROVE  Ascending' /\ \A y : Older(y) => OlderThen(y)
  <1>1. PICK m \in Nat :
          /\ Len(Received) = Len(Received') + 1
          /\ \A k \in 1..Len(Received') :
               Received'[k] = IF k <= m THEN Received[k] ELSE Received[k + 1]
    BY DEF Missed
  <1>2. Len(Received) \in Nat /\ Len(Received') \in Nat
    BY ReceivedType, LinesConcat DEF Received
  <1>3. \A k \in 1..Len(Received') :
          /\ k \in 1..Len(Received) /\ k + 1 \in 1..Len(Received)
          /\ \E j \in {k, k + 1} : Received'[k] = Received[j]
    <2>1. SUFFICES ASSUME NEW k \in 1..Len(Received')
                   PROVE  /\ k \in 1..Len(Received) /\ k + 1 \in 1..Len(Received)
                          /\ \E j \in {k, k + 1} : Received'[k] = Received[j]
      OBVIOUS
    <2>2. PICK n \in Nat : n = Len(Received')
      BY <1>2
    <2>3. Len(Received) = n + 1 /\ k \in 1..n
      BY <1>1, <2>1, <2>2, Zenon
    <2>4. k \in 1..Len(Received) /\ k + 1 \in 1..Len(Received)
      BY <2>3
    <2>5. Received'[k] = IF k <= m THEN Received[k] ELSE Received[k + 1]
      BY <1>1, <2>1, Zenon
    <2>6. \E j \in {k, k + 1} : Received'[k] = Received[j]
      BY <2>5, Zenon
    <2>7. QED  BY <2>4, <2>6
  <1>4. ASSUME NEW k \in 1..Len(Received'), NEW l \in 1..Len(Received'), k < l
        PROVE  Received'[k] < Received'[l]
    <2>1. CASE l <= m
      BY <1>1, <1>2, <1>3, <1>4, <2>1 DEF Ascending
    <2>2. CASE k <= m /\ ~(l <= m)
      BY <1>1, <1>2, <1>3, <1>4, <2>2 DEF Ascending
    <2>3. CASE ~(k <= m) /\ ~(l <= m)
      <3>1. Received'[k] = Received[k + 1] /\ Received'[l] = Received[l + 1]
        BY <1>1, <1>4, <2>3
      <3>2. k + 1 \in 1..Len(Received) /\ l + 1 \in 1..Len(Received) /\ k + 1 < l + 1
        BY <1>3, <1>4
      <3>3. QED  BY <3>1, <3>2 DEF Ascending
    <2>4. QED  BY <1>1, <1>2, <1>4, <2>1, <2>2, <2>3
  <1>5. ASSUME NEW y, Older(y) PROVE OlderThen(y)
    BY <1>3, <1>5 DEF Older, OlderThen
  <1>6. QED  BY <1>4, <1>5 DEF Ascending

(* Every step keeps what was received older than what may be read.         *)
LEMMA OrderStep ==
    ASSUME LogTypes, FileInv, SinkInv, WatchInv, EventInv, OrderInv, [Next]_vars
    PROVE  OrderInv'
  <1>1. SUFFICES ASSUME mishaps' \cap {"overlap", "reloads", "timeout"} = {}
                 PROVE  OrderInv'
    BY DEF OrderInv
  <1>2. /\ mishaps \cap {"overlap", "reloads", "timeout"} = {}
        /\ "overlap" \notin mishaps /\ "reloads" \notin mishaps
        /\ "overlap" \notin mishaps' /\ "timeout" \notin mishaps'
    BY <1>1, TypesStep
  <1>3. /\ Ascending /\ Older(next)
        /\ f # 0 => \A k \in 1..Len(files[f]) : handleTruncation < k => Older(files[f][k])
        /\ Pending("create") => \A k \in 1..Len(files[path]) : Older(files[path][k])
    BY <1>2 DEF OrderInv, Ascending
  <1>4. SUFFICES
          /\ Ascending' /\ OlderThen(next')
          /\ f' # 0 => \A k \in 1..Len(files'[f']) :
                         handleTruncation' < k => OlderThen(files'[f'][k])
          /\ Pending("create")' =>
               \A k \in 1..Len(files'[path']) : OlderThen(files'[path'][k])
    BY DEF OrderInv, Ascending, Older, OlderThen
  <1>5. /\ Len(files) \in Nat /\ f \in 0..Len(files) /\ path \in 0..Len(files)
        /\ next \in Nat /\ pos \in Nat
        /\ \A j \in 1..Len(files) : files[j] \in Seq(Nat) /\ Len(files[j]) \in Nat
    BY DEF LogTypes
  <1>6. ASSUME Received' = Received
        PROVE  Ascending' /\ \A x : Older(x) => OlderThen(x)
    BY <1>3, <1>6 DEF Ascending, Older, OlderThen
  <1>7. ASSUME seen' = seen, lines' = lines PROVE Received' = Received
    BY <1>7 DEF Received
  <1>8. ASSUME Received' = Received, UNCHANGED <<files, path, next, f, pos>>,
               Pending("create")' => Pending("create")
        PROVE  /\ Ascending' /\ OlderThen(next')
               /\ f' # 0 => \A k \in 1..Len(files'[f']) :
                              handleTruncation' < k => OlderThen(files'[f'][k])
               /\ Pending("create")' =>
                    \A k \in 1..Len(files'[path']) : OlderThen(files'[path'][k])
    <2>1. handleTruncation' = handleTruncation
      BY <1>8 DEF handleTruncation
    <2>2. QED  BY <1>3, <1>6, <1>8, <2>1
  <1>9. CASE Write
    <2>1. /\ handle \in 1..Len(files)
          /\ \A j \in 1..Len(files) : j # handle => files'[j] = files[j]
          /\ Len(files'[handle]) = Len(files[handle]) + 1
          /\ files'[handle][Len(files[handle]) + 1] = next
          /\ \A k \in 1..Len(files[handle]) : files'[handle][k] = files[handle][k]
          /\ next' = next + 1
      BY <1>9, WriteEffect
    <2>2. UNCHANGED <<path, f, pos, seen, lines>>
      BY <1>9 DEF Write, tailVars, sourceVars
    <2>3. Ascending' /\ \A x : Older(x) => OlderThen(x)
      BY <1>6, <1>7, <2>2
    <2>4. OlderThen(next')
      <3>1. Received' \in Seq(Nat) /\ OlderThen(next)
        BY <1>3, <1>7, <2>2, <2>3, ReceivedType
      <3>2. \A i \in 1..Len(Received') : Received'[i] \in Nat /\ Received'[i] < next
        BY <3>1 DEF OlderThen
      <3>3. next \in Nat /\ next' = next + 1
        BY <1>5, <2>1
      <3>4. ASSUME NEW i \in 1..Len(Received') PROVE Received'[i] < next'
        <4>1. PICK x \in Nat : x = Received'[i] /\ x < next
          BY <3>2
        <4>2. QED  BY <3>3, <4>1
      <3>5. QED  BY <3>4 DEF OlderThen
    <2>5. ASSUME NEW j \in 1..Len(files), NEW k \in 1..Len(files'[j])
          PROVE  \/ k \in 1..Len(files[j]) /\ files'[j][k] = files[j][k]
                 \/ j = handle /\ k = Len(files[j]) + 1 /\ OlderThen(files'[j][k])
      <3>1. CASE j # handle
        BY <2>1, <3>1
      <3>2. CASE j = handle
        <4>1. k \in 1..Len(files[handle]) \/ k = Len(files[handle]) + 1
          BY <1>5, <2>1, <3>2
        <4>2. QED  BY <1>3, <2>1, <2>3, <3>2, <4>1
      <3>3. QED  BY <3>1, <3>2
    <2>6. ASSUME f # 0, NEW k \in 1..Len(files'[f]), handleTruncation' < k
          PROVE  OlderThen(files'[f][k])
      <3>1. f \in 1..Len(files)
        BY <1>5, <2>6
      <3>2. CASE k \in 1..Len(files[f]) /\ files'[f][k] = files[f][k]
        <4>1. handleTruncation < k
          <5>1. Len(files'[f]) \in {Len(files[f]), Len(files[f]) + 1}
            BY <2>1, <3>1
          <5>2. handleTruncation' = IF pos > Len(files'[f]) THEN 0 ELSE pos
            BY <2>2 DEF handleTruncation
          <5>3. Len(files[f]) \in Nat
            BY <1>5, <3>1
          <5>4. k \in Nat /\ 0 < k /\ handleTruncation' < k
            BY <2>6, <3>2, <5>3
          <5>5. CASE pos > Len(files[f])
            BY <5>4, <5>5 DEF handleTruncation
          <5>6. CASE ~(pos > Len(files[f]))
            <6>1. ~(pos > Len(files'[f]))
              BY <1>5, <5>1, <5>3, <5>6
            <6>2. QED  BY <5>2, <5>4, <5>6, <6>1 DEF handleTruncation
          <5>7. QED  BY <5>5, <5>6
        <4>2. QED  BY <1>3, <2>3, <2>6, <3>2, <4>1
      <3>3. QED  BY <2>5, <3>1, <3>2
    <2>7. ASSUME Pending("create"), NEW k \in 1..Len(files'[path])
          PROVE  OlderThen(files'[path][k])
      <3>1. path \in 1..Len(files)
        BY <1>2, <1>5, <2>7 DEF EventInv
      <3>2. QED  BY <1>3, <2>3, <2>5, <2>7, <3>1
    <2>8. Pending("create")' <=> Pending("create")
      BY <1>9, WriteEvents DEF Write
    <2>9. QED  BY <2>2, <2>3, <2>4, <2>6, <2>7, <2>8
  <1>10. CASE Truncate
    <2>1. /\ path \in 1..Len(files) /\ files'[path] = <<>>
          /\ \A j \in 1..Len(files) : j # path => files'[j] = files[j]
      BY <1>10, TruncateEffect
    <2>2. UNCHANGED <<path, f, pos, next, seen, lines>>
      BY <1>10 DEF Truncate, sinkVars, tailVars, sourceVars
    <2>3. Ascending' /\ \A x : Older(x) => OlderThen(x)
      BY <1>6, <1>7, <2>2
    <2>4. \A k \in 1..Len(files'[path]) : FALSE
      BY <2>1
    <2>5. ASSUME f # 0, f # path PROVE files'[f] = files[f] /\ handleTruncation' = handleTruncation
      BY <1>5, <2>1, <2>2, <2>5 DEF handleTruncation
    <2>6. QED  BY <1>3, <2>2, <2>3, <2>4, <2>5
  <1>11. CASE CloseSink \/ Cancel \/ LoseEvent \/ Return \/ UNCHANGED vars
              \/ \E r \in Reloaders : ReloadSwap(r)
    <2>1. UNCHANGED <<files, path, next, f, pos, seen, lines>>
      BY <1>11 DEF CloseSink, Cancel, LoseEvent, Return, ReloadSwap, vars, sinkVars, tailVars,
                   sourceVars
    <2>2. Pending("create")' => Pending("create")
      <3>1. CASE LoseEvent
        BY <3>1, LosePending
      <3>2. CASE ~LoseEvent
        BY <1>11, <3>2, EventsKept DEF CloseSink, Cancel, Return, ReloadSwap, vars
      <3>3. QED  BY <3>1, <3>2
    <2>3. QED  BY <1>7, <1>8, <2>1, <2>2
  <1>12. CASE Rotate
    <2>1. ~Pending("create") /\ Notify("rename")
      BY <1>2, <1>12 DEF Rotate, Mishap, Pending
    <2>2. ~Pending("create")'
      BY <2>1, NotifyPending DEF EventKinds
    <2>3. UNCHANGED <<files, f, pos, next, seen, lines>>
      BY <1>12 DEF Rotate, sinkVars, tailVars, sourceVars
    <2>4. Ascending' /\ (\A x : Older(x) => OlderThen(x)) /\ handleTruncation' = handleTruncation
      BY <1>6, <1>7, <2>3 DEF handleTruncation
    <2>5. QED  BY <1>3, <2>2, <2>3, <2>4
  <1>13. ASSUME NEW r \in Reloaders, ReloadOpen(r)
         PROVE  /\ Ascending' /\ OlderThen(next')
                /\ f' # 0 => \A k \in 1..Len(files'[f']) :
                               handleTruncation' < k => OlderThen(files'[f'][k])
                /\ Pending("create")' =>
                     \A k \in 1..Len(files'[path']) : OlderThen(files'[path'][k])
    <2>1. UNCHANGED <<f, pos, next, seen, lines>>
      BY <1>13 DEF ReloadOpen, tailVars, sourceVars
    <2>2. CASE path # 0
      <3>1. UNCHANGED <<files, path, events>>
        BY <1>13, <2>2, ReloadOpenEffect
      <3>2. Pending("create")' => Pending("create")
        BY <3>1, EventsKept
      <3>3. QED  BY <1>7, <1>8, <2>1, <3>1, <3>2
    <2>3. CASE path = 0
      <3>1. files'[path'] = <<>> /\ \A j \in 1..Len(files) : files'[j] = files[j]
        BY <1>13, <2>3, ReloadOpenEffect
      <3>2. \A k \in 1..Len(files'[path']) : FALSE
        BY <3>1
      <3>3. Ascending' /\ \A x : Older(x) => OlderThen(x)
        BY <1>6, <1>7, <2>1
      <3>4. f # 0 => files'[f] = files[f] /\ handleTruncation' = handleTruncation
        BY <1>5, <2>1, <3>1 DEF handleTruncation
      <3>5. QED  BY <1>3, <2>1, <3>2, <3>3, <3>4
    <2>4. QED  BY <2>2, <2>3
  <1>14. CASE WaitForFile
    <2>1. Len(Received') = 0
      <3>1. seen' = <<>> /\ lines' = <<>>
        BY <1>14 DEF WaitForFile, WatchInv, sourceVars
      <3>2. QED  BY <3>1 DEF Received
    <2>2. Ascending' /\ \A x : OlderThen(x)
      BY <2>1 DEF Ascending, OlderThen
    <2>3. QED  BY <2>2
  <1>15. CASE Receive
    <2>1. UNCHANGED <<files, path, next, f, pos, events>>
      BY <1>15 DEF Receive, sinkVars
    <2>2. Ascending' /\ \A x : Older(x) => OlderThen(x)
      <3>1. seen' \in Seq(Nat) /\ lines' \in Seq(Nat) /\ (Received' = Received \/ Missed)
        BY <1>15, ReceiveEffect
      <3>2. QED  BY <1>3, <1>6, <3>1, MissedOrder
    <2>3. Pending("create")' => Pending("create")
      BY <2>1, EventsKept
    <2>4. handleTruncation' = handleTruncation
      BY <2>1 DEF handleTruncation
    <2>5. QED  BY <1>3, <2>1, <2>2, <2>3, <2>4
  <1>16. ASSUME f # 0, Pending("create")
         PROVE  /\ path \in 1..Len(files)
                /\ \A k \in 1..Len(files[f]), l \in 1..Len(files[path]) :
                     files[f][k] < files[path][l]
    <2>1. path \in 1..Len(files) /\ f \in 1..Len(files) /\ f < path
      BY <1>2, <1>5, <1>16 DEF EventInv, FileInv
    <2>2. QED  BY <1>2, <2>1 DEF SinkInv
  <1>17. CASE HandleWrite
    <2>1. Take("write") /\ UNCHANGED <<files, path, f, next, seen, lines>>
      BY <1>17 DEF HandleWrite, sinkVars, sourceVars
    <2>2. Pending("create")' => Pending("create")
      BY <2>1, TakePending
    <2>3. Ascending' /\ \A x : Older(x) => OlderThen(x)
      BY <1>6, <1>7, <2>1
    <2>4. ASSUME f # 0 PROVE handleTruncation' = handleTruncation
      <3>1. pos' \in {pos, handleTruncation}
        BY <1>17, <2>4 DEF HandleWrite
      <3>2. Len(files[f]) \in Nat
        BY <1>5, <2>4
      <3>3. QED  BY <1>5, <2>1, <3>1, <3>2 DEF handleTruncation
    <2>5. QED  BY <1>3, <2>1, <2>2, <2>3, <2>4
  <1>18. CASE HandleRename
    <2>1. Take("rename") /\ UNCHANGED <<files, path, f, pos, next, seen, lines>>
      BY <1>18 DEF HandleRename, sinkVars, sourceVars
    <2>2. Pending("create")' => Pending("create")
      BY <2>1, TakePending
    <2>3. QED  BY <1>7, <1>8, <2>1, <2>2
  <1>19. CASE HandleCreate
    <2>1. Take("create") /\ UNCHANGED <<files, path, next, seen, lines>>
      BY <1>19 DEF HandleCreate, sinkVars, sourceVars
    <2>2. Pending("create")
      BY <2>1, TakePending
    <2>3. ~Pending("create")'
      BY <1>2, <2>1, TakeOrdered DEF EventInv
    <2>4. Ascending' /\ \A x : Older(x) => OlderThen(x)
      BY <1>6, <1>7, <2>1
    <2>5. f' # 0 => f' = path
      BY <1>19 DEF HandleCreate
    <2>6. QED  BY <1>3, <2>1, <2>2, <2>3, <2>4, <2>5
  <1>22. CASE ReadLine
    <2>1. /\ f \in 1..Len(files) /\ f # 0 /\ Len(files[f]) \in Nat /\ pos < Len(files[f])
          /\ pos + 1 \in 1..Len(files[f]) /\ files[f] \in Seq(Nat)
      BY <1>5, <1>22 DEF ReadLine, WatchInv
    <2>2. UNCHANGED <<files, path, f, next, seen, events>>
      BY <1>22 DEF ReadLine, sinkVars, sourceVars
    <2>3. pos' = pos + 1
      BY <1>1, <1>22 DEF ReadLine, Mishap
    <2>4. Pending("create")' => Pending("create")
      BY <2>2, EventsKept
    <2> DEFINE x == files[f][pos + 1]
    <2>5. handleTruncation = pos /\ handleTruncation' = pos + 1
      BY <1>5, <2>1, <2>2, <2>3 DEF handleTruncation
    <2>6. x \in Nat /\ Older(x)
      BY <1>3, <1>5, <2>1, <2>5
    <2>7. \A k \in 1..Len(files[f]) : pos + 1 < k => Older(files[f][k]) /\ x < files[f][k]
      <3>1. \A k \in 1..Len(files[f]) : pos + 1 < k => pos < k
        BY <1>5
      <3>2. QED  BY <1>3, <2>1, <2>5, <3>1 DEF FileInv
    <2>8. Older(next) /\ x < next
      BY <1>3, <2>1 DEF FileInv
    <2>9. Pending("create") =>
            \A k \in 1..Len(files[path]) : Older(files[path][k]) /\ x < files[path][k]
      BY <1>3, <1>16, <2>1
    <2> HIDE DEF x
    <2>10. Ascending' /\ \A y : Older(y) /\ x < y => OlderThen(y)
      <3>1. CASE lines' = Append(lines, x)
        <4>1. Gained(x)
          BY <2>2, <2>6, <3>1, SentEffect
        <4>2. QED  BY <1>3, <2>6, <4>1, GainedOrder
      <3>2. CASE lines' = lines
        BY <1>6, <1>7, <2>2, <3>2
      <3>3. QED  BY <1>22, <3>1, <3>2 DEF ReadLine, x
    <2>11. QED  BY <2>2, <2>4, <2>5, <2>7, <2>8, <2>9, <2>10
  <1>23. CASE ReadEnds
    <2>1. UNCHANGED <<files, path, next, pos, events, seen, lines>> /\ f' \in {0, f}
      BY <1>23 DEF ReadEnds, sinkVars, sourceVars
    <2>2. Pending("create")' => Pending("create")
      BY <2>1, EventsKept
    <2>3. Ascending' /\ \A x : Older(x) => OlderThen(x)
      BY <1>6, <1>7, <2>1
    <2>4. f' = f => handleTruncation' = handleTruncation
      BY <2>1 DEF handleTruncation
    <2>5. QED  BY <1>3, <2>1, <2>2, <2>3, <2>4
  <1>20. CASE TailEnds
    <2>1. f' = 0 /\ UNCHANGED <<files, path, next, events, seen, lines>>
      BY <1>20 DEF TailEnds, sinkVars, sourceVars
    <2>2. Pending("create")' => Pending("create")
      BY <2>1, EventsKept
    <2>3. Ascending' /\ \A x : Older(x) => OlderThen(x)
      BY <1>6, <1>7, <2>1
    <2>4. QED  BY <1>3, <2>1, <2>2, <2>3
  <1>21. QED
    BY <1>9, <1>10, <1>11, <1>12, <1>13, <1>14, <1>15, <1>17, <1>18, <1>19, <1>20, <1>22, <1>23
       DEF Next, HandleEvent

-----------------------------------------------------------------------------
(* No line is missing.                                                     *)

(* The numbers the count of lines is made of are natural numbers.          *)
LEMMA CountTypes ==
    ASSUME LogTypes, EventInv, GapInv, mishaps = {}
    PROVE  /\ start \in Nat /\ next \in Nat /\ pos \in Nat
           /\ Len(Received) \in Nat /\ Unread \in Nat /\ Announced \in Nat
  <1>1. start \in Nat /\ next \in Nat /\ pos \in Nat /\ Len(Received) \in Nat
    BY ReceivedType DEF LogTypes
  <1>2. \A j \in 1..Len(files) : Len(files[j]) \in Nat
    BY DEF LogTypes
  <1>3. Unread \in Nat
    <2>1. CASE f = 0
      BY <2>1 DEF Unread
    <2>2. CASE f # 0
      <3>1. f \in 1..Len(files) /\ pos <= Len(files[f])
        BY <2>2 DEF LogTypes, GapInv
      <3>2. QED  BY <1>1, <1>2, <2>2, <3>1 DEF Unread
    <2>3. QED  BY <2>1, <2>2
  <1>4. Announced \in Nat
    <2>1. Pending("create") => path \in 1..Len(files)
      BY DEF EventInv, LogTypes
    <2>2. QED  BY <1>2, <2>1 DEF Announced
  <1>5. QED  BY <1>1, <1>3, <1>4

(* Every step keeps the lines from start on without a gap.                 *)
LEMMA GapStep ==
    ASSUME LogTypes, FileInv, SinkInv, WatchInv, EventInv, GapInv, [Next]_vars
    PROVE  GapInv'
  <1>1. SUFFICES ASSUME mishaps' = {} PROVE GapInv'
    BY DEF GapInv
  <1>2. mishaps = {}
    BY <1>1, TypesStep
  <1>3. LogTypes' /\ EventInv'
    BY TypesStep, EventStep
  <1>4. (f # 0 => pos <= Len(files[f])) /\ (tailing = "running" => NoGap)
    BY <1>2 DEF GapInv
  <1>5. SUFFICES /\ f' # 0 => pos' <= Len(files'[f'])
                 /\ tailing' = "running" => NoGap'
    BY DEF GapInv
  <1>6. /\ start \in Nat /\ next \in Nat /\ pos \in Nat
        /\ Len(Received) \in Nat /\ Unread \in Nat /\ Announced \in Nat
    BY <1>2, CountTypes
  <1>7. /\ Len(files) \in Nat /\ f \in 0..Len(files) /\ path \in 0..Len(files)
        /\ handle \in 0..Len(files)
        /\ \A j \in 1..Len(files) : files[j] \in Seq(Nat) /\ Len(files[j]) \in Nat
    BY DEF LogTypes
  <1>8. ASSUME seen' = seen, lines' = lines PROVE Received' = Received
    BY <1>8 DEF Received
  <1>9. ASSUME UNCHANGED <<files, f, pos>> PROVE Unread' = Unread
    BY <1>9 DEF Unread
  <1>10. ASSUME Notify("write") \/ Notify("rename") \/ Notify("create") PROVE events' # <<>>
    <2>1. Len(events') > 0
      BY <1>10, NotifyEffect DEF EventKinds
    <2>2. QED  BY <2>1
  <1>11. CASE Write
    <2>1. /\ handle \in 1..Len(files)
          /\ \A j \in 1..Len(files) : j # handle => files'[j] = files[j]
          /\ Len(files'[handle]) = Len(files[handle]) + 1
          /\ files'[handle][Len(files[handle]) + 1] = next
          /\ \A k \in 1..Len(files[handle]) : files'[handle][k] = files[handle][k]
          /\ next' = next + 1
      BY <1>11, WriteEffect
    <2>2. UNCHANGED <<path, f, pos, start, tailing, seen, lines>>
      BY <1>11 DEF Write, tailVars, sourceVars
    <2>3. Received' = Received
      BY <1>8, <2>2
    <2>4. Pending("create")' <=> Pending("create")
      BY <1>11, WriteEvents DEF Write
    <2>5. handle \in {path, f}
      BY <1>1, <1>11 DEF Write, Mishap
    <2>6. events' # <<>>
      <3>1. handle \in {path, watched}
        BY <2>1, <2>5 DEF WatchInv
      <3>2. QED  BY <1>10, <1>11, <3>1 DEF Write
    <2>7. CASE handle = f
      <3>1. Announced = 0 /\ Announced' = 0
        <4>1. ASSUME Pending("create")
              PROVE  path \in 1..Len(files) /\ handle # path /\ files[path] = <<>>
          <5>1. path \in 1..Len(files) /\ handle < path
            BY <1>2, <1>7, <2>7, <4>1 DEF EventInv, FileInv
          <5>2. QED  BY <1>2, <1>7, <2>1, <5>1 DEF SinkInv
        <4>2. Pending("create") => files'[path] = <<>>
          BY <2>1, <4>1
        <4>3. QED  BY <2>2, <2>4, <4>1, <4>2 DEF Announced
      <3>2. /\ f # 0 /\ Len(files'[f]) = Len(files[f]) + 1 /\ Len(files[f]) \in Nat
            /\ pos <= Len(files[f])
        BY <1>4, <1>7, <2>1, <2>7
      <3>3. Unread = Len(files[f]) - pos /\ Unread' = Unread + 1
        BY <1>6, <2>2, <3>2 DEF Unread
      <3>4. pos' <= Len(files'[f'])
        BY <1>6, <2>2, <3>2
      <3>5. ASSUME tailing = "running" PROVE NoGap'
        <4>1. start + Len(Received) + Unread + Announced = next
          BY <1>4, <3>5 DEF NoGap
        <4>2. start + Len(Received) + (Unread + 1) + 0 = next + 1
          BY <1>6, <3>1, <4>1
        <4>3. ASSUME NEW k \in 1..(Unread + 1)
              PROVE  files'[f][pos + k] = start + Len(Received) + k - 1
          <5>1. CASE k \in 1..Unread
            <6>1. pos + k \in 1..Len(files[f])
              BY <1>6, <3>2, <3>3, <5>1
            <6>2. QED  BY <1>4, <2>1, <2>7, <3>5, <5>1, <6>1 DEF NoGap
          <5>2. CASE k = Unread + 1
            <6>1. pos + k = Len(files[f]) + 1
              BY <1>6, <3>2, <3>3, <5>2
            <6>2. next = start + Len(Received) + k - 1
              BY <1>6, <3>1, <4>1, <5>2
            <6>3. QED  BY <2>1, <2>7, <6>1, <6>2
          <5>3. QED  BY <1>6, <5>1, <5>2
        <4>4. \A i \in 1..Len(Received) : Received[i] = start + i - 1
          BY <1>4, <3>5 DEF NoGap
        <4>5. \A k \in 1..Announced' : FALSE
          BY <3>1
        <4>6. QED  BY <2>1, <2>2, <2>3, <2>6, <3>1, <3>3, <4>2, <4>3, <4>4, <4>5 DEF NoGap
      <3>6. QED  BY <2>2, <3>4, <3>5
    <2>8. CASE handle # f
      <3>1. handle = path /\ path # 0 /\ f # path
        BY <2>1, <2>5, <2>8
      <3>2. f # 0 => f \in 1..Len(files) /\ files'[f] = files[f]
        BY <1>7, <2>1, <2>8
      <3>3. Unread' = Unread
        BY <2>2, <3>2 DEF Unread
      <3>4. f' # 0 => pos' <= Len(files'[f'])
        BY <1>4, <2>2, <3>2
      <3>5. ASSUME tailing = "running" PROVE NoGap'
        <4>1. Pending("create") /\ Pending("create")'
          BY <1>2, <2>4, <3>1, <3>5 DEF EventInv
        <4>2. Announced = Len(files[path]) /\ Announced' = Announced + 1
          BY <2>1, <2>2, <3>1, <4>1 DEF Announced
        <4>3. start + Len(Received) + Unread + Announced = next
          BY <1>4, <3>5 DEF NoGap
        <4>4. start + Len(Received) + Unread + (Announced + 1) = next + 1
          BY <1>6, <4>3
        <4>5. ASSUME NEW k \in 1..(Announced + 1)
              PROVE  files'[path][k] = start + Len(Received) + Unread + k - 1
          <5>1. CASE k \in 1..Announced
            BY <1>4, <2>1, <3>1, <3>5, <4>2, <5>1 DEF NoGap
          <5>2. CASE k = Announced + 1
            <6>1. next = start + Len(Received) + Unread + k - 1
              BY <1>6, <4>3, <5>2
            <6>2. QED  BY <2>1, <3>1, <4>2, <5>2, <6>1
          <5>3. QED  BY <1>6, <5>1, <5>2
        <4>6. ASSUME NEW k \in 1..Unread
              PROVE  files'[f][pos + k] = start + Len(Received) + k - 1
          <5>1. f # 0
            BY <4>6 DEF Unread
          <5>2. QED  BY <1>4, <3>2, <3>5, <5>1 DEF NoGap
        <4>7. \A i \in 1..Len(Received) : Received[i] = start + i - 1
          BY <1>4, <3>5 DEF NoGap
        <4>8. QED  BY <2>1, <2>2, <2>3, <2>6, <3>3, <4>2, <4>4, <4>5, <4>6, <4>7 DEF NoGap
      <3>6. QED  BY <2>2, <3>4, <3>5
    <2>9. QED  BY <2>7, <2>8
  <1>12. CASE Truncate
    BY <1>1, <1>12 DEF Truncate, Mishap
  <1>13. CASE CloseSink \/ Cancel \/ Receive \/ Return \/ UNCHANGED vars
              \/ \E r \in Reloaders : ReloadSwap(r)
    <2>1. UNCHANGED <<files, path, next, f, pos, reading, start, tailing, events>>
      BY <1>13 DEF CloseSink, Cancel, Receive, Return, ReloadSwap, vars, sinkVars, tailVars
    <2>2. Received' = Received
      <3>1. CASE Receive
        BY <1>1, <3>1, ReceiveEffect
      <3>2. CASE ~Receive
        BY <1>8, <1>13, <3>2 DEF CloseSink, Cancel, Return, ReloadSwap, vars, sinkVars,
                                 tailVars, sourceVars
      <3>3. QED  BY <3>1, <3>2
    <2>3. Unread' = Unread
      BY <1>9, <2>1
    <2>4. Announced' = Announced
      BY <2>1, EventsKept DEF Announced
    <2>5. NoGap => NoGap'
      BY <2>1, <2>2, <2>3, <2>4 DEF NoGap
    <2>6. QED  BY <1>4, <2>1, <2>5
  <1>14. CASE Rotate
    <2>1. ~Pending("create") /\ Notify("rename")
      BY <1>1, <1>14 DEF Rotate, Mishap, Pending
    <2>2. ~Pending("create")'
      BY <2>1, NotifyPending DEF EventKinds
    <2>3. UNCHANGED <<files, f, pos, next, start, tailing, seen, lines>>
      BY <1>14 DEF Rotate, sinkVars, tailVars, sourceVars
    <2>4. Received' = Received /\ Unread' = Unread
      BY <1>8, <1>9, <2>3
    <2>5. Announced = 0 /\ Announced' = 0 /\ events' # <<>>
      BY <1>10, <2>1, <2>2 DEF Announced
    <2>6. NoGap => NoGap'
      BY <2>3, <2>4, <2>5, SMTT(30) DEF NoGap
    <2>7. QED  BY <1>4, <2>3, <2>6
  <1>15. ASSUME NEW r \in Reloaders, ReloadOpen(r)
         PROVE  (f' # 0 => pos' <= Len(files'[f'])) /\ (tailing' = "running" => NoGap')
    <2>1. UNCHANGED <<f, pos, reading, next, start, tailing, seen, lines>>
      BY <1>15 DEF ReloadOpen, tailVars, sourceVars
    <2>2. Received' = Received
      BY <1>8, <2>1
    <2>3. CASE path # 0
      <3>1. UNCHANGED <<files, path, events>>
        BY <1>15, <2>3, ReloadOpenEffect
      <3>2. Unread' = Unread /\ Announced' = Announced
        BY <1>9, <2>1, <3>1, EventsKept DEF Announced
      <3>3. NoGap => NoGap'
        BY <2>1, <2>2, <3>1, <3>2 DEF NoGap
      <3>4. QED  BY <1>4, <2>1, <3>1, <3>3
    <2>4. CASE path = 0
      <3>1. /\ files'[path'] = <<>> /\ \A j \in 1..Len(files) : files'[j] = files[j]
            /\ Notify("create")
        BY <1>15, <2>4, ReloadOpenEffect
      <3>2. f # 0 => files'[f] = files[f]
        BY <1>7, <3>1
      <3>3. Unread' = Unread
        BY <2>1, <3>2 DEF Unread
      <3>4. Announced = 0 /\ Announced' = 0 /\ events' # <<>>
        <4>1. ~Pending("create")
          BY <1>2, <2>4 DEF EventInv
        <4>2. QED  BY <1>10, <3>1, <4>1 DEF Announced
      <3>5. ASSUME NEW k \in 1..Unread PROVE files'[f][pos + k] = files[f][pos + k]
        BY <3>2, <3>5 DEF Unread
      <3>6. NoGap => NoGap'
        BY <2>1, <2>2, <3>3, <3>4, <3>5 DEF NoGap
      <3>7. QED  BY <1>4, <2>1, <3>2, <3>6
    <2>5. QED  BY <2>3, <2>4
  <1>16. CASE WaitForFile
    <2>1. /\ tailing = "waiting" /\ f' = path /\ path # 0 /\ pos' = Len(files[path])
          /\ start' = next /\ UNCHANGED <<files, path, next, events, lines, seen>>
      BY <1>16 DEF WaitForFile, sinkVars, sourceVars
    <2>2. path \in 1..Len(files) /\ Len(files[path]) \in Nat
      BY <1>7, <2>1
    <2>3. Len(Received') = 0
      <3>1. seen' = <<>> /\ lines' = <<>>
        BY <2>1 DEF WatchInv
      <3>2. QED  BY <3>1 DEF Received
    <2>4. Unread' = 0
      BY <2>1, <2>2 DEF Unread
    <2>5. Announced' = 0
      <3>1. ~Pending("create")'
        BY <1>2, <2>1, EventsKept DEF EventInv
      <3>2. QED  BY <3>1 DEF Announced
    <2>6. NoGap'
      BY <1>6, <2>1, <2>3, <2>4, <2>5 DEF NoGap
    <2>7. QED  BY <2>1, <2>2, <2>6
  <1>17. ASSUME UNCHANGED <<files, path, f, pos, next, start, tailing, seen, lines>>,
                Pending("create")' <=> Pending("create"), f # 0 => reading' # "no"
         PROVE  (f' # 0 => pos' <= Len(files'[f'])) /\ (tailing' = "running" => NoGap')
    <2>1. Received' = Received /\ Unread' = Unread /\ Announced' = Announced
      BY <1>8, <1>9, <1>17 DEF Announced
    <2>2. Unread > 0 => reading' # "no"
      BY <1>17 DEF Unread
    <2>3. NoGap => NoGap'
      BY <1>17, <2>1, <2>2 DEF NoGap
    <2>4. QED  BY <1>4, <1>17, <2>3
  <1>18. CASE HandleWrite
    <2>1. Take("write") /\ UNCHANGED <<files, path, f, next, start, tailing, seen, lines>>
      BY <1>18 DEF HandleWrite, sinkVars, sourceVars
    <2>2. Pending("create")' <=> Pending("create")
      BY <2>1, TakePending
    <2>3. pos' = pos /\ (f # 0 => reading' # "no")
      <3>1. CASE f = 0
        BY <1>18, <3>1 DEF HandleWrite
      <3>2. CASE f # 0
        <4>1. Len(files[f]) \in Nat /\ pos <= Len(files[f])
          BY <1>4, <1>7, <3>2
        <4>2. handleTruncation = pos
          BY <1>6, <4>1 DEF handleTruncation
        <4>3. QED  BY <1>18, <3>2, <4>2 DEF HandleWrite
      <3>3. QED  BY <3>1, <3>2
    <2>4. QED  BY <1>17, <2>1, <2>2, <2>3
  <1>19. CASE HandleRename
    <2>1. /\ Take("rename") /\ (f # 0 => reading' # "no")
          /\ UNCHANGED <<files, path, f, pos, next, start, tailing, seen, lines>>
      BY <1>19 DEF HandleRename, sinkVars, sourceVars
    <2>2. Pending("create")' <=> Pending("create")
      BY <2>1, TakePending
    <2>3. QED  BY <1>17, <2>1, <2>2
  <1>20. CASE HandleCreate
    <2>1. /\ Take("create") /\ tailing = "running" /\ reading = "no"
          /\ UNCHANGED <<files, path, next, start, tailing, seen, lines>>
      BY <1>20 DEF HandleCreate, Take, sinkVars, sourceVars
    <2>2. Pending("create") /\ path # 0 /\ f # path
      BY <1>2, <2>1, TakePending DEF EventInv
    <2>3. ~Pending("create")' /\ ~Pending("rename")
      BY <1>2, <2>1, TakePending, TakeOrdered DEF EventInv
    <2>4. f = 0
      BY <1>2, <2>1, <2>2, <2>3 DEF WatchInv
    <2>5. f' = path /\ pos' = 0 /\ reading' = "on"
      BY <1>1, <1>20, <2>2 DEF HandleCreate, Mishap
    <2>6. Unread = 0 /\ Announced = Len(files[path]) /\ Announced' = 0
      BY <2>2, <2>3, <2>4 DEF Unread, Announced
    <2>7. path \in 1..Len(files) /\ Len(files[path]) \in Nat
      BY <1>7, <2>2
    <2>8. Unread' = Announced /\ Received' = Received
      BY <1>8, <2>1, <2>2, <2>5, <2>6, <2>7 DEF Unread
    <2>9. /\ start + Len(Received) + 0 + Announced = next
          /\ \A m \in 1..Len(Received) : Received[m] = start + m - 1
          /\ \A k \in 1..Announced : files[path][k] = start + Len(Received) + 0 + k - 1
      BY <1>4, <2>1, <2>6 DEF NoGap
    <2>10. start + Len(Received) + Announced + 0 = next
      BY <1>6, <2>9
    <2>11. ASSUME NEW k \in 1..Announced
           PROVE  files[path][0 + k] = start + Len(Received) + k - 1
      <3>1. k \in Nat /\ 0 + k = k /\ files[path][k] = start + Len(Received) + 0 + k - 1
        BY <1>6, <2>9
      <3>2. QED  BY <1>6, <3>1
    <2>12. \A k \in 1..Announced' : FALSE
      BY <2>6
    <2>13. NoGap'
      BY <2>1, <2>5, <2>6, <2>8, <2>9, <2>10, <2>11, <2>12 DEF NoGap
    <2>14. QED  BY <2>1, <2>5, <2>7, <2>13
  <1>21. CASE ReadLine
    <2>1. /\ f \in 1..Len(files) /\ f # 0 /\ Len(files[f]) \in Nat /\ pos < Len(files[f])
          /\ files[f] \in Seq(Nat) /\ tailing = "running" /\ reading # "no"
      BY <1>7, <1>21 DEF ReadLine, WatchInv
    <2> DEFINE x == files[f][pos + 1]
    <2>2. /\ UNCHANGED <<files, path, f, reading, next, start, tailing, seen, events>>
          /\ pos' = pos + 1 /\ lines' = Append(lines, x)
      BY <1>1, <1>21 DEF ReadLine, Mishap, sinkVars, sourceVars
    <2>3. Unread = Len(files[f]) - pos /\ Unread' = Unread - 1 /\ Unread > 0
      BY <1>6, <2>1, <2>2 DEF Unread
    <2>4. Announced' = Announced
      BY <2>2, EventsKept DEF Announced
    <2>5. /\ start + Len(Received) + Unread + Announced = next
          /\ \A i \in 1..Len(Received) : Received[i] = start + i - 1
          /\ \A k \in 1..Unread : files[f][pos + k] = start + Len(Received) + k - 1
          /\ \A k \in 1..Announced : files[path][k] = start + Len(Received) + Unread + k - 1
      BY <1>4, <2>1 DEF NoGap
    <2>6. x \in Nat /\ x = start + Len(Received)
      <3>1. 1 \in 1..Unread /\ pos + 1 \in 1..Len(files[f])
        BY <1>6, <2>1, <2>3
      <3>2. x = start + Len(Received) + 1 - 1
        BY <2>5, <3>1
      <3>3. QED  BY <1>6, <3>2
    <2>7. /\ Len(Received') = Len(Received) + 1
          /\ \A k \in 1..Len(Received) : Received'[k] = Received[k]
          /\ Received'[Len(Received) + 1] = x
      BY <2>2, <2>6, SentEffect DEF Gained
    <2> HIDE DEF x
    <2>8. start' + Len(Received') + Unread' + Announced' = next'
      <3>1. start' = start /\ next' = next
        BY <2>2
      <3>2. start + Len(Received') + Unread' + Announced' = start + Len(Received) + Unread + Announced
        <4>1. PICK r \in Nat, u \in Nat : r = Len(Received) /\ u = Unread
          BY <1>6
        <4>2. Len(Received') = r + 1 /\ Unread' = u - 1
          BY <2>3, <2>7, <4>1
        <4>3. QED  BY <1>6, <2>4, <4>1, <4>2
      <3>3. QED  BY <2>5, <3>1, <3>2
    <2>9. ASSUME NEW i \in 1..Len(Received') PROVE Received'[i] = start + i - 1
      <3>1. i \in 1..Len(Received) \/ i = Len(Received) + 1
        BY <1>6, <2>7
      <3>2. CASE i \in 1..Len(Received)
        BY <2>5, <2>7, <3>2
      <3>3. CASE i = Len(Received) + 1
        BY <1>6, <2>6, <2>7, <3>3
      <3>4. QED  BY <3>1, <3>2, <3>3
    <2>10. ASSUME NEW k \in 1..Unread'
           PROVE  files'[f'][pos' + k] = start + Len(Received') + k - 1
      <3>1. k + 1 \in 1..Unread /\ pos + (k + 1) = pos' + k
        BY <1>6, <2>2, <2>3
      <3>2. files[f][pos + (k + 1)] = start + Len(Received) + (k + 1) - 1
        BY <2>5, <3>1
      <3>3. QED  BY <1>6, <2>2, <2>7, <3>1, <3>2
    <2>11. ASSUME NEW k \in 1..Announced'
           PROVE  files'[path'][k] = start + Len(Received') + Unread' + k - 1
      <3>1. files[path][k] = start + Len(Received) + Unread + k - 1 /\ k \in Int
        BY <1>6, <2>4, <2>5
      <3>2. files'[path'][k] = files[path][k]
        BY <2>2
      <3>3. PICK r \in Nat, u \in Nat : r = Len(Received) /\ u = Unread
        BY <1>6
      <3>4. Len(Received') = r + 1 /\ Unread' = u - 1
        BY <2>3, <2>7, <3>3
      <3>5. start + (r + 1) + (u - 1) + k - 1 = start + r + u + k - 1
        BY <1>6, <3>1
      <3>6. QED  BY <3>1, <3>2, <3>3, <3>4, <3>5, Zenon
    <2>12. NoGap'
      BY <2>1, <2>2, <2>8, <2>9, <2>10, <2>11 DEF NoGap
    <2>13. pos' <= Len(files'[f'])
      BY <1>6, <2>1, <2>2
    <2>14. QED  BY <2>12, <2>13
  <1>24. CASE ReadEnds
    <2>1. /\ UNCHANGED <<files, path, next, pos, start, tailing, seen, lines, events>>
          /\ f' \in {0, f} /\ ~(pos < Len(files[f])) /\ tailing = "running" /\ f # 0
      BY <1>1, <1>24 DEF ReadEnds, WatchInv, Mishap, sinkVars, sourceVars
    <2>2. Len(files[f]) \in Nat /\ pos <= Len(files[f]) /\ pos = Len(files[f])
      BY <1>4, <1>6, <1>7, <2>1
    <2>3. Unread = 0 /\ Unread' = 0 /\ Received' = Received
      BY <1>8, <2>1, <2>2 DEF Unread
    <2>4. Announced' = Announced
      BY <2>1, EventsKept DEF Announced
    <2>5. ~(Unread' > 0) /\ \A k \in 1..Unread' : FALSE
      BY <2>3
    <2>6. NoGap => NoGap'
      BY <2>1, <2>3, <2>4, <2>5 DEF NoGap
    <2>7. QED  BY <1>4, <2>1, <2>2, <2>6
  <1>25. CASE LoseEvent
    BY <1>1, <1>25, LoseEffect
  <1>22. CASE TailEnds
    BY <1>22 DEF TailEnds
  <1>23. QED
    BY <1>11, <1>12, <1>13, <1>14, <1>15, <1>16, <1>18, <1>19, <1>20, <1>21, <1>22, <1>24, <1>25
       DEF Next, HandleEvent

-----------------------------------------------------------------------------
(* The inductive invariant and what it gives.                              *)

LogInv == LogTypes /\ FileInv /\ SinkInv /\ WatchInv /\ EventInv /\ OrderInv /\ GapInv

(* The invariant holds when the source is started.                         *)
LEMMA LogInvInit == Init => LogInv
  <1> SUFFICES ASSUME Init PROVE LogInv
    OBVIOUS
  <1>1. /\ Len(files) = 1 /\ Len(files[1]) = 0 /\ path = 1 /\ handle = 1
        /\ Len(events) = 0 /\ Len(Received) = 0
        /\ f = 0 /\ tailing = "waiting" /\ \A r \in Reloaders : opened[r] = 0
    BY DEF Init, Received
  <1>2. LogTypes
    BY TypesInit
  <1>3. \A e : ~Pending(e)
    BY <1>1 DEF Pending
  <1>4. FileInv
    BY <1>1 DEF FileInv
  <1>5. SinkInv
    <2>1. \A i, j \in 1..Len(files) : ~(i < j) /\ ~(handle < j)
      BY <1>1
    <2>2. QED  BY <1>1, <2>1 DEF SinkInv, HandleFollowsPath
  <1>6. WatchInv
    BY <1>1 DEF WatchInv, Init
  <1>7. EventInv
    BY <1>1, <1>3 DEF EventInv, EventsOrdered
  <1>8. OrderInv
    BY <1>1, <1>3 DEF OrderInv, Older
  <1>9. GapInv
    BY <1>1 DEF GapInv
  <1>10. QED  BY <1>2, <1>4, <1>5, <1>6, <1>7, <1>8, <1>9 DEF LogInv

(* Every step keeps the invariant.                                         *)
LEMMA LogInvStep ==
    ASSUME LogInv, [Next]_vars
    PROVE  LogInv'
  BY TypesStep, FileStep, SinkPreserved, WatchStep, EventStep, OrderStep, GapStep DEF LogInv

(* The types, the files, the sink, the watch, the events, the order and    *)
(* the count of the lines hold in every state of the log file.             *)
THEOREM LogInvHolds == Spec => []LogInv
  <1>1. LogInv /\ [Next]_vars => LogInv'
    BY LogInvStep
  <1>2. QED  BY LogInvInit, <1>1, PTL DEF Spec

(* FileSink.Reload: for any number of reloading goroutines and rotations,  *)
(* once no reload is under way the sink writes the file at the path, as    *)
(* long as no two reloads overlapped.                                      *)
THEOREM SinkFollowsPath == Spec => []HandleFollowsPath
  <1>1. LogInv => HandleFollowsPath
    BY DEF LogInv, SinkInv, HandleFollowsPath
  <1>2. QED  BY LogInvHolds, <1>1, PTL

(* TailReader and FileSource: for any number of lines, rotations and       *)
(* truncations and any size of the channel, and whatever is dropped,       *)
(* skipped, unseen or unopened, no line is delivered twice or out of order *)
(* unless two reads shared a line, reloads overlapped or the path was      *)
(* rotated again before the reader had come to its file.                   *)
THEOREM LinesInOrder == Spec => []InOrderOnce
  <1>1. LogInv => InOrderOnce
    BY DEF LogInv, OrderInv, InOrderOnce
  <1>2. QED  BY LogInvHolds, <1>1, PTL

(* TailReader over rotations: unless one of the mishaps happened (a line   *)
(* dropped, skipped, late or truncated away, an event unseen, a new file   *)
(* unopened or unread, overlapping rotations or reloads), a reader with no *)
(* event left to handle has received every line written since it opened    *)
(* the file, each once and in order.                                       *)
THEOREM NoLineLost == Spec => []NothingLost
  <1>1. LogInv => NothingLost
    <2>1. SUFFICES ASSUME LogInv, mishaps = {}, tailing = "running", reading = "no",
                          events = <<>>
                   PROVE  Received = [i \in 1..(next - start) |-> start + i - 1]
      BY DEF NothingLost
    <2>2. LogTypes /\ EventInv /\ GapInv /\ NoGap
      BY <2>1 DEF LogInv, GapInv
    <2>3. /\ start \in Nat /\ next \in Nat /\ Len(Received) \in Nat
          /\ Unread \in Nat /\ Announced \in Nat
      BY <2>1, <2>2, CountTypes
    <2>4. Announced = 0 /\ Unread = 0
      <3>1. ~Pending("create")
        BY <2>1 DEF Pending
      <3>2. QED  BY <2>1, <2>2, <2>3, <3>1 DEF NoGap, Announced
    <2>5. Len(Received) = next - start
      BY <2>2, <2>3, <2>4 DEF NoGap
    <2>6. Received \in Seq(Nat)
      BY <2>2, ReceivedType
    <2>7. /\ Received = [i \in 1..Len(Received) |-> Received[i]]
          /\ \A i \in 1..Len(Received) : Received[i] = start + i - 1
      BY <2>2, <2>6 DEF NoGap
    <2>8. QED  BY <2>5, <2>7
  <1>2. QED  BY LogInvHolds, <1>1, PTL

=============================================================================
