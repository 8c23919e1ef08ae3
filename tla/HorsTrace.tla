----------------------------- MODULE HorsTrace -----------------------------
(***************************************************************************)
(* trace.jsonl: calls append a line for what they ask and a line for what  *)
(* they are told, hors watch follows the file, hors disconnect removes it. *)
(*                                                                         *)
(* The file is a sequence of cells, so that lines have a length and an     *)
(* offset may point into the middle of one.  The first line of a call is   *)
(* one cell long, the second two; the last cell holds the newline.  Two    *)
(* lines a call is the bound of this model.                                *)
(***************************************************************************)
EXTENDS HorsProfile, SequencesExt

VARIABLES
  trace,       \* trace.jsonl
  tracer,      \* where a call is in writeTraceEvent
  written,     \* how many lines it has written
  watch,       \* where hors watch is
  looks,       \* whether watchFile has looked at the file, and has called back since
  offset,      \* how far it has read
  size,        \* what statSync told it
  buffer,      \* the unfinished line
  shown,       \* what it has printed, until it was disturbed
  changed,     \* the file has changed since watchFile looked at it
  settled,     \* lines appended when nobody was about to create the file
  since,       \* lines appended since the watch began, until it was disturbed
  disturbed    \* the file was removed or emptied under the watch

fileVars == <<trace, changed, settled, since, disturbed>>
writerVars == <<tracer, written>>
watchVars == <<watch, looks, offset, size, buffer, shown>>
traceVars == <<fileVars, writerVars, watchVars>>
vars == <<profileVars, traceVars>>

Lines == Procs \X {1, 2}
Cell(line, i) == <<line, i>>
TraceCells == Lines \X {1, 2}
Cells(line) == [i \in 1..line[2] |-> Cell(line, i)]
EndsLine(cell) == cell[2] = cell[1][2]

\* A zero of Buffer.alloc that readSync did not overwrite.
Zero == Cell(<<Nobody, 1>>, 0)

\* What JSON.parse rejects.
Invalid == <<>>

TraceTypeOK ==
  /\ Exists(trace) => \A i \in DOMAIN trace.value : trace.value[i] \in TraceCells
  /\ tracer \in [Procs -> {"idle", "create", "append"}]
  /\ written \in [Procs -> 0..2]
  /\ watch \in {"off", "stat", "read", "idle"}
  /\ looks \in {"none", "first", "called"}
  /\ offset \in Nat /\ size \in Nat
  /\ watch = "read" => offset < size    \* the length Buffer.alloc is asked for
  /\ changed \in BOOLEAN /\ disturbed \in BOOLEAN
  /\ settled \subseteq Lines

Init ==
  /\ ProfileInit
  /\ trace = Absent
  /\ tracer = [p \in Procs |-> "idle"]
  /\ written = [p \in Procs |-> 0]
  /\ watch = "off" /\ looks = "none"
  /\ offset = 0 /\ size = 0
  /\ buffer = <<>> /\ shown = <<>>
  /\ changed = FALSE
  /\ settled = {}
  /\ since = <<>>
  /\ disturbed = FALSE

-----------------------------------------------------------------------------
(***************************************************************************)
(* writeTraceEvent.                                                        *)
(***************************************************************************)
Watching == watch # "off"

TraceText == Contents(trace, <<>>)

\* What is printed and appended is recorded for as long as nobody disturbs the watch.
Disturb(now) ==
  /\ disturbed' = (disturbed \/ now)
  /\ since' = IF disturbed' THEN <<>> ELSE since
  /\ shown' = IF disturbed' THEN <<>> ELSE shown

\* Mutant: the file is created whether it exists or not.
CheckNothing(p) ==
  /\ at[p] = "calling" /\ tracer[p] = "idle" /\ written[p] < 2
  /\ tracer' = [tracer EXCEPT ![p] = "create"]
  /\ UNCHANGED <<profileVars, written, fileVars, watchVars>>

CheckTrace(p) ==
  /\ at[p] = "calling" /\ tracer[p] = "idle" /\ written[p] < 2
  /\ tracer' = [tracer EXCEPT ![p] = IF Exists(trace) THEN "append" ELSE "create"]
  /\ UNCHANGED <<profileVars, written, fileVars, watchVars>>

\* writeFileSync(path, ""): whatever others have appended meanwhile is gone.
CreateTrace(p) ==
  /\ at[p] = "calling" /\ tracer[p] = "create"
  /\ tracer' = [tracer EXCEPT ![p] = "append"]
  /\ trace' = Whole(<<>>)
  /\ changed' = Watching
  /\ Disturb(Watching /\ TraceText # <<>>)
  /\ UNCHANGED <<profileVars, written, settled, watch, looks, offset, size, buffer>>

\* appendFileSync writes the line at once, to a new file if need be.
AppendTrace(p) ==
  LET line == <<p, written[p] + 1>> IN
  /\ at[p] = "calling" /\ tracer[p] = "append"
  /\ tracer' = [tracer EXCEPT ![p] = "idle"]
  /\ written' = [written EXCEPT ![p] = @ + 1]
  /\ trace' = Whole(TraceText \o Cells(line))
  /\ changed' = Watching
  /\ settled' = IF \E q \in Procs : tracer[q] = "create" THEN settled ELSE settled \cup {line}
  /\ since' = IF Watching /\ ~disturbed THEN Append(since, line) ELSE since
  /\ UNCHANGED <<profileVars, disturbed, watchVars>>

\* What a call that ends, or is killed, leaves of its place in writeTraceEvent.
ForgetTracer(p) ==
  /\ tracer' = [tracer EXCEPT ![p] = "idle"]
  /\ written' = [written EXCEPT ![p] = 0]

FinishCall(p) ==
  /\ EndCall(p) /\ written[p] = 2
  /\ ForgetTracer(p)
  /\ UNCHANGED <<fileVars, watchVars>>

KillCommand(p) ==
  /\ Kill(p)
  /\ ForgetTracer(p)
  /\ UNCHANGED <<fileVars, watchVars>>

RemoveTrace(p) ==
  /\ Unlink(p, "trace")
  /\ trace' = Absent
  /\ changed' = (changed \/ (Watching /\ Exists(trace)))
  /\ settled' = {}
  /\ Disturb(Watching /\ Exists(trace))
  /\ UNCHANGED <<writerVars, watch, looks, offset, size, buffer>>

-----------------------------------------------------------------------------
(***************************************************************************)
(* hors watch.                                                             *)
(***************************************************************************)

\* It begins behind what is there, and flushes.
StartWatch ==
  /\ watch = "off" /\ watch' = "stat"
  /\ offset' = Len(TraceText)
  /\ UNCHANGED <<profileVars, writerVars, fileVars, looks, size, buffer, shown>>

\* Mutant: a file that has become shorter is read from the old offset on.
StatOnward ==
  /\ watch = "stat"
  /\ IF ~Exists(trace) \/ Len(TraceText) = offset
       THEN watch' = "idle" /\ UNCHANGED size
       ELSE watch' = "read" /\ size' = Len(TraceText)
  /\ UNCHANGED <<profileVars, writerVars, fileVars, looks, offset, buffer, shown>>

\* flush, up to statSync: a file that has become shorter is read from its start.
Stat ==
  /\ watch = "stat"
  /\ LET length == Len(TraceText)
         start  == IF length < offset THEN 0 ELSE offset
     IN
     IF ~Exists(trace) \/ length = offset
       THEN watch' = "idle" /\ UNCHANGED <<offset, size, buffer>>
       ELSE /\ watch' = IF length = start THEN "idle" ELSE "read"
            /\ offset' = start
            /\ size' = IF length = start THEN 0 ELSE length
            /\ buffer' = IF length < offset THEN <<>> ELSE buffer
  /\ UNCHANGED <<profileVars, writerVars, fileVars, looks, shown>>

Chunk == [i \in 1..(size - offset) |->
            IF offset + i \in DOMAIN TraceText THEN TraceText[offset + i] ELSE Zero]

Rendered(text) ==
  LET line == Last(text)[1] IN IF text = Cells(line) THEN line ELSE Invalid

\* split("\n"): a cell that ends a line prints it, any other waits in the buffer.
Feed(seen, cell) ==
  LET text == Append(seen.buffer, cell) IN
  IF EndsLine(cell)
    THEN [buffer |-> <<>>, shown |-> Append(seen.shown, Rendered(text))]
    ELSE [seen EXCEPT !.buffer = text]

\* Mutant: the offset is taken from the file as it is after the read.
ReadOffsetLast ==
  /\ watch = "read" /\ Exists(trace)
  /\ LET seen == FoldLeft(Feed, [buffer |-> buffer, shown |-> shown], Chunk) IN
       /\ buffer' = seen.buffer
       /\ shown' = IF disturbed THEN <<>> ELSE seen.shown
  /\ watch' = "idle"
  /\ offset' = Len(TraceText)
  /\ size' = 0
  /\ UNCHANGED <<profileVars, writerVars, fileVars, looks>>

\* The rest of flush; openSync throws when the file is gone, which ends the watch.
Read ==
  /\ watch = "read" /\ Exists(trace)
  /\ LET seen == FoldLeft(Feed, [buffer |-> buffer, shown |-> shown], Chunk) IN
       /\ buffer' = seen.buffer
       /\ shown' = IF disturbed THEN <<>> ELSE seen.shown
  /\ watch' = "idle"
  /\ offset' = size
  /\ size' = 0
  /\ UNCHANGED <<profileVars, writerVars, fileVars, looks>>

\* Ctrl+C, or openSync throws because the file is gone by then.
StopWatch ==
  /\ watch = "idle" \/ (watch = "read" /\ ~Exists(trace))
  /\ watch' = "off"
  /\ looks' = "none"
  /\ offset' = 0 /\ size' = 0 /\ buffer' = <<>> /\ shown' = <<>>
  /\ changed' = FALSE /\ since' = <<>> /\ disturbed' = FALSE
  /\ UNCHANGED <<profileVars, writerVars, trace, settled>>

\* watchFile compares what it sees every 400 ms with what it saw the time before, from its
\* own first look on, which comes after the first flush; a first look that finds no file
\* calls back at once.
FirstLook ==
  /\ watch = "idle" /\ looks = "none"
  /\ IF Exists(trace)
       THEN looks' = "first" /\ UNCHANGED watch
       ELSE looks' = "called" /\ watch' = "stat"
  /\ changed' = FALSE
  /\ UNCHANGED <<profileVars, writerVars, trace, settled, since, disturbed,
                 offset, size, buffer, shown>>

CallBack ==
  /\ watch = "idle" /\ looks # "none" /\ changed
  /\ watch' = "stat" /\ looks' = "called"
  /\ changed' = FALSE
  /\ UNCHANGED <<profileVars, writerVars, trace, settled, since, disturbed,
                 offset, size, buffer, shown>>

-----------------------------------------------------------------------------
Writers ==
  \E p \in Procs :
    \/ CheckTrace(p)
    \/ CreateTrace(p)
    \/ AppendTrace(p)
    \/ FinishCall(p)
    \/ KillCommand(p)
    \/ RemoveTrace(p)

Watch == StartWatch \/ Stat \/ Read \/ FirstLook \/ CallBack \/ StopWatch

Profile ==
  /\ \/ \E p \in Procs :
          \/ BeginCommand(p)
          \/ UpsertStep(p)
          \/ ConnectStep(p)
          \/ ProfileStep(p)
          \/ \E f \in HomeFiles \ {"trace"} : Unlink(p, f)
          \/ EndDisconnect(p)
     \/ AgentBook
  /\ UNCHANGED traceVars

Next == Profile \/ Writers \/ Watch

Spec == Init /\ [][Next]_vars

-----------------------------------------------------------------------------
(***************************************************************************)
(* Properties.                                                             *)
(***************************************************************************)

\* The invariant of the profile holds in a home that is traced and watched, and the watch
\* never allocates for less than one byte: it has seen a file that is longer than what it
\* has read, also after the file was removed and begun again.
HomeIInv == ProfileIInv /\ TraceTypeOK

\* Calls that start on an empty home may wipe out each other's first lines; a line that
\* was appended when nobody was about to create the file stays until hors disconnect.
KeptOnceSettled ==
  settled \subseteq {TraceText[i][1] : i \in DOMAIN TraceText}

\* As long as nobody removes or empties the file, the watch prints whole lines only, in
\* the order of the file, each once, and skips none.
ShownInOrder == ~disturbed => IsPrefix(shown, since)

\* A watch that has nothing left to be told of, and has been called back once, has printed
\* everything that was appended since it began.  (Before the first call-back it may not
\* have: a line that is appended between its first flush and the first look of watchFile
\* is printed with the line after it.)
CaughtUp ==
  watch = "idle" /\ looks = "called" /\ ~changed /\ ~disturbed => shown = since
=============================================================================
