------------------------------ MODULE LogStream ------------------------------
(***************************************************************************)
(* The logs of one service: the goroutines that follow the daemon's stream *)
(* and split it into lines, the channel between them and the view, and the *)
(* view's pump, which reads one line and delivers it as a message before   *)
(* it reads the next. What a filter hides and how a line is drawn is left  *)
(* out.                                                                    *)
(***************************************************************************)
EXTENDS Integers, Sequences, FiniteSets, SequencesExt

CONSTANTS
  ChannelRoom,  \* lines the channel holds (512 in the program)
  MaxLines,     \* lines the view keeps (10000 in the program)
  MaxWrites,    \* bound on what the service logs
  MaxKeys       \* bound on keys

Sources == {"stdout", "stderr"}

VARIABLES
  service,        \* the daemon's stream: "open", "ended", "broken"
  wrote,          \* lines written to each source
  overlong,       \* whether a line was longer than the scanner that read it takes
  producer,       \* "opening", "copying", "raw", "closing", "failed", "over"
  copier,         \* StdCopy: "reading", the source it is writing to, or "done"
  copied,         \* lines it has taken from each source
  scanners, held, \* the scanners that run, and the line each holds for the channel (0 for none)
  lines, errs,    \* the channels
  closed,         \* those that are closed
  cancelled, stopping,  \* the stream's context, and a StopStreamingCmd under way
  place,          \* the view: "on" the screen, "under" another, "gone"
  pump, message,  \* the read-once pump and the message it has sent
  buffer, keys

daemon == <<service, wrote, overlong>>
reading == <<producer, copier, copied, scanners, held>>
channels == <<lines, errs, closed>>
screen == <<place, buffer, keys>>
pumping == <<pump, message>>
stop == <<cancelled, stopping>>
vars == <<daemon, reading, channels, screen, pumping, stop>>

Nothing == [kind |-> "none", of |-> "none", n |-> 0]
Line(s, n) == [kind |-> "line", of |-> s, n |-> n]
Notice(kind) == [kind |-> kind, of |-> "none", n |-> 0]

-----------------------------------------------------------------------------
(***************************************************************************)
(* The daemon and the goroutines that read it                              *)
(***************************************************************************)
Write(s) ==
  /\ service = "open" /\ wrote["stdout"] + wrote["stderr"] < MaxWrites
  /\ wrote' = [wrote EXCEPT ![s] = @ + 1]
  /\ UNCHANGED <<service, overlong, reading, channels, screen, pumping, stop>>

\* The service is removed, or the connection to the daemon is lost.
StreamEnds ==
  /\ service = "open" /\ service' \in {"ended", "broken"}
  /\ UNCHANGED <<wrote, overlong, reading, channels, screen, pumping, stop>>

\* ServiceLogs gives a stream, or the service has a TTY and the docker CLI reads it raw.
Opened ==
  /\ producer = "opening"
  /\ \/ producer' = "copying" /\ copier' = "reading" /\ scanners' = Sources /\ UNCHANGED errs
     \/ producer' = "raw" /\ copier' = "done" /\ scanners' = {"stdout"} /\ UNCHANGED errs
     \/ (cancelled \/ service = "broken") /\ producer' = "failed" /\ errs' = <<Notice("error")>>
        /\ UNCHANGED <<copier, scanners>>
  /\ UNCHANGED <<copied, held, lines, closed, daemon, screen, pumping, stop>>

\* StdCopy writes a frame into a pipe and waits until the scanner has read it.
Copy(s) ==
  /\ producer = "copying" /\ copier = "reading" /\ copied[s] < wrote[s] /\ ~cancelled
  /\ copier' = s /\ copied' = [copied EXCEPT ![s] = @ + 1]
  /\ UNCHANGED <<producer, scanners, held, daemon, channels, screen, pumping, stop>>

CopyEnds ==
  /\ producer = "copying" /\ copier = "reading"
  /\ cancelled \/ service = "broken" \/ (service = "ended" /\ copied = wrote)
  /\ copier' = "done"
  /\ UNCHANGED <<producer, copied, scanners, held, daemon, channels, screen, pumping, stop>>

\* A line of more than bufio's 64 KB ends the scanner of a pipe without a word, and
\* StdCopy stays where it writes into that pipe; one of more than 256 KB that of the
\* CLI's output, with an error.
ScanFails(s) ==
  /\ s \in scanners /\ held[s] = 0
  /\ \/ copier = s /\ UNCHANGED <<producer, errs>>
     \/ /\ producer = "raw" /\ copied[s] < wrote[s] /\ ~cancelled
        /\ producer' = "failed" /\ errs' = <<Notice("error")>>
  /\ scanners' = scanners \ {s} /\ overlong' = TRUE
  /\ UNCHANGED <<service, wrote, copier, copied, held, lines, closed, screen, pumping, stop>>

\* A scanner reads a line from its pipe, or from the CLI's output.
Scan(s) ==
  /\ s \in scanners /\ held[s] = 0
  /\ \/ copier = s /\ copier' = "reading" /\ UNCHANGED copied
     \/ /\ producer = "raw" /\ copied[s] < wrote[s] /\ ~cancelled
        /\ copied' = [copied EXCEPT ![s] = @ + 1] /\ UNCHANGED copier
  /\ held' = [held EXCEPT ![s] = copied'[s]]
  /\ UNCHANGED <<producer, scanners, daemon, channels, screen, pumping, stop>>

Push(s) ==
  /\ held[s] # 0 /\ Len(lines) < ChannelRoom
  /\ lines' = Append(lines, Line(s, held[s])) /\ held' = [held EXCEPT ![s] = 0]
  /\ UNCHANGED <<producer, copier, copied, scanners, errs, closed, daemon, screen, pumping, stop>>

\* A scanner ends with its pipe, or drops its line when the context is done.
ScannerEnds(s) ==
  /\ s \in scanners
  /\ \/ held[s] # 0 /\ cancelled
     \/ /\ held[s] = 0
        /\ IF producer = "raw" THEN cancelled \/ service = "broken" \/ (service = "ended" /\ copied[s] = wrote[s])
           ELSE copier = "done"
  /\ scanners' = scanners \ {s} /\ held' = [held EXCEPT ![s] = 0]
  /\ UNCHANGED <<producer, copier, copied, daemon, channels, screen, pumping, stop>>

\* Once the scanners and the copier are through, the error is sent, unless the context
\* was cancelled.
AllRead ==
  /\ producer \in {"copying", "raw"} /\ scanners = {} /\ copier = "done"
  /\ \/ service = "broken" /\ errs' = <<Notice("error")>> /\ producer' = "failed"
     \/ (service # "broken" \/ cancelled) /\ producer' = "closing" /\ UNCHANGED errs
  /\ UNCHANGED <<copier, copied, scanners, held, lines, closed, daemon, screen, pumping, stop>>

\* The deferred closes run last to first: the errors, then the lines.
Close ==
  /\ producer \in {"closing", "failed"}
  /\ IF "errs" \in closed THEN closed' = {"errs", "lines"} /\ producer' = "over"
     ELSE closed' = {"errs"} /\ UNCHANGED producer
  /\ UNCHANGED <<copier, copied, scanners, held, lines, errs, daemon, screen, pumping, stop>>

Producing ==
  \/ Opened \/ CopyEnds \/ AllRead \/ Close
  \/ \E s \in Sources : Copy(s) \/ Scan(s) \/ ScanFails(s) \/ Push(s) \/ ScannerEnds(s)

StopStreaming ==
  /\ stopping /\ stopping' = FALSE /\ cancelled' = TRUE
  /\ UNCHANGED <<daemon, reading, channels, screen, pumping>>

-----------------------------------------------------------------------------
(***************************************************************************)
(* The view                                                                *)
(***************************************************************************)
Trimmed(s) == IF Len(s) > MaxLines THEN SubSeq(s, Len(s) - MaxLines + 1, Len(s)) ELSE s

\* One select over both channels: a line, an error, or either of them closed.
PumpReads ==
  /\ pump = "waiting"
  /\ \/ /\ lines # <<>> /\ lines' = Tail(lines) /\ message' = Head(lines) /\ UNCHANGED errs
     \/ /\ lines = <<>> /\ "lines" \in closed /\ message' = Notice("done") /\ UNCHANGED <<lines, errs>>
     \/ /\ errs # <<>> /\ errs' = <<>> /\ message' = Head(errs) /\ UNCHANGED lines
     \/ /\ errs = <<>> /\ "errs" \in closed /\ message' = Notice("done") /\ UNCHANGED <<lines, errs>>
  /\ pump' = "sent"
  /\ UNCHANGED <<closed, daemon, reading, screen, stop>>

DeliveredOnce ==
  /\ pump = "sent" /\ message' = Nothing
  /\ IF place = "on"
     THEN /\ buffer' = IF message.kind = "init" THEN buffer ELSE Trimmed(Append(buffer, message))
          /\ pump' = IF message.kind = "init" THEN "waiting" ELSE "none"
     ELSE pump' = "none" /\ UNCHANGED buffer
  /\ UNCHANGED <<place, keys, daemon, reading, channels, stop>>

\* The view appends what it is given, and reads on after a line only; the app gives a
\* message to the view that is on the screen by then.
Delivered ==
  /\ pump = "sent" /\ message' = Nothing
  /\ IF place = "on"
     THEN /\ buffer' = IF message.kind = "init" THEN buffer ELSE Trimmed(Append(buffer, message))
          /\ pump' = IF message.kind \in {"init", "line"} THEN "waiting" ELSE "none"
     ELSE pump' = "none" /\ UNCHANGED buffer
  /\ UNCHANGED <<place, keys, daemon, reading, channels, stop>>

Key == keys < MaxKeys /\ keys' = keys + 1

\* Another view, the help among them, is opened over this one, or it is left for good.
Leave(to) ==
  /\ place = "on" /\ Key /\ place' = to
  /\ stopping' = ~cancelled /\ UNCHANGED cancelled
  /\ UNCHANGED <<buffer, daemon, reading, channels, pumping>>

ReturnReading ==
  /\ place = "under" /\ Key /\ place' = "on"
  /\ pump' = IF pump = "none" THEN "waiting" ELSE pump
  /\ UNCHANGED <<buffer, message, daemon, reading, channels, stop>>

Return ==
  /\ place = "under" /\ Key /\ place' = "on"
  /\ UNCHANGED <<buffer, daemon, reading, channels, pumping, stop>>

\* enter sets a mark under what has been read.
Mark ==
  /\ place = "on" /\ Key /\ buffer' = Trimmed(Append(buffer, Notice("mark")))
  /\ UNCHANGED <<place, daemon, reading, channels, pumping, stop>>

\* The view is opened with its stream; without a client it is told so at once.
Init ==
  /\ service = "open" /\ wrote = [s \in Sources |-> 0] /\ overlong = FALSE
  /\ copier = "done" /\ copied = wrote /\ scanners = {} /\ held = wrote
  /\ lines = <<>> /\ errs = <<>> /\ closed = {} /\ cancelled = FALSE /\ stopping = FALSE
  /\ place = "on" /\ pump = "sent" /\ buffer = <<>> /\ keys = 0
  /\ \/ producer = "opening" /\ message = Notice("init")
     \/ producer = "over" /\ message = Notice("error")

Next ==
  \/ (\E s \in Sources : Write(s)) \/ StreamEnds
  \/ Producing \/ StopStreaming \/ PumpReads \/ Delivered
  \/ Leave("under") \/ Leave("gone") \/ Return \/ Mark

\* Goroutines run and messages are delivered; nobody need log, press a key or end the stream.
Fairness == WF_vars(Producing) /\ WF_vars(StopStreaming) /\ WF_vars(PumpReads) /\ WF_vars(Delivered)

Spec == Init /\ [][Next]_vars /\ Fairness

-----------------------------------------------------------------------------
(***************************************************************************)
(* What must hold                                                          *)
(***************************************************************************)
Entries == [kind : {"line", "error", "done", "mark", "init", "none"}, of : Sources \cup {"none"}, n : 0..MaxWrites]

\* Every piece of state keeps to its type, and the buffer and the channels to their room.
TypeOK ==
  /\ service \in {"open", "ended", "broken"} /\ wrote \in [Sources -> 0..MaxWrites] /\ overlong \in BOOLEAN
  /\ producer \in {"opening", "copying", "raw", "closing", "failed", "over"}
  /\ copier \in Sources \cup {"reading", "done"} /\ copied \in [Sources -> 0..MaxWrites]
  /\ scanners \subseteq Sources /\ held \in [Sources -> 0..MaxWrites] /\ (\A s \in Sources \ scanners : held[s] = 0)
  /\ lines \in Seq(Entries) /\ Len(lines) <= ChannelRoom /\ errs \in Seq(Entries) /\ Len(errs) <= 1
  /\ closed \subseteq {"lines", "errs"} /\ {cancelled, stopping} \subseteq BOOLEAN
  /\ place \in {"on", "under", "gone"} /\ pump \in {"waiting", "sent", "none"} /\ message \in Entries
  /\ buffer \in Seq(Entries) /\ Len(buffer) <= MaxLines /\ keys \in 0..MaxKeys

ShownOf(s) == {i \in DOMAIN buffer : buffer[i].kind = "line" /\ buffer[i].of = s}

\* What the buffer holds of a source are lines in the order they were written, without a
\* gap from the first on, or from a later one when the buffer was trimmed, with whatever
\* notices and marks between: nothing that is lost when the view is covered, cancelled or
\* cut off is followed by a later line.
ShownInOrder ==
  \A s \in Sources :
    /\ \A i, j \in ShownOf(s) : i < j => buffer[i].n < buffer[j].n
    /\ \E first \in 1..(MaxWrites + 1), last \in 0..MaxWrites :
         /\ {buffer[i].n : i \in ShownOf(s)} = first..last
         /\ Len(buffer) < MaxLines => first = 1

\* While the view stays on the screen and the stream goes on, what the service logs comes
\* to be seen, or has been and was trimmed since, or the view is told that there is no
\* more: neither the pump, the scanners nor the copier comes to a stop before the others.
\* Not so once a pipe's scanner has met a line of more than 64 KB: that stops both sources
\* for good, and nobody is told.
SeenAll(s) == wrote[s] = 0 \/ \E i \in DOMAIN buffer : buffer[i].of = s /\ buffer[i].n = wrote[s]

LinesArrive ==
  []<>(\/ place # "on" \/ cancelled \/ service # "open" \/ Len(buffer) = MaxLines
       \/ \E i \in DOMAIN buffer : buffer[i].kind \in {"error", "done"}
       \/ producer = "copying" /\ overlong
       \/ \A s \in Sources : SeenAll(s) \/ (s = "stderr" /\ producer = "raw"))
=============================================================================
