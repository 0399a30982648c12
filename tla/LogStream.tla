----------------------------- MODULE LogStream ------------------------------
(***************************************************************************)
(* dashboard/log_streamer.py follows the log file of the bot for a browser. *)
(* The bot writes it through a RotatingFileHandler: a file that is full is  *)
(* renamed away, and for a moment there is none.  The two are processes of  *)
(* their own, so lines come and files go between any two looks of the       *)
(* stream.  Positions count lines, which are of one length here; the        *)
(* keepalive is left out.                                                  *)
(***************************************************************************)
EXTENDS Integers, Sequences, SequencesExt

CONSTANTS
    FileLines,      \* maxBytes of the handler
    Limit,          \* limit of read_last_lines
    MaxLines,       \* bound: lines the bot writes
    MaxStreams      \* bound: streams opened

ASSUME LogAssumption == {FileLines, Limit, MaxLines, MaxStreams} \subseteq Nat \ {0}

VARIABLES
    files,      \* the lengths of btc_bot.log's successive files
    current,    \* the file that has the name, 0 while none has
    phase,      \* of the stream: "off", "backlog", "poll", "open", "read"
    backlog,    \* the lines of read_last_lines not sent yet
    position,   \* file_position
    reading,    \* the file of the open handle and the lines of it that are read
    sent,       \* history: the lines the stream has sent, as <<file, line>>
    tailed,     \* history: how many of them are of the backlog
    streams

logVars == <<files, current, phase, backlog, position, reading, sent, tailed, streams>>

Size    == IF current = 0 THEN 0 ELSE files[current]
Written == FoldSeq(+, 0, files)

-----------------------------------------------------------------------------
(* The bot *)

(* doRollover, when the next line does not fit. *)
Rotate ==
    /\ current # 0 /\ Size = FileLines /\ Written < MaxLines
    /\ current' = 0
    /\ UNCHANGED <<files, phase, backlog, position, reading, sent, tailed, streams>>

OpenLog ==
    /\ current = 0
    /\ files' = Append(files, 0) /\ current' = Len(files) + 1
    /\ UNCHANGED <<phase, backlog, position, reading, sent, tailed, streams>>

WriteLine ==
    /\ current # 0 /\ Size < FileLines /\ Written < MaxLines
    /\ files' = [files EXCEPT ![current] = @ + 1]
    /\ UNCHANGED <<current, phase, backlog, position, reading, sent, tailed, streams>>

-----------------------------------------------------------------------------
(* The stream *)

LastLines ==
    LET n == IF Size < Limit THEN Size ELSE Limit
    IN  [k \in 1 .. n |-> <<current, Size - n + k>>]

OpenStream ==
    /\ phase = "off" /\ streams < MaxStreams
    /\ streams' = streams + 1 /\ phase' = "backlog"
    /\ backlog' = LastLines
    /\ position' = 0 /\ reading' = [file |-> 0, upto |-> 0] /\ sent' = <<>> /\ tailed' = 0
    /\ UNCHANGED <<files, current>>

SendBacklog ==
    /\ phase = "backlog" /\ backlog # <<>>
    /\ sent' = Append(sent, Head(backlog)) /\ backlog' = Tail(backlog) /\ tailed' = tailed + 1
    /\ UNCHANGED <<files, current, phase, position, reading, streams>>

(* Mutant: the position is left at the start of the file. *)
FollowFromStart ==
    /\ phase = "backlog" /\ backlog = <<>>
    /\ phase' = "poll"
    /\ UNCHANGED <<files, current, backlog, position, reading, sent, tailed, streams>>

(* The position is taken when the backlog is sent, not when it was read. *)
Follow ==
    /\ phase = "backlog" /\ backlog = <<>>
    /\ phase' = "poll" /\ position' = Size
    /\ UNCHANGED <<files, current, backlog, reading, sent, tailed, streams>>

(* exists() and stat(): a file smaller than the position must be a new one. *)
Poll ==
    /\ phase = "poll"
    /\ position' = IF current = 0 \/ Size < position THEN 0 ELSE position
    /\ phase' = IF current = 0 THEN "poll" ELSE "open"
    /\ UNCHANGED <<files, current, backlog, reading, sent, tailed, streams>>

(* open() and seek(); the file may be another one, or gone, by now. *)
OpenFile ==
    /\ phase = "open"
    /\ phase' = IF current = 0 THEN "off" ELSE "read"
    /\ reading' = [file |-> current, upto |-> position]
    /\ UNCHANGED <<files, current, backlog, position, sent, tailed, streams>>

(* The handle stays on its file when that is renamed. *)
More == reading.upto < files[reading.file]

ReadLine ==
    /\ phase = "read" /\ More
    /\ reading' = [reading EXCEPT !.upto = @ + 1]
    /\ sent' = Append(sent, <<reading.file, reading.upto + 1>>)
    /\ UNCHANGED <<files, current, phase, backlog, position, tailed, streams>>

EndOfFile ==
    /\ phase = "read" /\ ~More
    /\ phase' = "poll" /\ position' = reading.upto
    /\ UNCHANGED <<files, current, backlog, reading, sent, tailed, streams>>

(* The browser has gone. *)
Disconnect ==
    /\ phase # "off" /\ phase' = "off"
    /\ UNCHANGED <<files, current, backlog, position, reading, sent, tailed, streams>>

LogInit ==
    /\ files = <<>> /\ current = 0
    /\ phase = "off" /\ backlog = <<>> /\ position = 0 /\ reading = [file |-> 0, upto |-> 0]
    /\ sent = <<>> /\ tailed = 0 /\ streams = 0

LogNext ==
    \/ Rotate \/ OpenLog \/ WriteLine
    \/ OpenStream \/ SendBacklog \/ Follow \/ Poll \/ OpenFile \/ ReadLine \/ EndOfFile \/ Disconnect

LogSpec == LogInit /\ [][LogNext]_logVars

-----------------------------------------------------------------------------
(* Properties *)

(* No line comes twice or out of order, through rotations at any moment,    *)
(* and lines are left out in three places only: those written while the     *)
(* backlog is sent, the end of a file renamed since the last look, and the  *)
(* start of a file that had outgrown the position by the next look.         *)
StreamExplained ==
    \A k \in 1 .. Len(sent) - 1 :
        LET a == sent[k]
            b == sent[k + 1]
        IN  \/ b = <<a[1], a[2] + 1>>
            \/ b[1] > a[1] /\ b[2] \in {1, a[2] + 1}
            \/ k = tailed /\ (b[1] > a[1] \/ (b[1] = a[1] /\ b[2] > a[2]))
=============================================================================
