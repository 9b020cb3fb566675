----------------------------- MODULE LiveStreaming -----------------------------
(***************************************************************************)
(* The session of a process of a build action (BuildProcessSession in      *)
(* buildactions/buildactionlivestreaming.cpp and buildactionprivate.h):    *)
(* what the process prints is read into buffers of a pool, written to the  *)
(* log file and spread to the web clients that have asked for the log.  A  *)
(* client gets the contents the file has had when it registered and then   *)
(* what has been read since.  The destructor of the session hands over to  *)
(* the handler of whoever has launched the process.                        *)
(*                                                                         *)
(* The output is a number of chunks, one per read.  What a write transfers *)
(* is what its buffers contain when it takes place.  Operations complete   *)
(* on threads of the building context, those on a socket of a client on    *)
(* threads of the web server.                                              *)
(***************************************************************************)
EXTENDS Naturals, Sequences, SequencesExt, FiniteSets

CONSTANTS Clients,
          MaxChunks     \* bound of what the process prints

\* As many as the pool can need: one per chunk, one to read into and one per
\* client for the file.
Buffers == 1 .. MaxChunks + 1 + Cardinality(Clients)

ASSUME LiveStreamingAssumption == IsFiniteSet(Clients) /\ MaxChunks \in Nat

VARIABLES total,        \* chunks the process prints
          child,        \* "made", "running", "dead" or "exited" (m_exited)
          ongoing,      \* registered in m_ongoingProcesses
          pipe,         \* "none", "reading" or "closed"
          read,         \* chunks read so far
          contents,     \* chunk in each buffer
          current,      \* m_buffer
          log, file,
          client,
          handled       \* the handler has been posted

process == <<child, ongoing, pipe, read>>
vars == <<total, process, contents, current, log, file, client, handled>>

NoBuffer == 0
NewLog == [open |-> FALSE, error |-> FALSE, sending |-> <<>>, refs |-> <<>>, writes |-> <<>>,
           continuing |-> 0, queue |-> <<>>, raced |-> FALSE]
NewClient == [at |-> "absent", left |-> 0, position |-> 0, fileBuffer |-> NoBuffer, sending |-> <<>>,
              refs |-> <<>>, writes |-> <<>>, continuing |-> 0, queue |-> <<>>, error |-> FALSE,
              got |-> <<>>, fromFile |-> 0, ends |-> 0, raced |-> FALSE]

Init ==
    /\ total \in 0 .. MaxChunks
    /\ child = "made" /\ ongoing = TRUE /\ pipe = "none" /\ read = 0
    /\ contents = [b \in Buffers |-> 0] /\ current = NoBuffer
    /\ log = NewLog /\ file = <<>>
    /\ client = [c \in Clients |-> NewClient]
    /\ handled = FALSE

Exited == child = "exited"
Registered(x) == x.at \notin {"absent", "header", "gone"}
Contents(buffers) == [k \in DOMAIN buffers |-> contents[buffers[k]]]

-----------------------------------------------------------------------------
(* Buffers of the pool                                                     *)

\* The buffers somebody holds, given the log and the clients.  A write that is
\* under way does not hold its buffers, the session does.
Held(l, clients) ==
    {current} \cup ToSet(l.sending) \cup ToSet(l.queue) \cup
    UNION {ToSet(clients[c].sending) \cup ToSet(clients[c].queue) \cup {clients[c].fileBuffer} : c \in Clients}

Smallest(S) == CHOOSE b \in S : \A d \in S : b <= d

\* Mutation of NewBuffer: only what m_buffer refers to is not handed out again.
NewBufferUnchecked(l, clients) == Smallest(Buffers \ {current})

\* newBuffer(): the first buffer nobody but the pool refers to.
NewBuffer(l, clients) == Smallest(Buffers \ Held(l, clients))

-----------------------------------------------------------------------------
(* The process and its pipe                                                *)

\* writeCurrentBuffer() for the log and for a client.
LogTakes(l, b) ==
    IF l.error THEN l
    ELSE IF l.sending = <<>> THEN [l EXCEPT !.sending = <<b>>, !.writes = Append(@, <<b>>)]
    ELSE [l EXCEPT !.queue = Append(@, b)]

\* Mutation of MaySend: what is still to be sent of the file does not matter.
MaySendAtOnce(x) == x.sending = <<>>

MaySend(x) == x.sending = <<>> /\ x.left = 0

\* raced is a history: the write has been started while writeNextBufferToWebSession()
\* was about to look at the same buffers, and may be started there a second time.
ClientTakes(x, b) ==
    IF ~Registered(x) \/ x.error THEN x
    ELSE IF MaySend(x)
    THEN LET all == Append(x.queue, b)
         IN  [x EXCEPT !.sending = all, !.refs = all, !.writes = Append(@, all), !.queue = <<>>,
                       !.raced = @ \/ x.continuing > 0]
    ELSE [x EXCEPT !.queue = Append(@, b)]

\* launch(): the log file is truncated, the process started and reading begins.
Launch ==
    /\ child = "made"
    /\ child' = "running"
    /\ pipe' = "reading"
    /\ log' = [log EXCEPT !.open = TRUE]
    /\ current' = NewBuffer(log, client)
    /\ UNCHANGED <<total, ongoing, read, contents, file, client, handled>>

\* The log file cannot be opened or the process not be started.
LaunchFails ==
    /\ child = "made"
    /\ child' = "exited" /\ ongoing' = FALSE
    /\ \E opened \in BOOLEAN : log' = [log EXCEPT !.open = opened]
    /\ UNCHANGED <<total, pipe, read, contents, current, file, client, handled>>

\* writeDataFromPipe() with data, which is written before reading goes on.
ReadChunk ==
    /\ pipe = "reading" /\ read < total
    /\ read' = read + 1
    /\ contents' = [contents EXCEPT ![current] = read + 1]
    /\ log' = LogTakes(log, current)
    /\ client' = [c \in Clients |-> ClientTakes(client[c], current)]
    /\ current' = NewBuffer(log', client')
    /\ UNCHANGED <<total, child, ongoing, pipe, file, handled>>

CloseLog(l) == [l EXCEPT !.open = FALSE]

\* close(): the clients are told it's over unless something is queued for them.
Over(x) == IF Registered(x) /\ x.queue = <<>> THEN [x EXCEPT !.ends = @ + 1] ELSE x

\* writeDataFromPipe() without data: the process is gone or reading fails.
EndOfPipe ==
    /\ pipe = "reading"
    /\ pipe' = "closed"
    /\ log' = IF log.queue = <<>> THEN CloseLog(log) ELSE log
    /\ client' = [c \in Clients |-> Over(client[c])]
    /\ UNCHANGED <<total, child, ongoing, read, contents, current, file, handled>>

DrainedPipe == read = total /\ child \in {"dead", "exited"} /\ EndOfPipe

\* An error other than the end of the output.
BrokenPipe == EndOfPipe

Die ==
    /\ child = "running" /\ child' = "dead"
    /\ UNCHANGED <<total, ongoing, pipe, read, contents, current, log, file, client, handled>>

\* Mutation of Conclude: the session stays in m_ongoingProcesses.
ConcludeRegistered ==
    /\ child = "dead"
    /\ child' = "exited"
    /\ UNCHANGED <<total, ongoing, pipe, read, contents, current, log, file, client, handled>>

\* The handler for the exit of the process: conclude().
Conclude ==
    /\ child = "dead"
    /\ child' = "exited" /\ ongoing' = FALSE
    /\ UNCHANGED <<total, pipe, read, contents, current, log, file, client, handled>>

\* The build action concludes in the middle and clears m_ongoingProcesses.
Detach ==
    /\ ongoing /\ child # "made"
    /\ ongoing' = FALSE
    /\ UNCHANGED <<total, child, pipe, read, contents, current, log, file, client, handled>>

-----------------------------------------------------------------------------
(* The log file.  Writing and its handler are one step, as reading more in *)
(* between amounts to writing later.                                       *)

LogFrame == UNCHANGED <<total, process, contents, current, client, handled>>

Remember(l, k) == [l EXCEPT !.writes = RemoveAt(@, k), !.sending = <<>>]

\* The part of writeNextBufferToLogFile() that holds m_mutex.  raced is a history: the
\* handler of an earlier write has not looked at the buffers yet and may find those of
\* this one.
LogWritten ==
    /\ log.open
    /\ \E k \in DOMAIN log.writes :
        /\ file' = file \o Contents(log.writes[k])
        /\ log' = LET l == Remember(log, k)
                  IN  IF log.queue = <<>> /\ Exited THEN CloseLog(l)
                      ELSE [l EXCEPT !.sending = log.queue, !.refs = log.queue, !.queue = <<>>,
                                     !.continuing = @ + 1, !.raced = @ \/ log.continuing > 0]
    /\ LogFrame

\* ... and the rest, which looks at the buffers after m_mutex has been released.
LogContinues ==
    /\ log.continuing > 0
    /\ log' = [log EXCEPT !.continuing = @ - 1,
                          !.writes = IF log.refs = <<>> THEN @ ELSE Append(@, log.refs)]
    /\ UNCHANGED file /\ LogFrame

\* The disk is full or the file has been closed.
LogFails ==
    /\ \E k \in DOMAIN log.writes :
        log' = [Remember(log, k) EXCEPT !.refs = <<>>, !.queue = <<>>, !.error = TRUE]
    /\ UNCHANGED file /\ LogFrame

-----------------------------------------------------------------------------
(* The web clients                                                         *)

Update(c, x) ==
    /\ client' = [client EXCEPT ![c] = x]
    /\ UNCHANGED <<total, process, current, log, file, handled>>

Forgotten(x) == [x EXCEPT !.sending = <<>>, !.refs = <<>>, !.queue = <<>>, !.error = TRUE]

\* streamFile() of the build action: the header is sent to a client asking for the
\* log of a process that is registered.
Request(c) ==
    /\ client[c].at = "absent" /\ ongoing
    /\ Update(c, [client[c] EXCEPT !.at = "header"]) /\ UNCHANGED contents

HeaderFails(c) ==
    /\ client[c].at = "header"
    /\ Update(c, [client[c] EXCEPT !.at = "gone"]) /\ UNCHANGED contents

\* registerWebSession() and streamFile() of the data for the client; if the file
\* cannot be opened there is only live data.
Register(c) ==
    /\ client[c].at = "header"
    /\ \/ Update(c, [client[c] EXCEPT !.at = "reading", !.left = Len(file), !.fromFile = Len(file),
                                      !.fileBuffer = NewBuffer(log, client)])
       \/ Update(c, [client[c] EXCEPT !.at = "streamed"])
    /\ UNCHANGED contents

\* writeFileData(), called when something has been read from the file.
FileRead(c) ==
    LET x == client[c]
    IN  /\ x.at = "reading"
        /\ contents' = IF x.left = 0 THEN contents
                       ELSE [contents EXCEPT ![x.fileBuffer] = file[x.position + 1]]
        /\ Update(c, [x EXCEPT !.at = "writing"])

\* Reading fails: the rest is never sent and the client receives nothing more.
FileReadFails(c) ==
    /\ client[c].at = "reading"
    /\ Update(c, [client[c] EXCEPT !.at = "streamed"]) /\ UNCHANGED contents

\* The client has got the next piece of the file.
FileWritten(c) ==
    LET x == client[c]
        more == x.left > 1
        y == IF x.left = 0 THEN x
             ELSE [x EXCEPT !.left = @ - 1, !.position = @ + 1, !.got = Append(@, contents[x.fileBuffer])]
    IN  /\ x.at = "writing"
        /\ Update(c, IF more THEN [y EXCEPT !.at = "reading"]
                     ELSE [y EXCEPT !.at = "streamed", !.ends = IF Exited THEN @ + 1 ELSE @])
        /\ UNCHANGED contents

FileWriteFails(c) ==
    /\ client[c].at = "writing"
    /\ Update(c, [Forgotten(client[c]) EXCEPT !.at = "streamed", !.left = 0]) /\ UNCHANGED contents

\* The client has got live data: the part of writeNextBufferToWebSession() that
\* holds m_mutex.
LiveWritten(c) ==
    LET x == client[c]
    IN  \E k \in DOMAIN x.writes :
            LET y == [x EXCEPT !.writes = RemoveAt(@, k), !.sending = <<>>, !.got = @ \o Contents(x.writes[k])]
            IN  /\ Update(c, IF x.queue = <<>> /\ Exited THEN [y EXCEPT !.ends = @ + 1]
                             ELSE [y EXCEPT !.sending = x.queue, !.refs = x.queue, !.queue = <<>>,
                                            !.continuing = @ + 1])
                /\ UNCHANGED contents

\* ... and the rest, which looks at the buffers after m_mutex has been released.
LiveContinues(c) ==
    LET x == client[c]
    IN  /\ x.continuing > 0
        /\ Update(c, [x EXCEPT !.continuing = @ - 1,
                               !.writes = IF x.refs = <<>> THEN @ ELSE Append(@, x.refs)])
        /\ UNCHANGED contents

LiveFails(c) ==
    \E k \in DOMAIN client[c].writes :
        /\ Update(c, [Forgotten(client[c]) EXCEPT !.writes = RemoveAt(@, k)])
        /\ UNCHANGED contents

-----------------------------------------------------------------------------

\* Everything that keeps the session alive has let go of it, so it is destroyed
\* and its handler is posted.
Referenced ==
    \/ ongoing \/ child # "exited" \/ pipe = "reading"
    \/ log.writes # <<>> \/ log.continuing > 0
    \/ \E c \in Clients : \/ client[c].at \in {"header", "reading", "writing"}
                          \/ client[c].writes # <<>> \/ client[c].continuing > 0

Destroy ==
    /\ ~Referenced /\ ~handled
    /\ handled' = TRUE
    /\ log' = CloseLog(log)
    /\ UNCHANGED <<total, process, contents, current, file, client>>

Step ==
    \/ Launch \/ LaunchFails \/ ReadChunk \/ DrainedPipe \/ Die \/ Conclude
    \/ LogWritten \/ LogContinues \/ LogFails
    \/ \E c \in Clients :
        \/ HeaderFails(c) \/ Register(c)
        \/ FileRead(c) \/ FileReadFails(c) \/ FileWritten(c) \/ FileWriteFails(c)
        \/ LiveWritten(c) \/ LiveContinues(c) \/ LiveFails(c)
    \/ Destroy

Next == Step \/ BrokenPipe \/ Detach \/ \E c \in Clients : Request(c)

\* Processes exit, writes succeed or fail and handlers are run.  Nobody has to
\* ask for a log or conclude the action before its processes are done.
Spec == Init /\ [][Next]_vars /\ WF_vars(Step)

-----------------------------------------------------------------------------
(* Properties                                                              *)

TypeOK ==
    /\ child \in {"made", "running", "dead", "exited"}
    /\ read \in 0 .. total
    /\ current \in Buffers \cup {NoBuffer}
    /\ log.queue # <<>> => log.sending # <<>>
    /\ \A c \in Clients : client[c].left + client[c].position <= client[c].fromFile

\* The log is what the process has printed, from its first line on and without
\* gaps, repetitions or parts of other buffers, and if something that has been
\* read is missing in the end an error of writing has been noticed, unless the
\* handlers of two writes have overtaken each other (writeCurrentBuffer,
\* writeNextBufferToLogFile, newBuffer).
LogFaithful ==
    /\ TypeOK
    /\ ~log.raced => /\ Len(file) <= read /\ \A k \in DOMAIN file : file[k] = k
                     /\ handled => Len(file) = read \/ log.error

\* A client gets the file as it was when the client registered, and then each part
\* of the later output at most once and in order, whatever buffers it went through,
\* unless writing to it has failed or handlers have overtaken each other
\* (writeFileData, writeCurrentBuffer, newBuffer).
FileThenLive ==
    \A c \in Clients :
        LET x == client[c] IN
        ~x.raced /\ ~x.error /\ ~log.raced =>
            \A k \in DOMAIN x.got :
                IF k <= x.fromFile THEN x.got[k] = k
                ELSE k > 1 => x.got[k - 1] < x.got[k]

\* Whoever waits for the process is told, however slow or broken the clients are.
EventuallyHandled == <>handled

=============================================================================
