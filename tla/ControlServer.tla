---------------------------- MODULE ControlServer ----------------------------
(***************************************************************************)
(* gui/ControlServer.cpp: the named pipe through which external tools      *)
(* drive the running program.  A background thread owns the pipe, reads    *)
(* request lines and hands each to the UI thread, which executes it in     *)
(* poll() once per frame; the thread waits for the result for at most five *)
(* seconds.  At exit the UI thread calls stop(), which has to get the      *)
(* background thread out of whatever call it is blocked in.                *)
(*                                                                         *)
(* A request line is a number, its answer the same number; Busy is the     *)
(* "application does not answer" reply.  The pipe's client and a second    *)
(* running instance of the program are the environment.                    *)
(***************************************************************************)
EXTENDS Naturals, Sequences

CONSTANTS MaxRequests,   \* bound on the request lines of a behaviour
          MaxSessions    \* bound on the connections of clients

ASSUME BoundsAssumption == MaxRequests \in Nat /\ MaxSessions \in Nat

Requests == 1 .. MaxRequests
Busy == 0                \* the reply to a request that timed out
NoAnswer == MaxRequests + 1  \* m_response before any result

VARIABLES
    m_run, m_hasRequest, m_request, m_response, m_reqId, m_doneId,
    tpc,        \* where the pipe thread is in threadMain
    waitId,     \* threadMain's id
    line,       \* threadMain's line, the request being answered
    resp,       \* threadMain's resp
    buf,        \* threadMain's buf: lines read and not yet answered
    upc,        \* where the UI thread is: in a frame, in poll, in stop
    uiId, uiReq,\* poll's id and req
    pipe,       \* who owns the pipe name: "none", "ours", "other" instance
    peer,       \* the client's end of our pipe: "none", "open", "closed"
    inbox,      \* lines the client wrote and the thread has not read
    sent,       \* lines the client wrote in this connection
    got,        \* answers written to it, in order
    nextReq,    \* the number of the next line a client will write
    sessions,   \* connections of clients so far
    executed,   \* history: requests the UI thread executed, in order
    cancelled,  \* history: requests given up before poll took them
    served      \* history: our thread has owned the pipe

mailbox == <<m_hasRequest, m_request, m_response, m_reqId, m_doneId>>
thread == <<tpc, waitId, line, resp, buf>>
ui == <<upc, uiId, uiReq>>
client == <<peer, inbox, sent, nextReq, sessions>>
history == <<executed, cancelled, served>>
vars == <<m_run, mailbox, thread, ui, pipe, client, got, history>>

Init == /\ m_run = FALSE /\ m_hasRequest = FALSE
        /\ m_request = Busy /\ m_response = NoAnswer
        /\ m_reqId = 0 /\ m_doneId = 0
        /\ tpc = "off" /\ waitId = 0 /\ line = Busy /\ resp = NoAnswer /\ buf = << >>
        /\ upc = "launch" /\ uiId = 0 /\ uiReq = Busy
        /\ pipe \in {"none", "other"}
        /\ peer = "none" /\ inbox = << >> /\ sent = << >> /\ nextReq = 1 /\ sessions = 0
        /\ got = << >>
        /\ executed = << >> /\ cancelled = {} /\ served = FALSE

-----------------------------------------------------------------------------
(* The UI thread. *)

\* App::run starts the server when the settings ask for it.
Start ==
    /\ upc = "launch"
    /\ \/ m_run' = TRUE /\ tpc' = "loop"
       \/ UNCHANGED <<m_run, tpc>>
    /\ upc' = "frame"
    /\ UNCHANGED <<mailbox, waitId, line, resp, buf, uiId, uiReq, pipe, client, got, history>>

\* (defect: the request stays in the mailbox)
PollTakeKeepsRequest ==
    /\ upc = "frame"
    /\ m_hasRequest
    /\ uiReq' = m_request
    /\ uiId' = m_reqId
    /\ upc' = "handle"
    /\ UNCHANGED <<m_run, mailbox, thread, pipe, client, got, history>>

\* (defect: poll does not look whether there is a request)
PollTakeUnasked ==
    /\ upc = "frame"
    /\ uiReq' = m_request
    /\ uiId' = m_reqId
    /\ m_hasRequest' = FALSE
    /\ upc' = "handle"
    /\ UNCHANGED <<m_run, m_request, m_response, m_reqId, m_doneId, thread, pipe, client,
                   got, history>>

\* poll, first block: take the waiting request.
PollTake ==
    /\ upc = "frame"
    /\ m_hasRequest
    /\ uiReq' = m_request
    /\ uiId' = m_reqId
    /\ m_hasRequest' = FALSE
    /\ upc' = "handle"
    /\ UNCHANGED <<m_run, m_request, m_response, m_reqId, m_doneId, thread, pipe, client,
                   got, history>>

\* poll calls the handler, outside the lock.
PollHandle ==
    /\ upc = "handle"
    /\ executed' = Append(executed, uiReq)
    /\ upc' = "result"
    /\ UNCHANGED <<m_run, mailbox, thread, uiId, uiReq, pipe, client, got, cancelled, served>>

\* The result is stored only for the request that is still the newest one.
ResultWanted == uiId = m_reqId

\* poll, last block.
PollResult ==
    /\ upc = "result"
    /\ IF ResultWanted
       THEN m_response' = uiReq /\ m_doneId' = uiId
       ELSE UNCHANGED <<m_response, m_doneId>>
    /\ upc' = "frame"
    /\ UNCHANGED <<m_run, m_hasRequest, m_request, m_reqId, thread, uiId, uiReq, pipe,
                   client, got, history>>

\* stop: m_run.exchange(false); when it was set, the thread has to be woken.
StopBegin ==
    /\ upc = "frame"
    /\ upc' = IF m_run THEN "attach" ELSE "join"
    /\ m_run' = FALSE
    /\ UNCHANGED <<mailbox, thread, uiId, uiReq, pipe, client, got, history>>

\* (defect: stop does not attach to the pipe)
StopWithoutAttach ==
    /\ upc = "attach"
    /\ upc' = "release"
    /\ UNCHANGED <<m_run, mailbox, thread, uiId, uiReq, pipe, client, got, history>>

\* stop attaches to the pipe once, if it can, and lets go again.
StopAttach ==
    /\ upc = "attach"
    /\ peer' = IF pipe = "ours" /\ peer = "none" THEN "closed" ELSE peer
    /\ upc' = "release"
    /\ UNCHANGED <<m_run, mailbox, thread, uiId, uiReq, pipe, inbox, sent, nextReq, sessions,
                   got, history>>

\* stop releases a thread that waits for a result.
StopRelease ==
    /\ upc = "release"
    /\ m_doneId' = m_reqId
    /\ upc' = "join"
    /\ UNCHANGED <<m_run, m_hasRequest, m_request, m_response, m_reqId, thread, uiId, uiReq,
                   pipe, client, got, history>>

\* m_thread.join() returns once the thread has left threadMain.
StopJoin ==
    /\ upc = "join"
    /\ tpc \in {"off", "exit"}
    /\ tpc' = "off"
    /\ upc' = "stopped"
    /\ UNCHANGED <<m_run, mailbox, waitId, line, resp, buf, uiId, uiReq, pipe, client, got,
                   history>>

-----------------------------------------------------------------------------
(* The pipe thread: threadMain. *)

\* while (m_run.load())
LoopTest ==
    /\ tpc = "loop"
    /\ tpc' = IF m_run THEN "create" ELSE "exit"
    /\ UNCHANGED <<m_run, mailbox, waitId, line, resp, buf, ui, pipe, client, got, history>>

\* CreateNamedPipeW fails while another instance owns the name: give up.
CreatePipe ==
    /\ tpc = "create"
    /\ IF pipe = "none"
       THEN /\ pipe' = "ours" /\ served' = TRUE /\ tpc' = "connect"
            /\ peer' = "none"
            /\ UNCHANGED m_run
       ELSE /\ m_run' = FALSE /\ tpc' = "exit"
            /\ UNCHANGED <<pipe, peer, served>>
    /\ UNCHANGED <<mailbox, waitId, line, resp, buf, ui, inbox, sent, nextReq, sessions, got,
                   executed, cancelled>>

\* ConnectNamedPipe returns when a client is there, or was there and left before
\* the call (which then fails).
Connect ==
    /\ tpc = "connect"
    /\ \/ peer = "open" /\ tpc' = "connected"
       \/ peer = "closed" /\ tpc' \in {"connected", "drop"}
    /\ UNCHANGED <<m_run, mailbox, waitId, line, resp, buf, ui, pipe, client, got, history>>

\* if (!connected || !m_run.load()) CloseHandle and start over; else buf.clear().
ConnectTest ==
    /\ tpc = "connected"
    /\ tpc' = IF m_run THEN "session" ELSE "drop"
    /\ buf' = << >>
    /\ UNCHANGED <<m_run, mailbox, waitId, line, resp, ui, pipe, client, got, history>>

\* The inner while (m_run.load()).
SessionTest ==
    /\ tpc = "session"
    /\ tpc' = IF m_run THEN "read" ELSE "drop"
    /\ UNCHANGED <<m_run, mailbox, waitId, line, resp, buf, ui, pipe, client, got, history>>

\* ReadFile returns what the client wrote, or fails once it has left.
Read ==
    /\ tpc = "read"
    /\ \/ /\ inbox # << >>
          /\ buf' = buf \o inbox
          /\ inbox' = << >>
          /\ tpc' = "lines"
       \/ /\ inbox = << >> /\ peer # "open"
          /\ tpc' = "drop"
          /\ UNCHANGED <<buf, inbox>>
    /\ UNCHANGED <<m_run, mailbox, waitId, line, resp, ui, pipe, peer, sent, nextReq,
                   sessions, got, history>>

\* No complete line left: back to reading.
LinesDone ==
    /\ tpc = "lines" /\ buf = << >>
    /\ tpc' = "session"
    /\ UNCHANGED <<m_run, mailbox, waitId, line, resp, buf, ui, pipe, client, got, history>>

\* Every request gets a number of its own.
NewId == m_reqId + 1

\* Hand the next line to the UI thread.
Post ==
    /\ tpc = "lines" /\ buf # << >>
    /\ line' = Head(buf)
    /\ buf' = Tail(buf)
    /\ m_reqId' = NewId
    /\ waitId' = NewId
    /\ m_request' = Head(buf)
    /\ m_hasRequest' = TRUE
    /\ tpc' = "wait"
    /\ UNCHANGED <<m_run, m_response, m_doneId, resp, ui, pipe, client, got, history>>

\* m_cvDone: the result (or stop) arrived.
Answered ==
    /\ tpc = "wait"
    /\ m_doneId = waitId
    /\ resp' = m_response
    /\ tpc' = "reply"
    /\ UNCHANGED <<m_run, mailbox, waitId, line, buf, ui, pipe, client, got, history>>

\* (defect: the wait has no time limit)
NeverTimeOut == FALSE /\ UNCHANGED vars

\* (defect: a request that timed out is left for a later frame)
TimeOutLeavesRequest ==
    /\ tpc = "wait"
    /\ m_doneId # waitId
    /\ cancelled' = IF m_hasRequest THEN cancelled \cup {line} ELSE cancelled
    /\ resp' = Busy
    /\ tpc' = "reply"
    /\ UNCHANGED <<m_run, mailbox, waitId, line, buf, ui, pipe, client, got, executed, served>>

\* Five seconds pass without a result: cancel the request if poll has not taken it.
TimeOut ==
    /\ tpc = "wait"
    /\ m_doneId # waitId
    /\ cancelled' = IF m_hasRequest THEN cancelled \cup {line} ELSE cancelled
    /\ m_hasRequest' = FALSE
    /\ resp' = Busy
    /\ tpc' = "reply"
    /\ UNCHANGED <<m_run, m_request, m_response, m_reqId, m_doneId, waitId, line, buf, ui,
                   pipe, client, got, executed, served>>

\* (defect: the answer is written without looking at m_run again)
ReplyAnyway == TRUE

\* if (!m_run.load()) break: what stop released the wait with is not an answer.
MayReply == m_run

ReplyTest ==
    /\ tpc = "reply"
    /\ tpc' = IF MayReply THEN "write" ELSE "session"
    /\ UNCHANGED <<m_run, mailbox, waitId, line, resp, buf, ui, pipe, client, got, history>>

\* WriteFile delivers the answer, or fails when the client has left.
Write ==
    /\ tpc = "write"
    /\ IF peer = "open"
       THEN got' = Append(got, resp) /\ tpc' = "lines"
       ELSE tpc' = "session" /\ UNCHANGED got
    /\ UNCHANGED <<m_run, mailbox, waitId, line, resp, buf, ui, pipe, client, history>>

\* The connection ends: the handle is closed, and the pipe's name is free until
\* the loop creates it again.
Drop ==
    /\ tpc = "drop"
    /\ pipe' = "none"
    /\ peer' = "none"
    /\ inbox' = << >>
    /\ tpc' = "loop"
    /\ UNCHANGED <<m_run, mailbox, waitId, line, resp, buf, ui, sent, nextReq, sessions, got,
                   history>>

-----------------------------------------------------------------------------
(* The environment: the client (mcp/midipro-mcp.mjs), another instance.     *)

ClientConnect ==
    /\ pipe = "ours" /\ peer = "none"
    /\ sessions < MaxSessions
    /\ peer' = "open"
    /\ sessions' = sessions + 1
    /\ sent' = << >> /\ got' = << >>
    /\ UNCHANGED <<m_run, mailbox, thread, ui, pipe, inbox, nextReq, history>>

\* The client may write lines without waiting for the answers.
ClientWrite ==
    /\ peer = "open"
    /\ nextReq =< MaxRequests
    /\ inbox' = Append(inbox, nextReq)
    /\ sent' = Append(sent, nextReq)
    /\ nextReq' = nextReq + 1
    /\ UNCHANGED <<m_run, mailbox, thread, ui, pipe, peer, sessions, got, history>>

\* The client has its answer, or gave up waiting for it.
ClientClose ==
    /\ peer = "open"
    /\ peer' = "closed"
    /\ UNCHANGED <<m_run, mailbox, thread, ui, pipe, inbox, sent, nextReq, sessions, got,
                   history>>

OtherInstanceCreates ==
    /\ pipe = "none"
    /\ pipe' = "other"
    /\ UNCHANGED <<m_run, mailbox, thread, ui, client, got, history>>

OtherInstanceExits ==
    /\ pipe = "other"
    /\ pipe' = "none"
    /\ UNCHANGED <<m_run, mailbox, thread, ui, client, got, history>>

-----------------------------------------------------------------------------
Poll == PollTake \/ PollHandle \/ PollResult
StopSteps == StopAttach \/ StopRelease \/ StopJoin
ThreadStep == \/ LoopTest \/ CreatePipe \/ Connect \/ ConnectTest \/ SessionTest \/ Read
              \/ LinesDone \/ Post \/ Answered \/ TimeOut \/ ReplyTest \/ Write \/ Drop
Environment == \/ ClientConnect \/ ClientWrite \/ ClientClose
               \/ OtherInstanceCreates \/ OtherInstanceExits

Next == Start \/ Poll \/ StopBegin \/ StopSteps \/ ThreadStep \/ Environment

Spec == Init /\ [][Next]_vars

\* The pipe thread is scheduled, wait_for's five seconds elapse, and a call of stop
\* goes on.  Nothing is assumed of clients, which may wait for ever, nor of the UI
\* thread's frames: a modal dialog may keep it from polling.
FairThread == WF_vars(ThreadStep)
FairStop == WF_vars(StopSteps)

FairSpec == Spec /\ FairThread /\ FairStop

-----------------------------------------------------------------------------
(* Properties *)

MailboxTypes ==
    /\ m_run \in BOOLEAN /\ m_hasRequest \in BOOLEAN
    /\ m_request \in Requests \cup {Busy}
    /\ m_response \in Requests \cup {NoAnswer}
    /\ m_reqId \in Nat /\ m_doneId \in Nat

ThreadTypes ==
    /\ tpc \in {"off", "loop", "create", "connect", "connected", "session", "read",
                "lines", "wait", "reply", "write", "drop", "exit"}
    /\ waitId \in Nat
    /\ line \in Requests \cup {Busy}
    /\ resp \in Requests \cup {Busy, NoAnswer}
    /\ buf \in Seq(Requests)
    /\ upc \in {"launch", "frame", "handle", "result", "attach", "release", "join",
                "stopped"}
    /\ uiId \in Nat
    /\ uiReq \in Requests \cup {Busy}

ClientTypes ==
    /\ pipe \in {"none", "ours", "other"} /\ peer \in {"none", "open", "closed"}
    /\ inbox \in Seq(Requests) /\ sent \in Seq(Requests)
    /\ got \in Seq(Requests \cup {Busy, NoAnswer})
    /\ nextReq \in Nat /\ sessions \in Nat

HistoryTypes ==
    /\ executed \in Seq(Requests)
    /\ cancelled \subseteq Requests
    /\ served \in BOOLEAN

TypeOK == MailboxTypes /\ ThreadTypes /\ ClientTypes /\ HistoryTypes

\* The n-th answer a client reads answers its n-th request, or says that request
\* timed out: neither the late result of an abandoned request nor the value stop
\* released the thread with is ever sent (ControlServer.h lines 62-63).
AnswersMatch ==
    /\ Len(got) =< Len(sent)
    /\ \A n \in 1 .. Len(got) : got[n] \in {sent[n], Busy}

\* A command answered with its result has been executed, and no command is ever
\* executed twice or before an earlier one.
ExecutedInOrder ==
    /\ \A i, j \in 1 .. Len(executed) : i < j => executed[i] < executed[j]
    /\ \A n \in 1 .. Len(got) : got[n] # Busy => \E i \in 1 .. Len(executed) : executed[i] = got[n]

\* A request cancelled by its timeout before poll took it is never executed, so a
\* client may retry it.
CancelledNeverRuns ==
    \A i \in 1 .. Len(executed) : executed[i] \notin cancelled

\* The channel a client waits on never goes quiet: a line written to the pipe is
\* answered, or the client leaves, or the program exits, even if the UI thread never
\* polls again.
LineAnswered ==
    \A r \in Requests :
        (\E i \in 1 .. Len(sent) : sent[i] = r) ~>
            \/ \E i \in 1 .. Len(got) : sent[i] = r
            \/ peer # "open" \/ ~m_run

\* No client stays connected for ever: controlSend closes its end once it has read
\* an answer or the connection is dropped.
ClientsLeave == []<>(peer # "open")

\* stop gets the thread out of ReadFile, the wait for a result and ConnectNamedPipe,
\* provided the thread is not just about to create its pipe when stop looks for it.
StopReturnsOnceListening ==
    ClientsLeave => ((upc = "attach" /\ tpc # "create") ~> (upc = "stopped"))

==============================================================================
