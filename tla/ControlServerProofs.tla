-------------------------- MODULE ControlServerProofs --------------------------
(***************************************************************************)
(* The safety of the control channel for every number of requests and      *)
(* connections.  The inductive invariant has three parts: who is where     *)
(* (PhaseInv), what the numbers in the mailbox mean (MailboxInv, RunInv)   *)
(* and where the lines of a connection are between the client's write and  *)
(* the answer (LinesInv).                                                  *)
(* And what keeps the assistant's server and the program from each other's *)
(* edits, for any number of project files, edits and deaths of either.     *)
(***************************************************************************)
EXTENDS ControlServer, McpServer, TLAPS

\* The states in which a connection is being served.
Serving == {"session", "read", "lines", "wait", "reply", "write"}

\* The thread holds one line, taken out of buf.
InHand == IF tpc \in {"wait", "reply", "write"} THEN 1 ELSE 0

\* Lines in buf that belong to this connection (buf is cleared when it begins).
Buffered == IF tpc \in Serving THEN Len(buf) ELSE 0

\* m_run is only set between start and stop; a connection is only there while the
\* thread listens or serves it.
PhaseInv ==
    /\ m_run => upc \in {"frame", "handle", "result"}
    /\ peer = "open" => tpc \in Serving \cup {"connect", "connected", "drop"}
    /\ peer = "open" /\ tpc = "drop" => ~m_run
    /\ tpc \in Serving \cup {"connected", "drop"} => peer # "none"
    /\ tpc \in Serving \cup {"connect", "connected", "drop"} <=> pipe = "ours"
    /\ tpc \notin Serving \cup {"connect", "connected", "drop"} => peer = "none"
    /\ peer = "none" => inbox = << >>
    /\ upc = "launch" => tpc = "off"

\* The number of the request the thread waits for is the newest; the UI thread's
\* own copy, if it still has that number, is the same request; a result marked with
\* the number is the result of that request unless stop marked it.
MailboxInv ==
    /\ m_doneId =< m_reqId
    /\ tpc = "wait" => waitId = m_reqId /\ line = m_request
    /\ upc \in {"handle", "result"} => uiId =< m_reqId /\ uiReq \in Requests
    /\ upc \in {"handle", "result"} /\ uiId = m_reqId => uiReq = m_request
    /\ tpc = "wait" /\ m_run /\ m_doneId = waitId => m_response = line
    /\ tpc = "reply" /\ m_run => resp \in {line, Busy}
    /\ tpc = "write" => resp \in {line, Busy}
    /\ tpc \in {"wait", "reply", "write"} => line \in Requests
    /\ m_hasRequest => m_request \in Requests

\* Requests are executed in the order of their numbers; what waits, what is in hand
\* and what is still to be posted is newer; what was cancelled is behind.
RunInv ==
    /\ \A i \in 1 .. Len(executed) :
          /\ executed[i] =< m_request
          /\ m_hasRequest => executed[i] < m_request
          /\ upc = "handle" => executed[i] < uiReq
          /\ executed[i] \notin cancelled
    /\ \A i, j \in 1 .. Len(executed) : i < j => executed[i] < executed[j]
    /\ upc \in {"handle", "result"} =>
          /\ uiReq =< m_request
          /\ m_hasRequest => uiReq < m_request
    /\ upc = "handle" => uiReq \notin cancelled
    /\ upc = "result" => \E i \in 1 .. Len(executed) : executed[i] = uiReq
    /\ m_hasRequest => m_request \notin cancelled
    /\ \A c \in cancelled : c =< m_request
    /\ m_response # NoAnswer => \E i \in 1 .. Len(executed) : executed[i] = m_response
    /\ resp \notin {Busy, NoAnswer} => \E i \in 1 .. Len(executed) : executed[i] = resp

\* Lines are numbered in the order they are written and posted in that order.
LinesInOrder ==
    /\ m_request < nextReq
    /\ \A i \in 1 .. Len(buf) : m_request < buf[i] /\ buf[i] < nextReq
    /\ \A i \in 1 .. Len(inbox) : m_request < inbox[i] /\ inbox[i] < nextReq
    /\ \A i, j \in 1 .. Len(buf) : i < j => buf[i] < buf[j]
    /\ \A i, j \in 1 .. Len(inbox) : i < j => inbox[i] < inbox[j]
    /\ \A i \in 1 .. Len(buf), j \in 1 .. Len(inbox) : buf[i] < inbox[j]

\* While the client is there and the server is running, the lines it sent are, in
\* order: the answered ones, the one in hand, the buffered ones, the unread ones.
Intact == peer = "open" /\ (m_run \/ tpc \notin {"session", "drop"})

LinesInv ==
    Intact =>
        /\ Len(sent) = Len(got) + InHand + Buffered + Len(inbox)
        /\ InHand = 1 => line = sent[Len(got) + 1]
        /\ \A k \in 1 .. Buffered : buf[k] = sent[Len(got) + InHand + k]
        /\ \A k \in 1 .. Len(inbox) : inbox[k] = sent[Len(got) + InHand + Buffered + k]

AnsweredRan ==
    \A n \in 1 .. Len(got) : got[n] # Busy => \E i \in 1 .. Len(executed) : executed[i] = got[n]

IInv == /\ TypeOK
        /\ PhaseInv
        /\ MailboxInv
        /\ RunInv
        /\ LinesInOrder
        /\ LinesInv
        /\ AnswersMatch
        /\ AnsweredRan

-----------------------------------------------------------------------------
USE BoundsAssumption

LEMMA InitIInv == Init => IInv
<1> SUFFICES ASSUME Init PROVE IInv
  OBVIOUS
<1>1. TypeOK
  <2>1. MailboxTypes
    BY DEF Init, MailboxTypes
  <2>2. ThreadTypes
    BY DEF Init, ThreadTypes
  <2>3. ClientTypes
    BY DEF Init, ClientTypes
  <2>4. HistoryTypes
    <3>1. executed \in Seq(Requests) /\ cancelled \subseteq Requests
      BY DEF Init
    <3>2. served \in BOOLEAN
      BY DEF Init
    <3> QED
      BY <3>1, <3>2 DEF HistoryTypes
  <2> QED
    BY <2>1, <2>2, <2>3, <2>4 DEF TypeOK
<1>2. PhaseInv /\ MailboxInv /\ RunInv
  BY DEF Init, PhaseInv, Serving, MailboxInv, RunInv, Busy, NoAnswer
<1>3. LinesInOrder /\ LinesInv /\ AnswersMatch /\ AnsweredRan
  BY DEF Init, LinesInOrder, LinesInv, Intact, AnswersMatch, AnsweredRan, Busy
<1> QED
  BY <1>1, <1>2, <1>3 DEF IInv

LEMMA StartIInv ==
    ASSUME IInv, Start
    PROVE  IInv'
<1> USE DEF IInv, Start, mailbox, thread, ui, client, history
<1>1. MailboxTypes'
  BY DEF TypeOK, MailboxTypes
<1>2. ThreadTypes'
  BY DEF TypeOK, ThreadTypes
<1>3. PhaseInv'
  BY DEF PhaseInv, Serving
<1>4. MailboxInv'
  BY DEF MailboxInv, TypeOK, MailboxTypes, ThreadTypes
<1>5. RunInv'
  BY DEF RunInv, TypeOK, MailboxTypes, ThreadTypes, HistoryTypes
<1>6. LinesInv'
  BY DEF PhaseInv, Serving, LinesInv, Intact, InHand, Buffered, Serving
<1>7. ClientTypes' /\ HistoryTypes'
  BY DEF ClientTypes, HistoryTypes, TypeOK
<1>8. LinesInOrder' /\ AnswersMatch' /\ AnsweredRan'
  BY DEF LinesInOrder, AnswersMatch, AnsweredRan
<1> QED
  BY <1>1, <1>2, <1>3, <1>4, <1>5, <1>6, <1>7, <1>8 DEF TypeOK

LEMMA PollTakeIInv ==
    ASSUME IInv, PollTake
    PROVE  IInv'
<1> USE DEF IInv, PollTake, mailbox, thread, ui, client, history
<1>1. MailboxTypes'
  BY DEF TypeOK, MailboxTypes
<1>2. ThreadTypes'
  BY DEF TypeOK, MailboxTypes, ThreadTypes
<1>3. PhaseInv'
  BY DEF PhaseInv, Serving
<1>4. MailboxInv'
  BY DEF MailboxInv, TypeOK, MailboxTypes, ThreadTypes
<1>5. RunInv'
  <2>1. m_request \in Nat
    BY DEF MailboxInv, Requests
  <2>2. /\ \A i \in 1 .. Len(executed) : executed[i] < uiReq' /\ executed[i] =< m_request
        /\ uiReq' =< m_request /\ uiReq' \notin cancelled
    BY <2>1 DEF RunInv
  <2> QED
    BY <2>2 DEF RunInv
<1>6. ClientTypes' /\ HistoryTypes'
  BY DEF ClientTypes, HistoryTypes, TypeOK
<1>7. LinesInOrder' /\ LinesInv' /\ AnswersMatch' /\ AnsweredRan'
  BY DEF LinesInOrder, LinesInv, Intact, InHand, Buffered, Serving, AnswersMatch, AnsweredRan
<1> QED
  BY <1>1, <1>2, <1>3, <1>4, <1>5, <1>6, <1>7 DEF TypeOK

LEMMA PollHandleIInv ==
    ASSUME IInv, PollHandle
    PROVE  IInv'
<1> USE DEF IInv, PollHandle, mailbox, thread, ui, client, history
<1>1. ThreadTypes'
  BY DEF TypeOK, ThreadTypes
<1>2. HistoryTypes'
  BY DEF TypeOK, HistoryTypes, MailboxInv
<1>3. PhaseInv'
  BY DEF PhaseInv, Serving
<1>4. MailboxInv'
  BY DEF MailboxInv, TypeOK, MailboxTypes, ThreadTypes
<1>5. RunInv'
  <2>1. /\ executed \in Seq(Requests) /\ executed' \in Seq(Requests)
        /\ Len(executed') = Len(executed) + 1
        /\ executed'[Len(executed) + 1] = uiReq
        /\ \A i \in 1 .. Len(executed) : executed'[i] = executed[i]
    BY DEF TypeOK, HistoryTypes, MailboxInv
  <2>2. upc' = "result" /\ upc = "handle" /\ Len(executed) \in Nat
    BY <2>1
  <2>3. \A i \in 1 .. Len(executed') :
            /\ executed'[i] =< m_request
            /\ m_hasRequest => executed'[i] < m_request
            /\ executed'[i] \notin cancelled
    BY <2>1, <2>2 DEF RunInv
  <2>4. \A i, j \in 1 .. Len(executed') : i < j => executed'[i] < executed'[j]
    BY <2>1, <2>2 DEF RunInv
  <2>5. \E i \in 1 .. Len(executed') : executed'[i] = uiReq
    BY <2>1, <2>2
  <2>6. \A v : (\E i \in 1 .. Len(executed) : executed[i] = v) =>
                  \E i \in 1 .. Len(executed') : executed'[i] = v
    BY <2>1, <2>2
  <2> QED
    BY <2>2, <2>3, <2>4, <2>5, <2>6 DEF RunInv
<1>6. AnsweredRan'
  <2>1. /\ executed \in Seq(Requests)
        /\ Len(executed') = Len(executed) + 1 /\ Len(executed) \in Nat
        /\ \A i \in 1 .. Len(executed) : executed'[i] = executed[i]
    BY DEF TypeOK, HistoryTypes
  <2> QED
    BY <2>1 DEF AnsweredRan
<1>7. MailboxTypes' /\ ClientTypes'
  BY DEF MailboxTypes, ClientTypes, TypeOK
<1>8. LinesInOrder' /\ LinesInv' /\ AnswersMatch'
  BY DEF LinesInOrder, LinesInv, Intact, InHand, Buffered, Serving, AnswersMatch
<1> QED
  BY <1>1, <1>2, <1>3, <1>4, <1>5, <1>6, <1>7, <1>8 DEF TypeOK

LEMMA PollResultIInv ==
    ASSUME IInv, PollResult
    PROVE  IInv'
<1> USE DEF IInv, PollResult, ResultWanted, mailbox, thread, ui, client, history
<1>1. MailboxTypes'
  BY DEF TypeOK, MailboxTypes, ThreadTypes, MailboxInv
<1>2. ThreadTypes'
  BY DEF TypeOK, ThreadTypes
<1>3. PhaseInv'
  BY DEF PhaseInv, Serving
<1>4. MailboxInv'
  BY DEF MailboxInv, TypeOK, MailboxTypes, ThreadTypes
<1>5. RunInv'
  BY DEF RunInv, TypeOK, MailboxTypes, ThreadTypes, HistoryTypes
<1>6. ClientTypes' /\ HistoryTypes'
  BY DEF ClientTypes, HistoryTypes, TypeOK
<1>7. LinesInOrder' /\ LinesInv' /\ AnswersMatch' /\ AnsweredRan'
  BY DEF LinesInOrder, LinesInv, Intact, InHand, Buffered, Serving, AnswersMatch, AnsweredRan
<1> QED
  BY <1>1, <1>2, <1>3, <1>4, <1>5, <1>6, <1>7 DEF TypeOK

LEMMA StopBeginIInv ==
    ASSUME IInv, StopBegin
    PROVE  IInv'
<1> USE DEF IInv, StopBegin, mailbox, thread, ui, client, history
<1>1. MailboxTypes'
  BY DEF TypeOK, MailboxTypes
<1>2. ThreadTypes'
  BY DEF TypeOK, ThreadTypes
<1>3. PhaseInv'
  BY DEF PhaseInv, Serving
<1>4. MailboxInv'
  BY DEF MailboxInv, TypeOK, MailboxTypes, ThreadTypes
<1>5. RunInv'
  BY DEF RunInv, TypeOK, MailboxTypes, ThreadTypes, HistoryTypes
<1>6. LinesInv'
  BY DEF LinesInv, Intact, InHand, Buffered, Serving
<1>7. ClientTypes' /\ HistoryTypes'
  BY DEF ClientTypes, HistoryTypes, TypeOK
<1>8. LinesInOrder' /\ AnswersMatch' /\ AnsweredRan'
  BY DEF LinesInOrder, AnswersMatch, AnsweredRan
<1> QED
  BY <1>1, <1>2, <1>3, <1>4, <1>5, <1>6, <1>7, <1>8 DEF TypeOK

LEMMA StopAttachIInv ==
    ASSUME IInv, StopAttach
    PROVE  IInv'
<1> USE DEF IInv, StopAttach, mailbox, thread, ui, client, history
<1>1. ThreadTypes'
  BY DEF TypeOK, ThreadTypes
<1>2. ClientTypes'
  BY DEF TypeOK, ClientTypes
<1>3. PhaseInv'
  BY DEF PhaseInv, Serving
<1>4. MailboxInv'
  BY DEF MailboxInv, TypeOK, MailboxTypes, ThreadTypes
<1>5. RunInv'
  BY DEF RunInv, TypeOK, MailboxTypes, ThreadTypes, HistoryTypes
<1>6. LinesInv'
  BY DEF LinesInv, Intact, InHand, Buffered, Serving
<1>7. MailboxTypes' /\ HistoryTypes'
  BY DEF MailboxTypes, HistoryTypes, TypeOK
<1>8. LinesInOrder' /\ AnswersMatch' /\ AnsweredRan'
  BY DEF LinesInOrder, AnswersMatch, AnsweredRan
<1> QED
  BY <1>1, <1>2, <1>3, <1>4, <1>5, <1>6, <1>7, <1>8 DEF TypeOK

LEMMA StopReleaseIInv ==
    ASSUME IInv, StopRelease
    PROVE  IInv'
<1> USE DEF IInv, StopRelease, mailbox, thread, ui, client, history
<1>1. MailboxTypes'
  BY DEF TypeOK, MailboxTypes
<1>2. ThreadTypes'
  BY DEF TypeOK, ThreadTypes
<1>3. PhaseInv'
  BY DEF PhaseInv, Serving
<1>4. MailboxInv'
  BY DEF PhaseInv, MailboxInv, TypeOK, MailboxTypes, ThreadTypes
<1>5. RunInv'
  BY DEF RunInv, TypeOK, MailboxTypes, ThreadTypes, HistoryTypes
<1>6. ClientTypes' /\ HistoryTypes'
  BY DEF ClientTypes, HistoryTypes, TypeOK
<1>7. LinesInOrder' /\ LinesInv' /\ AnswersMatch' /\ AnsweredRan'
  BY DEF LinesInOrder, LinesInv, Intact, InHand, Buffered, Serving, AnswersMatch, AnsweredRan
<1> QED
  BY <1>1, <1>2, <1>3, <1>4, <1>5, <1>6, <1>7 DEF TypeOK

LEMMA StopJoinIInv ==
    ASSUME IInv, StopJoin
    PROVE  IInv'
<1> USE DEF IInv, StopJoin, mailbox, thread, ui, client, history
<1>1. ThreadTypes'
  BY DEF TypeOK, ThreadTypes
<1>2. PhaseInv'
  BY DEF PhaseInv, Serving
<1>3. MailboxInv'
  BY DEF MailboxInv, TypeOK, MailboxTypes, ThreadTypes
<1>4. RunInv'
  BY DEF RunInv, TypeOK, MailboxTypes, ThreadTypes, HistoryTypes
<1>5. LinesInv'
  BY DEF LinesInv, Intact, InHand, Buffered, Serving
<1>6. MailboxTypes' /\ ClientTypes' /\ HistoryTypes'
  BY DEF MailboxTypes, ClientTypes, HistoryTypes, TypeOK
<1>7. LinesInOrder' /\ AnswersMatch' /\ AnsweredRan'
  BY DEF LinesInOrder, AnswersMatch, AnsweredRan
<1> QED
  BY <1>1, <1>2, <1>3, <1>4, <1>5, <1>6, <1>7 DEF TypeOK

LEMMA LoopTestIInv ==
    ASSUME IInv, LoopTest
    PROVE  IInv'
<1> USE DEF IInv, LoopTest, mailbox, thread, ui, client, history
<1>1. ThreadTypes'
  BY DEF TypeOK, ThreadTypes
<1>2. PhaseInv'
  BY DEF PhaseInv, Serving
<1>3. MailboxInv'
  BY DEF MailboxInv, TypeOK, MailboxTypes, ThreadTypes
<1>4. LinesInv'
  BY DEF LinesInv, Intact, InHand, Buffered, Serving
<1>5. MailboxTypes' /\ ClientTypes' /\ HistoryTypes'
  BY DEF MailboxTypes, ClientTypes, HistoryTypes, TypeOK
<1>6. RunInv' /\ LinesInOrder' /\ AnswersMatch' /\ AnsweredRan'
  BY DEF RunInv, LinesInOrder, AnswersMatch, AnsweredRan
<1> QED
  BY <1>1, <1>2, <1>3, <1>4, <1>5, <1>6 DEF TypeOK

LEMMA CreatePipeIInv ==
    ASSUME IInv, CreatePipe
    PROVE  IInv'
<1> USE DEF IInv, CreatePipe, mailbox, thread, ui, client, history
<1>1. MailboxTypes'
  BY DEF TypeOK, MailboxTypes
<1>2. ThreadTypes'
  BY DEF TypeOK, ThreadTypes
<1>3. ClientTypes'
  BY DEF TypeOK, ClientTypes
<1>4. HistoryTypes'
  BY DEF TypeOK, HistoryTypes
<1>5. PhaseInv'
  BY DEF PhaseInv, Serving
<1>6. MailboxInv'
  BY DEF MailboxInv, TypeOK, MailboxTypes, ThreadTypes
<1>7. LinesInv'
  BY DEF LinesInv, Intact, InHand, Buffered, Serving
<1>8. RunInv' /\ LinesInOrder' /\ AnswersMatch' /\ AnsweredRan'
  BY DEF RunInv, LinesInOrder, AnswersMatch, AnsweredRan
<1> QED
  BY <1>1, <1>2, <1>3, <1>4, <1>5, <1>6, <1>7, <1>8 DEF TypeOK

LEMMA ConnectIInv ==
    ASSUME IInv, Connect
    PROVE  IInv'
<1> USE DEF IInv, Connect, mailbox, thread, ui, client, history
<1>1. ThreadTypes'
  BY DEF TypeOK, ThreadTypes
<1>2. PhaseInv'
  BY DEF PhaseInv, Serving
<1>3. MailboxInv'
  BY DEF MailboxInv, TypeOK, MailboxTypes, ThreadTypes
<1>4. LinesInv'
  BY DEF LinesInv, Intact, InHand, Buffered, Serving
<1>5. MailboxTypes' /\ ClientTypes' /\ HistoryTypes'
  BY DEF MailboxTypes, ClientTypes, HistoryTypes, TypeOK
<1>6. RunInv' /\ LinesInOrder' /\ AnswersMatch' /\ AnsweredRan'
  BY DEF RunInv, LinesInOrder, AnswersMatch, AnsweredRan
<1> QED
  BY <1>1, <1>2, <1>3, <1>4, <1>5, <1>6 DEF TypeOK

LEMMA ConnectTestIInv ==
    ASSUME IInv, ConnectTest
    PROVE  IInv'
<1> USE DEF IInv, ConnectTest, mailbox, thread, ui, client, history
<1>1. ThreadTypes'
  BY DEF TypeOK, ThreadTypes
<1>2. PhaseInv'
  BY DEF PhaseInv, Serving
<1>3. MailboxInv'
  BY DEF MailboxInv, TypeOK, MailboxTypes, ThreadTypes
<1>4. LinesInOrder'
  BY DEF LinesInOrder
<1>5. LinesInv'
  BY DEF LinesInv, Intact, InHand, Buffered, Serving
<1>6. MailboxTypes' /\ ClientTypes' /\ HistoryTypes'
  BY DEF MailboxTypes, ClientTypes, HistoryTypes, TypeOK
<1>7. RunInv' /\ AnswersMatch' /\ AnsweredRan'
  BY DEF RunInv, AnswersMatch, AnsweredRan
<1> QED
  BY <1>1, <1>2, <1>3, <1>4, <1>5, <1>6, <1>7 DEF TypeOK

LEMMA SessionTestIInv ==
    ASSUME IInv, SessionTest
    PROVE  IInv'
<1> USE DEF IInv, SessionTest, mailbox, thread, ui, client, history
<1>1. ThreadTypes'
  BY DEF TypeOK, ThreadTypes
<1>2. PhaseInv'
  BY DEF PhaseInv, Serving
<1>3. MailboxInv'
  BY DEF MailboxInv, TypeOK, MailboxTypes, ThreadTypes
<1>4. LinesInv'
  BY DEF LinesInv, Intact, InHand, Buffered, Serving
<1>5. MailboxTypes' /\ ClientTypes' /\ HistoryTypes'
  BY DEF MailboxTypes, ClientTypes, HistoryTypes, TypeOK
<1>6. RunInv' /\ LinesInOrder' /\ AnswersMatch' /\ AnsweredRan'
  BY DEF RunInv, LinesInOrder, AnswersMatch, AnsweredRan
<1> QED
  BY <1>1, <1>2, <1>3, <1>4, <1>5, <1>6 DEF TypeOK

LEMMA ReadIInv ==
    ASSUME IInv, Read
    PROVE  IInv'
<1> USE DEF IInv, Read, mailbox, thread, ui, client, history
<1>1. ThreadTypes'
  <2>1. buf \o inbox \in Seq(Requests)
    BY DEF TypeOK, ThreadTypes, ClientTypes
  <2> QED
    BY <2>1 DEF TypeOK, ThreadTypes
<1>2. ClientTypes'
  <2>1. << >> \in Seq(Requests)
    OBVIOUS
  <2> QED
    BY <2>1 DEF TypeOK, ClientTypes
<1>3. PhaseInv'
  BY DEF PhaseInv, Serving
<1>4. MailboxInv'
  BY DEF MailboxInv, TypeOK, MailboxTypes, ThreadTypes
<1>5. LinesInOrder'
  <2>1. /\ buf \in Seq(Requests) /\ inbox \in Seq(Requests)
        /\ Len(buf) \in Nat /\ Len(inbox) \in Nat
    BY DEF TypeOK, ThreadTypes, ClientTypes
  <2>2. CASE inbox # << >>
    <3>1. /\ buf' = buf \o inbox /\ inbox' = << >> /\ tpc' = "lines"
      BY <2>2
    <3>2. /\ Len(buf') = Len(buf) + Len(inbox) /\ Len(inbox') = 0
          /\ \A k \in 1 .. Len(buf) : buf'[k] = buf[k]
          /\ \A k \in 1 .. Len(inbox) : buf'[Len(buf) + k] = inbox[k]
      BY <2>1, <3>1
    <3>3. \A k \in 1 .. Len(buf') : k \in 1 .. Len(buf) \/ k - Len(buf) \in 1 .. Len(inbox)
      BY <2>1, <3>2
    <3>4. \A k \in 1 .. Len(buf') :
              \/ k \in 1 .. Len(buf) /\ buf'[k] = buf[k]
              \/ k - Len(buf) \in 1 .. Len(inbox) /\ buf'[k] = inbox[k - Len(buf)]
      <4> TAKE k \in 1 .. Len(buf')
      <4>1. CASE k \in 1 .. Len(buf)
        BY <3>2, <4>1
      <4>2. CASE k - Len(buf) \in 1 .. Len(inbox)
        <5>1. k = Len(buf) + (k - Len(buf))
          BY <2>1
        <5> QED
          BY <3>2, <4>2, <5>1
      <4> QED
        BY <3>3, <4>1, <4>2
    <3>5. \A k \in 1 .. Len(buf') : m_request < buf'[k] /\ buf'[k] < nextReq
      BY <3>4 DEF LinesInOrder
    <3>6. \A i, j \in 1 .. Len(buf') : i < j => buf'[i] < buf'[j]
      <4> SUFFICES ASSUME NEW i \in 1 .. Len(buf'), NEW j \in 1 .. Len(buf'), i < j
                   PROVE  buf'[i] < buf'[j]
        OBVIOUS
      <4>1. CASE j \in 1 .. Len(buf)
        BY <2>1, <3>2, <4>1 DEF LinesInOrder
      <4>2. CASE j \notin 1 .. Len(buf) /\ i \in 1 .. Len(buf)
        BY <3>2, <3>4, <4>2 DEF LinesInOrder
      <4>3. CASE j \notin 1 .. Len(buf) /\ i \notin 1 .. Len(buf)
        <5>1. /\ i - Len(buf) \in 1 .. Len(inbox) /\ buf'[i] = inbox[i - Len(buf)]
              /\ j - Len(buf) \in 1 .. Len(inbox) /\ buf'[j] = inbox[j - Len(buf)]
          BY <3>4, <4>3
        <5>2. i - Len(buf) < j - Len(buf)
          BY <2>1
        <5> QED
          BY <5>1, <5>2 DEF LinesInOrder
      <4> QED
        BY <4>1, <4>2, <4>3
    <3> QED
      BY <3>2, <3>5, <3>6 DEF LinesInOrder
  <2>3. CASE inbox = << >>
    BY <2>3 DEF LinesInOrder
  <2> QED
    BY <2>2, <2>3
<1>6. LinesInv'
  <2>1. /\ buf \in Seq(Requests) /\ inbox \in Seq(Requests)
        /\ Len(buf) \in Nat /\ Len(inbox) \in Nat
    BY DEF TypeOK, ThreadTypes, ClientTypes
  <2>2. CASE inbox # << >>
    <3>1. /\ buf' = buf \o inbox /\ inbox' = << >> /\ tpc' = "lines"
      BY <2>2
    <3>2. /\ Len(buf') = Len(buf) + Len(inbox) /\ Len(inbox') = 0
          /\ \A k \in 1 .. Len(buf) : buf'[k] = buf[k]
          /\ \A k \in 1 .. Len(inbox) : buf'[Len(buf) + k] = inbox[k]
      BY <2>1, <3>1
    <3>3. \A k \in 1 .. Len(buf') : k \in 1 .. Len(buf) \/ k - Len(buf) \in 1 .. Len(inbox)
      BY <2>1, <3>2
    <3>4. InHand = 0 /\ InHand' = 0 /\ Buffered = Len(buf) /\ Buffered' = Len(buf')
      BY <3>1 DEF InHand, Buffered, Serving
    <3>5. Intact' => Intact
      BY <3>1 DEF Intact
    <3>6. Len(got) \in Nat
      BY DEF TypeOK, ClientTypes
    <3>7. ASSUME Intact
          PROVE  /\ Len(sent) = Len(got) + Len(buf')
                 /\ \A k \in 1 .. Len(buf') : buf'[k] = sent[Len(got) + k]
      <4>1. /\ Len(sent) = Len(got) + Len(buf) + Len(inbox)
            /\ \A k \in 1 .. Len(buf) : buf[k] = sent[Len(got) + k]
            /\ \A k \in 1 .. Len(inbox) : inbox[k] = sent[Len(got) + Len(buf) + k]
        <5>1. Len(got) + InHand = Len(got)
          BY <3>4, <3>6
        <5> QED
          BY <3>4, <3>7, <5>1 DEF LinesInv
      <4>2. ASSUME NEW k \in 1 .. Len(buf')
            PROVE  buf'[k] = sent[Len(got) + k]
        <5>1. CASE k \in 1 .. Len(buf)
          BY <3>2, <4>1, <5>1
        <5>2. CASE k - Len(buf) \in 1 .. Len(inbox)
          <6>1. k = Len(buf) + (k - Len(buf)) /\ Len(got) + Len(buf) + (k - Len(buf)) = Len(got) + k
            BY <2>1, <3>6
          <6> QED
            BY <3>2, <4>1, <5>2, <6>1
        <5> QED
          BY <3>3, <5>1, <5>2
      <4> QED
        BY <2>1, <3>2, <3>6, <4>1, <4>2
    <3> QED
      BY <2>1, <3>2, <3>4, <3>5, <3>6, <3>7 DEF LinesInv
  <2>3. CASE inbox = << >>
    BY <2>3 DEF LinesInv, Intact
  <2> QED
    BY <2>2, <2>3
<1>7. MailboxTypes' /\ HistoryTypes'
  BY DEF MailboxTypes, HistoryTypes, TypeOK
<1>8. RunInv' /\ AnswersMatch' /\ AnsweredRan'
  BY DEF RunInv, AnswersMatch, AnsweredRan
<1> QED
  BY <1>1, <1>2, <1>3, <1>4, <1>5, <1>6, <1>7, <1>8 DEF TypeOK

LEMMA LinesDoneIInv ==
    ASSUME IInv, LinesDone
    PROVE  IInv'
<1> USE DEF IInv, LinesDone, mailbox, thread, ui, client, history
<1>1. ThreadTypes'
  BY DEF TypeOK, ThreadTypes
<1>2. PhaseInv'
  BY DEF PhaseInv, Serving
<1>3. MailboxInv'
  BY DEF MailboxInv, TypeOK, MailboxTypes, ThreadTypes
<1>4. LinesInv'
  BY DEF LinesInv, Intact, InHand, Buffered, Serving
<1>5. MailboxTypes' /\ ClientTypes' /\ HistoryTypes'
  BY DEF MailboxTypes, ClientTypes, HistoryTypes, TypeOK
<1>6. RunInv' /\ LinesInOrder' /\ AnswersMatch' /\ AnsweredRan'
  BY DEF RunInv, LinesInOrder, AnswersMatch, AnsweredRan
<1> QED
  BY <1>1, <1>2, <1>3, <1>4, <1>5, <1>6 DEF TypeOK

LEMMA PostIInv ==
    ASSUME IInv, Post
    PROVE  IInv'
<1> USE DEF IInv, Post, NewId, mailbox, thread, ui, client, history
<1>1. MailboxTypes'
  BY DEF TypeOK, MailboxTypes, ThreadTypes
<1>2. ThreadTypes'
  BY DEF TypeOK, MailboxTypes, ThreadTypes
<1>3. PhaseInv'
  BY DEF PhaseInv, Serving
<1>4. MailboxInv'
  BY DEF MailboxInv, TypeOK, MailboxTypes, ThreadTypes
<1>5. RunInv'
  <2>1. /\ buf[1] = Head(buf) /\ 1 \in 1 .. Len(buf)
    BY DEF TypeOK, ThreadTypes
  <2>2. m_request < m_request' /\ m_request \in Nat /\ m_request' \in Nat
    BY <2>1 DEF LinesInOrder, TypeOK, MailboxTypes, ThreadTypes, Requests, Busy
  <2>3. /\ executed \in Seq(Requests) /\ cancelled \subseteq Requests
        /\ Requests \subseteq Nat
        /\ \A i \in 1 .. Len(executed) : executed[i] \in Nat
        /\ \A c \in cancelled : c \in Nat
    <3>1. /\ executed \in Seq(Requests) /\ cancelled \subseteq Requests
          /\ Requests \subseteq Nat
      BY DEF TypeOK, HistoryTypes, Requests
    <3>2. \A i \in 1 .. Len(executed) : executed[i] \in Requests
      BY <3>1
    <3> QED
      BY <3>1, <3>2
  <2>4. /\ \A i \in 1 .. Len(executed) : executed[i] < m_request'
        /\ \A c \in cancelled : c < m_request'
        /\ upc \in {"handle", "result"} => uiReq < m_request'
    <3>1. /\ \A i \in 1 .. Len(executed) : executed[i] =< m_request
          /\ \A c \in cancelled : c =< m_request
      BY DEF RunInv
    <3>2. upc \in {"handle", "result"} => uiReq =< m_request /\ uiReq \in Nat
      BY <2>3 DEF RunInv, MailboxInv
    <3> QED
      BY <2>2, <2>3, <3>1, <3>2
  <2>5. m_request' \notin cancelled
    BY <2>2, <2>4
  <2> QED
    <3>1. \A v \in Nat : v < m_request' => v =< m_request'
      BY <2>2
    <3>2. upc \in {"handle", "result"} => uiReq \in Nat
      BY <2>3 DEF MailboxInv
    <3> QED
      BY <2>3, <2>4, <2>5, <3>1, <3>2 DEF RunInv
<1>6. LinesInOrder'
  BY DEF LinesInOrder
<1>7. LinesInv'
  BY DEF LinesInv, Intact, InHand, Buffered, Serving
<1>8. ClientTypes' /\ HistoryTypes'
  BY DEF ClientTypes, HistoryTypes, TypeOK
<1>9. AnswersMatch' /\ AnsweredRan'
  BY DEF AnswersMatch, AnsweredRan
<1> QED
  BY <1>1, <1>2, <1>3, <1>4, <1>5, <1>6, <1>7, <1>8, <1>9 DEF TypeOK

LEMMA AnsweredIInv ==
    ASSUME IInv, Answered
    PROVE  IInv'
<1> USE DEF IInv, Answered, mailbox, thread, ui, client, history
<1>1. ThreadTypes'
  BY DEF TypeOK, MailboxTypes, ThreadTypes
<1>2. PhaseInv'
  BY DEF PhaseInv, Serving
<1>3. MailboxInv'
  BY DEF MailboxInv, TypeOK, MailboxTypes, ThreadTypes
<1>4. RunInv'
  BY DEF RunInv, TypeOK, MailboxTypes, ThreadTypes, HistoryTypes
<1>5. LinesInv'
  BY DEF LinesInv, Intact, InHand, Buffered, Serving
<1>6. MailboxTypes' /\ ClientTypes' /\ HistoryTypes'
  BY DEF MailboxTypes, ClientTypes, HistoryTypes, TypeOK
<1>7. LinesInOrder' /\ AnswersMatch' /\ AnsweredRan'
  BY DEF LinesInOrder, AnswersMatch, AnsweredRan
<1> QED
  BY <1>1, <1>2, <1>3, <1>4, <1>5, <1>6, <1>7 DEF TypeOK

LEMMA TimeOutIInv ==
    ASSUME IInv, TimeOut
    PROVE  IInv'
<1> USE DEF IInv, TimeOut, mailbox, thread, ui, client, history
<1>1. MailboxTypes'
  BY DEF TypeOK, MailboxTypes
<1>2. ThreadTypes'
  BY DEF TypeOK, ThreadTypes
<1>3. HistoryTypes'
  BY DEF TypeOK, HistoryTypes, MailboxInv
<1>4. PhaseInv'
  BY DEF PhaseInv, Serving
<1>5. MailboxInv'
  BY DEF MailboxInv, TypeOK, MailboxTypes, ThreadTypes
<1>6. RunInv'
  <2>1. line = m_request
    BY DEF MailboxInv
  <2>2. m_hasRequest => m_request \in Nat
    BY DEF MailboxInv, Requests
  <2>3. /\ executed \in Seq(Requests) /\ Requests \subseteq Nat
    BY DEF TypeOK, HistoryTypes, Requests
  <2>4. \A i \in 1 .. Len(executed) : executed[i] \notin cancelled'
    BY <2>1, <2>2, <2>3 DEF RunInv
  <2>5. upc = "handle" => uiReq \notin cancelled'
    BY <2>1, <2>2, <2>3 DEF RunInv, MailboxInv
  <2>6. \A c \in cancelled' : c =< m_request
    BY <2>1, <2>2 DEF RunInv
  <2> QED
    BY <2>4, <2>5, <2>6 DEF RunInv
<1>7. LinesInv'
  BY DEF LinesInv, Intact, InHand, Buffered, Serving
<1>8. ClientTypes'
  BY DEF ClientTypes, TypeOK
<1>9. LinesInOrder' /\ AnswersMatch' /\ AnsweredRan'
  BY DEF LinesInOrder, AnswersMatch, AnsweredRan
<1> QED
  BY <1>1, <1>2, <1>3, <1>4, <1>5, <1>6, <1>7, <1>8, <1>9 DEF TypeOK

LEMMA ReplyTestIInv ==
    ASSUME IInv, ReplyTest
    PROVE  IInv'
<1> USE DEF IInv, ReplyTest, MayReply, mailbox, thread, ui, client, history
<1>1. ThreadTypes'
  BY DEF TypeOK, ThreadTypes
<1>2. PhaseInv'
  BY DEF PhaseInv, Serving
<1>3. MailboxInv'
  BY DEF MailboxInv, TypeOK, MailboxTypes, ThreadTypes
<1>4. LinesInv'
  BY DEF LinesInv, Intact, InHand, Buffered, Serving
<1>5. MailboxTypes' /\ ClientTypes' /\ HistoryTypes'
  BY DEF MailboxTypes, ClientTypes, HistoryTypes, TypeOK
<1>6. RunInv' /\ LinesInOrder' /\ AnswersMatch' /\ AnsweredRan'
  BY DEF RunInv, LinesInOrder, AnswersMatch, AnsweredRan
<1> QED
  BY <1>1, <1>2, <1>3, <1>4, <1>5, <1>6 DEF TypeOK

LEMMA WriteIInv ==
    ASSUME IInv, Write
    PROVE  IInv'
<1> USE DEF IInv, Write, mailbox, thread, ui, client, history
<1>1. ThreadTypes'
  BY DEF TypeOK, ThreadTypes
<1>2. ClientTypes'
  BY DEF TypeOK, ClientTypes, ThreadTypes
<1>3. PhaseInv'
  BY DEF PhaseInv, Serving
<1>4. MailboxInv'
  BY DEF MailboxInv, TypeOK, MailboxTypes, ThreadTypes
<1>5. LinesInv'
  <2>1. CASE peer = "open"
    <3>1. /\ Len(got') = Len(got) + 1 /\ Len(got) \in Nat /\ Len(buf) \in Nat
          /\ tpc' = "lines"
      BY <2>1 DEF TypeOK, ClientTypes, ThreadTypes
    <3>2. InHand = 1 /\ InHand' = 0 /\ Buffered = Len(buf) /\ Buffered' = Len(buf)
      BY <3>1 DEF InHand, Buffered, Serving
    <3>3. Intact
      BY <2>1 DEF Intact
    <3> QED
      BY <3>1, <3>2, <3>3 DEF LinesInv
  <2>2. CASE peer # "open"
    BY <2>2 DEF LinesInv, Intact
  <2> QED
    BY <2>1, <2>2
<1>6. AnswersMatch'
  <2>1. CASE peer = "open"
    <3>1. /\ Len(got') = Len(got) + 1 /\ Len(got) \in Nat
          /\ got'[Len(got) + 1] = resp
          /\ \A n \in 1 .. Len(got) : got'[n] = got[n]
      BY <2>1 DEF TypeOK, ClientTypes, ThreadTypes
    <3>2. Intact /\ InHand = 1
      BY <2>1 DEF Intact, InHand
    <3>3. /\ line = sent[Len(got) + 1]
          /\ Len(got) + 1 =< Len(sent)
      <4>1. Buffered \in Nat /\ Len(inbox) \in Nat
        BY DEF Buffered, TypeOK, ThreadTypes, ClientTypes
      <4> QED
        BY <3>1, <3>2, <4>1 DEF LinesInv
    <3>4. resp \in {line, Busy}
      BY DEF MailboxInv
    <3> QED
      BY <3>1, <3>3, <3>4 DEF AnswersMatch
  <2>2. CASE peer # "open"
    BY <2>2 DEF AnswersMatch
  <2> QED
    BY <2>1, <2>2
<1>7. AnsweredRan'
  <2>1. CASE peer = "open"
    <3>1. /\ Len(got') = Len(got) + 1 /\ Len(got) \in Nat
          /\ got'[Len(got) + 1] = resp
          /\ \A n \in 1 .. Len(got) : got'[n] = got[n]
      BY <2>1 DEF TypeOK, ClientTypes, ThreadTypes
    <3>2. resp # NoAnswer
      BY DEF MailboxInv, Requests, Busy, NoAnswer
    <3>3. resp # Busy => \E i \in 1 .. Len(executed) : executed[i] = resp
      BY <3>2 DEF RunInv
    <3> QED
      BY <3>1, <3>3 DEF AnsweredRan
  <2>2. CASE peer # "open"
    BY <2>2 DEF AnsweredRan
  <2> QED
    BY <2>1, <2>2
<1>8. MailboxTypes' /\ HistoryTypes'
  BY DEF MailboxTypes, HistoryTypes, TypeOK
<1>9. RunInv' /\ LinesInOrder'
  BY DEF RunInv, LinesInOrder
<1> QED
  BY <1>1, <1>2, <1>3, <1>4, <1>5, <1>6, <1>7, <1>8, <1>9 DEF TypeOK

LEMMA DropIInv ==
    ASSUME IInv, Drop
    PROVE  IInv'
<1> USE DEF IInv, Drop, mailbox, thread, ui, client, history
<1>1. ThreadTypes'
  BY DEF TypeOK, ThreadTypes
<1>2. ClientTypes'
  BY DEF TypeOK, ClientTypes
<1>3. PhaseInv'
  BY DEF PhaseInv, Serving
<1>4. MailboxInv'
  BY DEF MailboxInv, TypeOK, MailboxTypes, ThreadTypes
<1>5. LinesInOrder'
  BY DEF LinesInOrder
<1>6. LinesInv'
  BY DEF LinesInv, Intact, InHand, Buffered, Serving
<1>7. MailboxTypes' /\ HistoryTypes'
  BY DEF MailboxTypes, HistoryTypes, TypeOK
<1>8. RunInv' /\ AnswersMatch' /\ AnsweredRan'
  BY DEF RunInv, AnswersMatch, AnsweredRan
<1> QED
  BY <1>1, <1>2, <1>3, <1>4, <1>5, <1>6, <1>7, <1>8 DEF TypeOK

LEMMA ClientConnectIInv ==
    ASSUME IInv, ClientConnect
    PROVE  IInv'
<1> USE DEF IInv, ClientConnect, mailbox, thread, ui, client, history
<1>1. ClientTypes'
  BY DEF TypeOK, ClientTypes
<1>2. PhaseInv'
  BY DEF PhaseInv, Serving
<1>3. LinesInv'
  <2>1. tpc \notin Serving
    BY DEF PhaseInv
  <2>2. inbox = << >> /\ sent' = << >> /\ got' = << >>
    BY DEF PhaseInv
  <2>3. InHand' = 0 /\ Buffered' = 0
    BY <2>1 DEF InHand, Buffered, Serving
  <2> QED
    BY <2>2, <2>3 DEF LinesInv
<1>4. AnswersMatch'
  BY DEF AnswersMatch
<1>5. AnsweredRan'
  BY DEF AnsweredRan
<1>6. MailboxTypes' /\ ThreadTypes' /\ HistoryTypes'
  BY DEF MailboxTypes, ThreadTypes, HistoryTypes, TypeOK
<1>7. MailboxInv' /\ RunInv' /\ LinesInOrder'
  BY DEF MailboxInv, RunInv, LinesInOrder
<1> QED
  BY <1>1, <1>2, <1>3, <1>4, <1>5, <1>6, <1>7 DEF TypeOK

LEMMA ClientWriteIInv ==
    ASSUME IInv, ClientWrite
    PROVE  IInv'
<1> USE DEF IInv, ClientWrite, mailbox, thread, ui, client, history
<1>1. ClientTypes'
  BY DEF TypeOK, MailboxTypes, ClientTypes, LinesInOrder, Requests, Busy
<1>2. PhaseInv'
  BY DEF PhaseInv, Serving
<1>3. LinesInOrder'
  <2>1. /\ inbox \in Seq(Requests) /\ Len(inbox) \in Nat
        /\ Len(inbox') = Len(inbox) + 1
        /\ inbox'[Len(inbox) + 1] = nextReq
        /\ \A k \in 1 .. Len(inbox) : inbox'[k] = inbox[k]
    BY DEF TypeOK, ClientTypes
  <2>2. /\ m_request < nextReq' /\ nextReq < nextReq' /\ m_request < nextReq
    BY DEF LinesInOrder, TypeOK, MailboxTypes, ClientTypes, Requests, Busy
  <2>3. \A k \in 1 .. Len(inbox') : m_request < inbox'[k] /\ inbox'[k] < nextReq'
    BY <2>1, <2>2 DEF LinesInOrder, TypeOK, ClientTypes, Requests
  <2>4. \A i, j \in 1 .. Len(inbox') : i < j => inbox'[i] < inbox'[j]
    <3> SUFFICES ASSUME NEW i \in 1 .. Len(inbox'), NEW j \in 1 .. Len(inbox'), i < j
                 PROVE  inbox'[i] < inbox'[j]
      OBVIOUS
    <3>1. i \in 1 .. Len(inbox)
      BY <2>1
    <3>2. j \in 1 .. Len(inbox) \/ j = Len(inbox) + 1
      BY <2>1
    <3> QED
      BY <2>1, <3>1, <3>2 DEF LinesInOrder
  <2>5. \A i \in 1 .. Len(buf), j \in 1 .. Len(inbox') : buf[i] < inbox'[j]
    <3>1. \A j \in 1 .. Len(inbox') : j \in 1 .. Len(inbox) \/ inbox'[j] = nextReq
      BY <2>1
    <3> QED
      BY <2>1, <3>1 DEF LinesInOrder
  <2>6. \A k \in 1 .. Len(buf) : buf[k] < nextReq'
    BY <2>2 DEF LinesInOrder, TypeOK, ThreadTypes, ClientTypes, Requests
  <2> QED
    BY <2>2, <2>3, <2>4, <2>5, <2>6 DEF LinesInOrder
<1>4. LinesInv'
  <2>1. /\ inbox \in Seq(Requests) /\ Len(inbox) \in Nat
        /\ Len(inbox') = Len(inbox) + 1
        /\ inbox'[Len(inbox) + 1] = nextReq
        /\ \A k \in 1 .. Len(inbox) : inbox'[k] = inbox[k]
    BY DEF TypeOK, ClientTypes
  <2>2. /\ Len(sent') = Len(sent) + 1 /\ Len(sent) \in Nat /\ Len(got) \in Nat
        /\ Len(buf) \in Nat
        /\ sent'[Len(sent) + 1] = nextReq
        /\ \A k \in 1 .. Len(sent) : sent'[k] = sent[k]
    BY DEF TypeOK, ClientTypes, ThreadTypes
  <2>3. /\ InHand' = InHand /\ Buffered' = Buffered /\ (Intact' <=> Intact)
        /\ InHand \in {0, 1} /\ Buffered \in Nat
    BY <2>2 DEF InHand, Buffered, Intact
  <2>4. ASSUME Intact
        PROVE  /\ Len(sent') = Len(got) + InHand + Buffered + Len(inbox')
               /\ InHand = 1 => line = sent'[Len(got) + 1]
               /\ \A k \in 1 .. Buffered : buf[k] = sent'[Len(got) + InHand + k]
               /\ \A k \in 1 .. Len(inbox') :
                      inbox'[k] = sent'[Len(got) + InHand + Buffered + k]
    <3>1. Len(sent) = Len(got) + InHand + Buffered + Len(inbox)
      BY <2>4 DEF LinesInv
    <3>2. InHand = 1 => Len(got) + 1 \in 1 .. Len(sent)
      BY <2>1, <2>2, <2>3, <3>1
    <3>3. \A k \in 1 .. Buffered : Len(got) + InHand + k \in 1 .. Len(sent)
      BY <2>1, <2>2, <2>3, <3>1
    <3>4. \A k \in 1 .. Len(inbox) : Len(got) + InHand + Buffered + k \in 1 .. Len(sent)
      BY <2>1, <2>2, <2>3, <3>1
    <3>5. InHand = 1 => line = sent'[Len(got) + 1]
      BY <2>2, <2>4, <3>2 DEF LinesInv
    <3>6. \A k \in 1 .. Buffered : buf[k] = sent'[Len(got) + InHand + k]
      BY <2>2, <2>4, <3>3 DEF LinesInv
    <3>7. \A k \in 1 .. Len(inbox) : inbox'[k] = sent'[Len(got) + InHand + Buffered + k]
      BY <2>1, <2>2, <2>4, <3>4 DEF LinesInv
    <3>8. inbox'[Len(inbox) + 1] = sent'[Len(got) + InHand + Buffered + (Len(inbox) + 1)]
      <4>1. Len(got) + InHand + Buffered + (Len(inbox) + 1) = Len(sent) + 1
        BY <2>1, <2>2, <2>3, <3>1
      <4> QED
        BY <2>1, <2>2, <4>1
    <3>9. \A k \in 1 .. Len(inbox') : k \in 1 .. Len(inbox) \/ k = Len(inbox) + 1
      BY <2>1
    <3>10. Len(sent') = Len(got) + InHand + Buffered + Len(inbox')
      BY <2>1, <2>2, <2>3, <3>1
    <3> QED
      BY <3>5, <3>6, <3>7, <3>8, <3>9, <3>10
  <2> QED
    BY <2>3, <2>4 DEF LinesInv
<1>5. AnswersMatch'
  BY DEF AnswersMatch
<1>6. MailboxTypes' /\ ThreadTypes' /\ HistoryTypes'
  BY DEF MailboxTypes, ThreadTypes, HistoryTypes, TypeOK
<1>7. MailboxInv' /\ RunInv' /\ AnsweredRan'
  BY DEF MailboxInv, RunInv, AnsweredRan
<1> QED
  BY <1>1, <1>2, <1>3, <1>4, <1>5, <1>6, <1>7 DEF TypeOK

LEMMA ClientCloseIInv ==
    ASSUME IInv, ClientClose
    PROVE  IInv'
<1> USE DEF IInv, ClientClose, mailbox, thread, ui, client, history
<1>1. ClientTypes'
  BY DEF TypeOK, ClientTypes
<1>2. PhaseInv'
  BY DEF PhaseInv, Serving
<1>3. LinesInv'
  BY DEF LinesInv, Intact, InHand, Buffered, Serving
<1>4. MailboxTypes' /\ ThreadTypes' /\ HistoryTypes'
  BY DEF MailboxTypes, ThreadTypes, HistoryTypes, TypeOK
<1>5. MailboxInv' /\ RunInv' /\ LinesInOrder' /\ AnswersMatch' /\ AnsweredRan'
  BY DEF MailboxInv, RunInv, LinesInOrder, AnswersMatch, AnsweredRan
<1> QED
  BY <1>1, <1>2, <1>3, <1>4, <1>5 DEF TypeOK

LEMMA OtherInstanceCreatesIInv ==
    ASSUME IInv, OtherInstanceCreates
    PROVE  IInv'
<1> USE DEF IInv, OtherInstanceCreates, mailbox, thread, ui, client, history
<1>1. ClientTypes'
  BY DEF TypeOK, ClientTypes
<1>2. PhaseInv'
  BY DEF PhaseInv, Serving
<1>3. LinesInv'
  BY DEF LinesInv, Intact, InHand, Buffered, Serving
<1>4. MailboxTypes' /\ ThreadTypes' /\ HistoryTypes'
  BY DEF MailboxTypes, ThreadTypes, HistoryTypes, TypeOK
<1>5. MailboxInv' /\ RunInv' /\ LinesInOrder' /\ AnswersMatch' /\ AnsweredRan'
  BY DEF MailboxInv, RunInv, LinesInOrder, AnswersMatch, AnsweredRan
<1> QED
  BY <1>1, <1>2, <1>3, <1>4, <1>5 DEF TypeOK

LEMMA OtherInstanceExitsIInv ==
    ASSUME IInv, OtherInstanceExits
    PROVE  IInv'
<1> USE DEF IInv, OtherInstanceExits, mailbox, thread, ui, client, history
<1>1. ClientTypes'
  BY DEF TypeOK, ClientTypes
<1>2. PhaseInv'
  BY DEF PhaseInv, Serving
<1>3. LinesInv'
  BY DEF LinesInv, Intact, InHand, Buffered, Serving
<1>4. MailboxTypes' /\ ThreadTypes' /\ HistoryTypes'
  BY DEF MailboxTypes, ThreadTypes, HistoryTypes, TypeOK
<1>5. MailboxInv' /\ RunInv' /\ LinesInOrder' /\ AnswersMatch' /\ AnsweredRan'
  BY DEF MailboxInv, RunInv, LinesInOrder, AnswersMatch, AnsweredRan
<1> QED
  BY <1>1, <1>2, <1>3, <1>4, <1>5 DEF TypeOK

LEMMA NextIInv == IInv /\ [Next]_vars => IInv'
<1> SUFFICES ASSUME IInv, [Next]_vars PROVE IInv'
  OBVIOUS
<1>1. CASE Start \/ Poll \/ StopBegin \/ StopSteps
  BY <1>1, StartIInv, PollTakeIInv, PollHandleIInv, PollResultIInv, StopBeginIInv,
     StopAttachIInv, StopReleaseIInv, StopJoinIInv DEF Poll, StopSteps
<1>2. CASE ThreadStep
  BY <1>2, LoopTestIInv, CreatePipeIInv, ConnectIInv, ConnectTestIInv, SessionTestIInv,
     ReadIInv, LinesDoneIInv, PostIInv, AnsweredIInv, TimeOutIInv, ReplyTestIInv,
     WriteIInv, DropIInv DEF ThreadStep
<1>3. CASE Environment
  BY <1>3, ClientConnectIInv, ClientWriteIInv, ClientCloseIInv,
     OtherInstanceCreatesIInv, OtherInstanceExitsIInv DEF Environment
<1>4. CASE UNCHANGED vars
  <2> USE <1>4 DEF vars, mailbox, thread, ui, client, history, IInv
  <2>1. TypeOK'
    BY DEF TypeOK, MailboxTypes, ThreadTypes, ClientTypes, HistoryTypes
  <2>2. PhaseInv' /\ MailboxInv'
    BY DEF PhaseInv, MailboxInv
  <2>3. RunInv' /\ LinesInOrder'
    BY DEF RunInv, LinesInOrder
  <2>4. LinesInv' /\ AnswersMatch' /\ AnsweredRan'
    BY DEF LinesInv, Intact, InHand, Buffered, AnswersMatch, AnsweredRan
  <2> QED
    BY <2>1, <2>2, <2>3, <2>4
<1> QED
  BY <1>1, <1>2, <1>3, <1>4 DEF Next

LEMMA Invariance == Spec => []IInv
BY InitIInv, NextIInv, PTL DEF Spec

-----------------------------------------------------------------------------
(* What follows for every behaviour. *)

\* The mailbox, the threads and the connection keep their types.
THEOREM TypeCorrect == Spec => []TypeOK
<1>1. IInv => TypeOK
  BY DEF IInv
<1> QED
  BY <1>1, Invariance, PTL

\* No answer is ever sent to a request other than its own, whatever the timeouts, the
\* late results and stop do (ControlServer.h lines 62-63).
THEOREM AnswersAlwaysMatch == Spec => []AnswersMatch
<1>1. IInv => AnswersMatch
  BY DEF IInv
<1> QED
  BY <1>1, Invariance, PTL

\* Commands run in order, none twice, and a command answered with a result has run.
THEOREM CommandsRunInOrder == Spec => []ExecutedInOrder
<1>1. IInv => ExecutedInOrder
  BY DEF IInv, RunInv, AnsweredRan, ExecutedInOrder
<1> QED
  BY <1>1, Invariance, PTL

\* A command cancelled while it waited in the mailbox never runs.
THEOREM CancelledCommandsNeverRun == Spec => []CancelledNeverRuns
<1>1. IInv => CancelledNeverRuns
  BY DEF IInv, RunInv, CancelledNeverRuns
<1> QED
  BY <1>1, Invariance, PTL

-----------------------------------------------------------------------------
(* The inductive invariant.  Neither side sees the other's memory: the server  *)
(* asks for the lock and the recent list once, at the start of a call.  What   *)
(* it then knows has to stay true, or be outdated in a way the call records,   *)
(* while the program opens, saves and dies.                                    *)

Texts == [stamp : Int, cut : BOOLEAN, quiet : BOOLEAN, raced : BOOLEAN]
OnDisk == [main : Texts, bak : Int, tmp : Int]
Calls == [pc : {"load", "backup", "write", "rename"}, file : Files, force : BOOLEAN,
          quiet : BOOLEAN, opened : BOOLEAN]
Saves == [file : Files, list : BOOLEAN]
CommandStates == [pc : {"sent", "saving", "answer"}, what : Commands, file : Files, ok : BOOLEAN]

McpTypeOK ==
    /\ disk \in [Files -> OnDisk] /\ lock \in BOOLEAN
    /\ app \in [on : BOOLEAN, path : Files \cup {None}, base : Int, listed : BOOLEAN]
    /\ saving \in Saves \cup {NotSaving}
    /\ tool \in Calls \cup {Resting} /\ command \in CommandStates \cup {NoCommand}
    /\ count \in Nat

\* The server waits for the answer to a command before it takes another call.
OneAtATime == tool = Resting \/ command = NoCommand

SessionIsLocked ==
    /\ app.on => lock
    /\ ~app.on => app.path = None /\ saving = NotSaving

OpenIsOnTop == app.path # None /\ app.listed => recent = app.path

\* A call that was given no warning works on a file the program does not have, and one
\* that was not forced on a file it has not listed, unless the program came by it since.
ToolHasAsked ==
    tool # Resting =>
        /\ tool.quiet /\ app.path = tool.file => tool.opened
        /\ app.path = tool.file /\ app.listed => tool.force \/ tool.opened

SeesItsFile ==
    \A f \in Files : app.path = f /\ disk[f].main.quiet /\ ~disk[f].main.raced
                        => app.base = disk[f].main.stamp

McpInv == McpTypeOK /\ OneAtATime /\ SessionIsLocked /\ OpenIsOnTop /\ ToolHasAsked /\ SeesItsFile

-----------------------------------------------------------------------------
(* Types. *)

LEMMA TextType ==
    ASSUME NEW stamp \in Int, NEW cut \in BOOLEAN, NEW quiet \in BOOLEAN, NEW raced \in BOOLEAN
    PROVE  /\ Text(stamp, cut, quiet, raced) \in Texts
           /\ Text(stamp, cut, quiet, raced).stamp = stamp
           /\ Text(stamp, cut, quiet, raced).cut = cut
           /\ Text(stamp, cut, quiet, raced).quiet = quiet
           /\ Text(stamp, cut, quiet, raced).raced = raced
  BY DEF Text, Texts

LEMMA McpInvInit ==
    ASSUME McpAssumption, McpInit
    PROVE  McpInv
<1>1. NoText \in Texts /\ NoEdit \in Texts
  <2>1. -1 \in Int /\ 0 \in Int /\ FALSE \in BOOLEAN
    OBVIOUS
  <2> QED BY <2>1, TextType DEF NoText, NoEdit
<1>2. disk \in [Files -> OnDisk]
  <2> DEFINE Fresh == {[main |-> NoText, bak |-> -1, tmp |-> -1],
                       [main |-> NoEdit, bak |-> -1, tmp |-> -1]}
  <2>1. Fresh \subseteq OnDisk
    <3>1. -1 \in Int
      OBVIOUS
    <3>2. \A text \in Texts : [main |-> text, bak |-> -1, tmp |-> -1] \in OnDisk
      BY <3>1 DEF OnDisk
    <3> QED BY <1>1, <3>2
  <2>2. disk \in [Files -> Fresh]
    BY DEF McpInit
  <2> HIDE DEF Fresh
  <2> QED BY <2>1, <2>2
<1>3. McpTypeOK
  <2>1. app \in [on : BOOLEAN, path : Files \cup {None}, base : Int, listed : BOOLEAN]
    BY DEF McpInit, Off
  <2> QED BY <1>2, <2>1 DEF McpInit, McpTypeOK
<1> QED BY <1>3 DEF McpInit, McpInv, OneAtATime, SessionIsLocked, OpenIsOnTop, ToolHasAsked,
        SeesItsFile, Off, McpAssumption

\* Resting and NoCommand are like no call and no request.
LEMMA PcTells ==
    /\ \A t \in Calls \cup {Resting} : t # Resting => t \in Calls
    /\ \A t \in Calls : t # Resting
    /\ \A c \in CommandStates \cup {NoCommand} : c # NoCommand => c \in CommandStates
    /\ \A c \in CommandStates : c # NoCommand
    /\ Resting.pc = "idle" /\ NoCommand.pc = "none"
<1>1. Resting.pc = "idle" /\ NoCommand.pc = "none"
  BY DEF Resting, NoCommand
<1>2. \A t \in Calls : t.pc # "idle"
  BY DEF Calls
<1>3. \A c \in CommandStates : c.pc # "none"
  BY DEF CommandStates
<1> QED BY <1>1, <1>2, <1>3

LEMMA AnswerType ==
    ASSUME command \in CommandStates \cup {NoCommand}, command # NoCommand, NEW good \in BOOLEAN
    PROVE  [command EXCEPT !.pc = "answer", !.ok = good] \in CommandStates
<1>1. command \in CommandStates
  BY PcTells
<1> QED BY <1>1 DEF CommandStates

-----------------------------------------------------------------------------
(* The server. *)

\* A step of a call under way: the program and the text of the file are as they were.
LEMMA CallGoesOn ==
    ASSUME McpInv, tool # Resting, disk' \in [Files -> OnDisk], count' \in Nat,
           \A f \in Files : disk'[f].main = disk[f].main,
           UNCHANGED <<lock, recent, app, saving, command>>,
           tool' = Resting \/ /\ tool' \in Calls /\ tool'.file = tool.file
                              /\ tool'.quiet = tool.quiet /\ tool'.force = tool.force
                              /\ tool'.opened = tool.opened
    PROVE  McpInv'
<1>1. McpTypeOK'
  BY DEF McpInv, McpTypeOK
<1>2. OneAtATime' /\ SessionIsLocked' /\ OpenIsOnTop'
  BY DEF McpInv, OneAtATime, SessionIsLocked, OpenIsOnTop
<1>3. ToolHasAsked'
  BY DEF McpInv, ToolHasAsked
<1>4. SeesItsFile'
  BY DEF McpInv, SeesItsFile
<1> QED BY <1>1, <1>2, <1>3, <1>4 DEF McpInv

LEMMA CallKeeps ==
    ASSUME McpAssumption, McpInv, NEW f \in Files, NEW creates \in BOOLEAN, NEW force \in BOOLEAN,
           Call(creates, f, force)
    PROVE  McpInv'
<1>1. /\ tool = Resting /\ command = NoCommand /\ guardProjectOpen(f, force) # "refused"
      /\ tool' = [pc |-> IF creates THEN "write" ELSE "load", file |-> f, force |-> force,
                  quiet |-> guardProjectOpen(f, force) = "quiet", opened |-> FALSE]
      /\ UNCHANGED <<disk, lock, recent, app, saving, command, count>>
  BY DEF Call
<1>2. /\ tool' \in Calls /\ tool'.file = f /\ tool'.force = force /\ ~tool'.opened
      /\ tool'.quiet = (guardProjectOpen(f, force) = "quiet")
  BY <1>1 DEF Calls
<1>3. McpTypeOK'
  BY <1>1, <1>2 DEF McpInv, McpTypeOK
<1>4. ToolHasAsked'
  <2>1. ASSUME tool'.quiet PROVE app.path # f
    <3>1. ~lock
      BY <1>2, <2>1 DEF guardProjectOpen
    <3> QED BY <3>1 DEF McpInv, SessionIsLocked, McpAssumption
  <2>2. ASSUME app.path = f, app.listed PROVE force
    <3>1. lock /\ recent = f
      BY <2>2 DEF McpInv, SessionIsLocked, OpenIsOnTop, McpAssumption
    <3> QED BY <1>1, <3>1 DEF guardProjectOpen, SameAsOpen
  <2> QED BY <1>1, <1>2, <2>1, <2>2 DEF ToolHasAsked
<1>5. OneAtATime' /\ SessionIsLocked' /\ OpenIsOnTop' /\ SeesItsFile'
  BY <1>1 DEF McpInv, OneAtATime, SessionIsLocked, OpenIsOnTop, SeesItsFile
<1> QED BY <1>3, <1>4, <1>5 DEF McpInv

LEMMA ThrowKeeps ==
    ASSUME McpInv, Throw
    PROVE  McpInv'
<1>1. /\ tool # Resting /\ tool' = Resting
      /\ UNCHANGED <<disk, lock, recent, app, saving, command, count>>
  BY PcTells DEF Throw
<1> QED BY <1>1, CallGoesOn DEF McpInv, McpTypeOK

LEMMA ServerDiesKeeps ==
    ASSUME McpInv, ServerDies
    PROVE  McpInv'
<1>1. /\ tool # Resting /\ tool' = Resting
      /\ UNCHANGED <<disk, lock, recent, app, saving, command, count>>
  BY DEF ServerDies
<1> QED BY <1>1, CallGoesOn DEF McpInv, McpTypeOK

LEMMA LoadKeeps ==
    ASSUME McpInv, loadProjectFile
    PROVE  McpInv'
<1>1. /\ tool # Resting /\ tool' = [tool EXCEPT !.pc = "backup"]
      /\ UNCHANGED <<disk, lock, recent, app, saving, command, count>>
  BY PcTells DEF loadProjectFile
<1>2. tool \in Calls
  BY <1>1, PcTells DEF McpInv, McpTypeOK
<1>3. /\ tool' \in Calls /\ tool'.file = tool.file /\ tool'.quiet = tool.quiet
      /\ tool'.force = tool.force /\ tool'.opened = tool.opened
  BY <1>1, <1>2 DEF Calls
<1> QED BY <1>1, <1>3, CallGoesOn DEF McpInv, McpTypeOK

LEMMA BackupKeeps ==
    ASSUME McpInv, copyBackup
    PROVE  McpInv'
<1>1. /\ tool # Resting /\ tool' = [tool EXCEPT !.pc = "write"]
      /\ disk' = [disk EXCEPT ![tool.file].bak = disk[tool.file].main.stamp]
      /\ UNCHANGED <<lock, recent, app, saving, command, count>>
  BY PcTells DEF copyBackup
<1>2. tool \in Calls /\ disk \in [Files -> OnDisk]
  BY <1>1, PcTells DEF McpInv, McpTypeOK
<1>3. /\ tool' \in Calls /\ tool'.file = tool.file /\ tool'.quiet = tool.quiet
      /\ tool'.force = tool.force /\ tool'.opened = tool.opened
  BY <1>1, <1>2 DEF Calls
<1>4. disk' \in [Files -> OnDisk] /\ \A f \in Files : disk'[f].main = disk[f].main
  BY <1>1, <1>2 DEF Calls, OnDisk, Texts
<1> QED BY <1>1, <1>3, <1>4, CallGoesOn DEF McpInv, McpTypeOK

LEMMA WriteTmpKeeps ==
    ASSUME McpInv, writeTmp
    PROVE  McpInv'
<1>1. /\ tool # Resting /\ tool' = [tool EXCEPT !.pc = "rename"] /\ count' = count + 1
      /\ disk' = [disk EXCEPT ![tool.file].tmp = count']
      /\ UNCHANGED <<lock, recent, app, saving, command>>
  BY PcTells DEF writeTmp
<1>2. tool \in Calls /\ disk \in [Files -> OnDisk] /\ count' \in Nat
  BY <1>1, PcTells DEF McpInv, McpTypeOK
<1>3. /\ tool' \in Calls /\ tool'.file = tool.file /\ tool'.quiet = tool.quiet
      /\ tool'.force = tool.force /\ tool'.opened = tool.opened
  BY <1>1, <1>2 DEF Calls
<1>4. disk' \in [Files -> OnDisk] /\ \A f \in Files : disk'[f].main = disk[f].main
  BY <1>1, <1>2 DEF Calls, OnDisk
<1> QED BY <1>1, <1>2, <1>3, <1>4, CallGoesOn

\* The program came by the file of the call while it was at work.
Raced == tool.opened /\ app.path = tool.file

\* What rename leaves of the files.
LEMMA RenameFacts ==
    ASSUME McpInv, rename
    PROVE  /\ tool \in Calls /\ tool # Resting /\ tool' = Resting
           /\ UNCHANGED <<lock, recent, app, saving, command, count>>
           /\ disk' \in [Files -> OnDisk]
           /\ \A f \in Files : f # tool.file => disk'[f] = disk[f]
           /\ \/ UNCHANGED disk
              \/ /\ disk'[tool.file].main.quiet = tool.quiet
                 /\ disk'[tool.file].main.raced = Raced
                 /\ ~disk'[tool.file].main.cut
<1>1. /\ tool # Resting /\ tool' = Resting
      /\ UNCHANGED <<lock, recent, app, saving, command, count>>
      /\ \/ UNCHANGED disk
         \/ disk' = [disk EXCEPT ![tool.file] = [main |-> Text(@.tmp, FALSE, tool.quiet, Raced),
                                                 bak |-> @.bak, tmp |-> -1]]
  BY PcTells DEF rename, Raced
<1>2. /\ tool \in Calls /\ tool.file \in Files /\ tool.quiet \in BOOLEAN /\ Raced \in BOOLEAN
      /\ disk \in [Files -> OnDisk]
  BY <1>1, PcTells DEF McpInv, McpTypeOK, Calls, Raced
<1>3. CASE UNCHANGED disk
  BY <1>1, <1>2, <1>3
<1>4. CASE ~UNCHANGED disk
  <2> DEFINE text == Text(disk[tool.file].tmp, FALSE, tool.quiet, Raced)
             new == [main |-> text, bak |-> disk[tool.file].bak, tmp |-> -1]
  <2>1. disk[tool.file].tmp \in Int /\ disk[tool.file].bak \in Int
    BY <1>2 DEF OnDisk
  <2>2. text \in Texts /\ text.quiet = tool.quiet /\ text.raced = Raced /\ ~text.cut
    <3>1. text.quiet = tool.quiet /\ text.raced = Raced /\ text.cut = FALSE
      BY DEF Text
    <3>2. text \in Texts
      BY <1>2, <2>1 DEF Text, Texts
    <3> QED BY <3>1, <3>2
  <2>3. new \in OnDisk /\ new.main = text
    <3> HIDE DEF text
    <3> QED BY <2>1, <2>2 DEF OnDisk
  <2>4. disk' = [disk EXCEPT ![tool.file] = new]
    BY <1>1, <1>4
  <2> HIDE DEF new, text
  <2>5. disk' \in [Files -> OnDisk] /\ disk'[tool.file] = new
        /\ \A f \in Files : f # tool.file => disk'[f] = disk[f]
    BY <1>2, <2>3, <2>4
  <2> QED BY <1>1, <1>2, <2>2, <2>3, <2>5
<1> QED BY <1>3, <1>4

\* The text that was made without a warning is of a file the program does not have, or has
\* come by since.
LEMMA RenameKeeps ==
    ASSUME McpInv, rename
    PROVE  McpInv'
<1>1. /\ tool \in Calls /\ tool # Resting /\ tool' = Resting
      /\ UNCHANGED <<lock, recent, app, saving, command, count>>
      /\ disk' \in [Files -> OnDisk]
      /\ \A f \in Files : f # tool.file => disk'[f] = disk[f]
      /\ \/ UNCHANGED disk
         \/ disk'[tool.file].main.quiet = tool.quiet /\ disk'[tool.file].main.raced = Raced
  BY RenameFacts
<1>2. McpTypeOK'
  BY <1>1 DEF McpInv, McpTypeOK
<1>3. OneAtATime' /\ SessionIsLocked' /\ OpenIsOnTop' /\ ToolHasAsked'
  BY <1>1 DEF McpInv, OneAtATime, SessionIsLocked, OpenIsOnTop, ToolHasAsked
<1>4. SeesItsFile'
  BY <1>1 DEF McpInv, SeesItsFile, ToolHasAsked, Raced
<1> QED BY <1>2, <1>3, <1>4 DEF McpInv

-----------------------------------------------------------------------------
(* The program. *)

\* A call at work on a file that the program comes by is not told.
LEMMA CameByFacts ==
    ASSUME tool \in Calls \cup {Resting}, NEW f, CameBy(f)
    PROVE  /\ tool' \in Calls \cup {Resting}
           /\ tool = Resting => tool' = Resting
           /\ tool' # Resting =>
                /\ tool # Resting /\ tool'.file = tool.file /\ tool'.force = tool.force
                /\ tool.file = f => tool'.opened
                /\ tool.file # f => tool' = tool
<1>1. CASE tool # Resting /\ tool.file = f
  <2>1. tool \in Calls
    BY <1>1, PcTells
  <2>2. tool' = [tool EXCEPT !.opened = TRUE]
    BY <1>1 DEF CameBy
  <2>3. /\ tool' \in Calls /\ tool'.file = tool.file /\ tool'.force = tool.force
        /\ tool'.opened
    BY <2>1, <2>2 DEF Calls
  <2> QED BY <1>1, <2>3
<1>2. CASE ~(tool # Resting /\ tool.file = f)
  BY <1>2 DEF CameBy
<1> QED BY <1>1, <1>2

LEMMA LaunchKeeps ==
    ASSUME McpAssumption, McpInv, Launch
    PROVE  McpInv'
<1>1. /\ ~app.on /\ app' = [Off EXCEPT !.on = TRUE] /\ lock' = TRUE
      /\ UNCHANGED <<disk, recent, saving, tool, command, count>>
  BY DEF Launch
<1>2. /\ app.path = None /\ app'.path = None /\ app'.on
      /\ app' \in [on : BOOLEAN, path : Files \cup {None}, base : Int, listed : BOOLEAN]
  <2>1. -1 \in Int
    OBVIOUS
  <2> QED BY <1>1, <2>1 DEF McpInv, SessionIsLocked, Off
<1>3. McpTypeOK'
  BY <1>1, <1>2 DEF McpInv, McpTypeOK
<1>4. OneAtATime' /\ SessionIsLocked' /\ OpenIsOnTop'
  BY <1>1, <1>2 DEF McpInv, OneAtATime, SessionIsLocked, OpenIsOnTop
<1>5. ToolHasAsked'
  <2>1. tool # Resting => tool.file \in Files
    BY PcTells DEF McpInv, McpTypeOK, Calls
  <2> QED BY <1>1, <1>2, <2>1 DEF ToolHasAsked, McpAssumption
<1>6. SeesItsFile'
  BY <1>2 DEF SeesItsFile, McpAssumption
<1> QED BY <1>3, <1>4, <1>5, <1>6 DEF McpInv

\* The program takes what is in a file, for the user or for a command.
LEMMA HoldingKeeps ==
    ASSUME McpInv, NEW f \in Files, app.on, app' = Holding(f), recent' = f,
           \/ CameBy(f) /\ UNCHANGED command
           \/ tool = Resting /\ UNCHANGED tool,
           command' \in CommandStates \cup {NoCommand},
           UNCHANGED <<disk, lock, saving, count>>
    PROVE  McpInv'
<1>1. /\ tool \in Calls \cup {Resting} /\ disk \in [Files -> OnDisk]
      /\ app \in [on : BOOLEAN, path : Files \cup {None}, base : Int, listed : BOOLEAN]
  BY DEF McpInv, McpTypeOK
<1>2. disk[f].main.stamp \in Int
  BY <1>1 DEF OnDisk, Texts
<1>3. /\ app' \in [on : BOOLEAN, path : Files \cup {None}, base : Int, listed : BOOLEAN]
      /\ app'.on /\ app'.path = f /\ app'.base = disk[f].main.stamp /\ app'.listed
  BY <1>1, <1>2 DEF Holding
<1>4. /\ tool' \in Calls \cup {Resting}
      /\ tool = Resting => tool' = Resting
      /\ tool' # Resting =>
           /\ tool # Resting /\ tool'.file = tool.file /\ tool'.force = tool.force
           /\ tool.file = f => tool'.opened
           /\ tool.file # f => tool' = tool
  BY <1>1, CameByFacts
<1>5. McpTypeOK'
  BY <1>3, <1>4 DEF McpInv, McpTypeOK
<1>6. OneAtATime'
  BY <1>4 DEF McpInv, OneAtATime
<1>7. SessionIsLocked' /\ OpenIsOnTop'
  BY <1>3 DEF McpInv, SessionIsLocked, OpenIsOnTop
<1>8. ToolHasAsked'
  BY <1>3, <1>4 DEF ToolHasAsked
<1>9. SeesItsFile'
  BY <1>3 DEF SeesItsFile
<1> QED BY <1>5, <1>6, <1>7, <1>8, <1>9 DEF McpInv

\* A save empties the file, in whatever state the last edit left it.
LEMMA BeginFacts ==
    ASSUME McpInv, NEW f \in Files, NEW list \in BOOLEAN, BeginSave(f, list)
    PROVE  /\ disk' \in [Files -> OnDisk] /\ ~disk'[f].main.quiet
           /\ \A g \in Files : g # f => disk'[g] = disk[g]
           /\ \A g \in Files : disk'[g].tmp = disk[g].tmp
           /\ saving' \in Saves /\ saving'.file = f
           /\ count' \in Nat /\ UNCHANGED <<recent, app>>
<1>1. /\ count' = count + 1 /\ disk' = [disk EXCEPT ![f].main = Text(count', TRUE, FALSE, FALSE)]
      /\ saving' = [file |-> f, list |-> list] /\ UNCHANGED <<recent, app>>
  BY DEF BeginSave
<1>2. disk \in [Files -> OnDisk] /\ count' \in Nat /\ count' \in Int
  BY <1>1 DEF McpInv, McpTypeOK
<1> DEFINE text == Text(count', TRUE, FALSE, FALSE)
           new == [disk[f] EXCEPT !.main = text]
<1>3. text \in Texts /\ ~text.quiet
  BY <1>2, TextType
<1>4. new \in OnDisk /\ new.main = text /\ new.tmp = disk[f].tmp
  <2> HIDE DEF text
  <2> QED BY <1>2, <1>3 DEF OnDisk
<1>5. disk' = [disk EXCEPT ![f] = new]
  BY <1>1
<1>6. /\ disk' \in [Files -> OnDisk] /\ disk'[f] = new
      /\ \A g \in Files : g # f => disk'[g] = disk[g]
  <2> HIDE DEF new
  <2> QED BY <1>2, <1>4, <1>5
<1>7. saving' \in Saves /\ saving'.file = f
  BY <1>1 DEF Saves
<1> HIDE DEF new, text
<1> QED BY <1>1, <1>2, <1>3, <1>4, <1>6, <1>7

LEMMA BeginKeeps ==
    ASSUME McpInv, NEW f \in Files, NEW list \in BOOLEAN, app.on, BeginSave(f, list),
           \/ CameBy(f) /\ UNCHANGED command
           \/ tool = Resting /\ UNCHANGED tool,
           command' \in CommandStates \cup {NoCommand}, UNCHANGED lock
    PROVE  McpInv'
<1>1. /\ disk' \in [Files -> OnDisk] /\ ~disk'[f].main.quiet
      /\ \A g \in Files : g # f => disk'[g] = disk[g]
      /\ saving' \in Saves /\ count' \in Nat /\ UNCHANGED <<recent, app>>
  BY BeginFacts
<1>2. tool \in Calls \cup {Resting}
  BY DEF McpInv, McpTypeOK
<1>3. /\ tool' \in Calls \cup {Resting}
      /\ tool = Resting => tool' = Resting
      /\ tool' # Resting =>
           /\ tool # Resting /\ tool'.file = tool.file /\ tool'.force = tool.force
           /\ tool.file = f => tool'.opened
           /\ tool.file # f => tool' = tool
  BY <1>2, CameByFacts
<1>4. McpTypeOK'
  BY <1>1, <1>3 DEF McpInv, McpTypeOK
<1>5. OneAtATime'
  BY <1>3 DEF McpInv, OneAtATime
<1>6. SessionIsLocked' /\ OpenIsOnTop'
  BY <1>1 DEF McpInv, SessionIsLocked, OpenIsOnTop
<1>7. ToolHasAsked'
  BY <1>1, <1>3 DEF McpInv, ToolHasAsked
<1>8. SeesItsFile'
  BY <1>1 DEF McpInv, SeesItsFile
<1> QED BY <1>4, <1>5, <1>6, <1>7, <1>8 DEF McpInv

\* When the save is done the program has seen what is in the file.
LEMMA EndSaveKeeps ==
    ASSUME McpAssumption, McpInv, EndSave
    PROVE  McpInv'
<1> DEFINE f == saving.file
<1>1. /\ saving # NotSaving /\ saving' = NotSaving
      /\ disk' = [disk EXCEPT ![f].main.cut = FALSE]
      /\ app' = [app EXCEPT !.path = f, !.base = disk[f].main.stamp, !.listed = saving.list]
      /\ recent' = IF saving.list THEN f ELSE recent
      /\ command' = IF command.pc = "saving" THEN [command EXCEPT !.pc = "answer", !.ok = TRUE] ELSE command
      /\ CameBy(f) /\ UNCHANGED <<lock, count>>
  BY DEF EndSave, addRecentProject
<1>2. /\ tool \in Calls \cup {Resting} /\ disk \in [Files -> OnDisk]
      /\ app \in [on : BOOLEAN, path : Files \cup {None}, base : Int, listed : BOOLEAN]
      /\ f \in Files /\ saving.list \in BOOLEAN /\ app.on
  BY <1>1 DEF McpInv, McpTypeOK, SessionIsLocked, Saves
<1>3. /\ disk' \in [Files -> OnDisk] /\ disk'[f].main.stamp = disk[f].main.stamp
      /\ \A g \in Files : g # f => disk'[g] = disk[g]
  BY <1>1, <1>2 DEF OnDisk, Texts
<1>4. /\ app' \in [on : BOOLEAN, path : Files \cup {None}, base : Int, listed : BOOLEAN]
      /\ app'.on /\ app'.path = f /\ app'.base = disk[f].main.stamp /\ app'.listed = saving.list
  <2>1. disk[f].main.stamp \in Int
    BY <1>2 DEF OnDisk, Texts
  <2> QED BY <1>1, <1>2, <2>1
<1>5. /\ tool' \in Calls \cup {Resting}
      /\ tool = Resting => tool' = Resting
      /\ tool' # Resting =>
           /\ tool # Resting /\ tool'.file = tool.file /\ tool'.force = tool.force
           /\ tool.file = f => tool'.opened
           /\ tool.file # f => tool' = tool
  BY <1>1, <1>2, CameByFacts
<1>6. command' \in CommandStates \cup {NoCommand} /\ (command = NoCommand => command' = NoCommand)
  BY <1>1, AnswerType, PcTells DEF McpInv, McpTypeOK
<1>7. McpTypeOK'
  BY <1>1, <1>3, <1>4, <1>5, <1>6 DEF McpInv, McpTypeOK
<1>8. OneAtATime'
  BY <1>5, <1>6 DEF McpInv, OneAtATime
<1>9. SessionIsLocked' /\ OpenIsOnTop'
  BY <1>1, <1>2, <1>4 DEF McpInv, SessionIsLocked, OpenIsOnTop
<1>10. ToolHasAsked'
  BY <1>4, <1>5 DEF ToolHasAsked
<1>11. SeesItsFile'
  BY <1>3, <1>4 DEF SeesItsFile
<1> QED BY <1>7, <1>8, <1>9, <1>10, <1>11 DEF McpInv

LEMMA SaveFailsKeeps ==
    ASSUME McpInv, SaveFails
    PROVE  McpInv'
<1>1. /\ saving' = NotSaving /\ UNCHANGED <<disk, lock, recent, app, tool, count>>
      /\ command' = IF command.pc = "saving" THEN [command EXCEPT !.pc = "answer", !.ok = FALSE] ELSE command
  BY DEF SaveFails
<1>2. command' \in CommandStates \cup {NoCommand} /\ (command = NoCommand => command' = NoCommand)
  BY <1>1, AnswerType, PcTells DEF McpInv, McpTypeOK
<1>3. McpTypeOK' /\ OneAtATime'
  BY <1>1, <1>2 DEF McpInv, McpTypeOK, OneAtATime
<1> QED BY <1>1, <1>3 DEF McpInv, SessionIsLocked, OpenIsOnTop, ToolHasAsked, SeesItsFile

\* The program that ends has no file; if it dies, its lock stays.
LEMMA EndKeeps ==
    ASSUME McpAssumption, McpInv, app' = Off, saving' = NotSaving, lock' \in BOOLEAN, PipeBreaks,
           UNCHANGED <<disk, recent, tool, count>>
    PROVE  McpInv'
<1>1. /\ ~app'.on /\ app'.path = None
      /\ app' \in [on : BOOLEAN, path : Files \cup {None}, base : Int, listed : BOOLEAN]
  <2>1. -1 \in Int
    OBVIOUS
  <2> QED BY <2>1 DEF Off
<1>2. command' \in CommandStates \cup {NoCommand} /\ (command = NoCommand => command' = NoCommand)
  BY AnswerType DEF PipeBreaks, McpInv, McpTypeOK
<1>3. McpTypeOK' /\ OneAtATime'
  BY <1>1, <1>2 DEF McpInv, McpTypeOK, OneAtATime
<1>4. SessionIsLocked' /\ OpenIsOnTop'
  BY <1>1 DEF SessionIsLocked, OpenIsOnTop
<1>5. ToolHasAsked'
  <2>1. tool # Resting => tool.file \in Files
    BY PcTells DEF McpInv, McpTypeOK, Calls
  <2> QED BY <1>1, <2>1 DEF ToolHasAsked, McpAssumption
<1>6. SeesItsFile'
  BY <1>1 DEF SeesItsFile, McpAssumption
<1> QED BY <1>3, <1>4, <1>5, <1>6 DEF McpInv

-----------------------------------------------------------------------------
(* Commands. *)

LEMMA SendKeeps ==
    ASSUME McpInv, NEW what \in Commands, NEW f \in Files, controlSend(what, f)
    PROVE  McpInv'
<1>1. /\ tool = Resting /\ command' \in CommandStates
      /\ UNCHANGED <<disk, lock, recent, app, saving, tool, count>>
  BY DEF controlSend, CommandStates
<1> QED BY <1>1 DEF McpInv, McpTypeOK, OneAtATime, SessionIsLocked, OpenIsOnTop, ToolHasAsked,
        SeesItsFile

LEMMA TakeKeeps ==
    ASSUME McpInv, TakeAnswer
    PROVE  McpInv'
<1>1. command' = NoCommand /\ UNCHANGED <<disk, lock, recent, app, saving, tool, count>>
  BY DEF TakeAnswer
<1> QED BY <1>1 DEF McpInv, McpTypeOK, OneAtATime, SessionIsLocked, OpenIsOnTop, ToolHasAsked,
        SeesItsFile

\* A command that changes nothing but itself.
LEMMA AnswerKeeps ==
    ASSUME McpInv, tool = Resting, command' \in CommandStates,
           UNCHANGED <<disk, lock, recent, app, saving, tool, count>>
    PROVE  McpInv'
BY DEF McpInv, McpTypeOK, OneAtATime, SessionIsLocked, OpenIsOnTop, ToolHasAsked, SeesItsFile

\* The cases of a command: it reads a file, begins a save, or only answers.
LEMMA HandleCases ==
    ASSUME McpInv, handleControlCommand
    PROVE  /\ tool = Resting /\ UNCHANGED tool /\ command' \in CommandStates /\ UNCHANGED lock
           /\ app.on /\ saving = NotSaving
           /\ \/ UNCHANGED <<disk, recent, app, saving, count>>
              \/ \E f \in Files : /\ app' = Holding(f) /\ recent' = f
                                  /\ UNCHANGED <<disk, saving, count>>
              \/ app.path \in Files /\ BeginSave(app.path, TRUE)
<1>1. /\ Free /\ command.pc = "sent" /\ UNCHANGED lock
      /\ CASE command.what = "save"   -> Save
           [] command.what = "reload" -> Reload(app.path)
           [] command.what = "open"   -> Reload(command.file)
           [] OTHER -> Answer(TRUE) /\ UNCHANGED <<disk, recent, app, saving, count, tool>>
  BY DEF handleControlCommand
<1>2. /\ command # NoCommand /\ command \in CommandStates /\ tool = Resting
      /\ app.path \in Files \cup {None} /\ app.on /\ saving = NotSaving
  BY <1>1, PcTells DEF McpInv, McpTypeOK, OneAtATime, Free
<1>3. /\ \A good \in BOOLEAN : Answer(good) => command' \in CommandStates
      /\ [command EXCEPT !.pc = "saving"] \in CommandStates
  BY <1>2, AnswerType DEF Answer, CommandStates
<1>4. ASSUME NEW f \in Files \cup {None}, Reload(f)
      PROVE  /\ UNCHANGED tool /\ command' \in CommandStates
             /\ \/ UNCHANGED <<disk, recent, app, saving, count>>
                \/ f \in Files /\ app' = Holding(f) /\ recent' = f /\ UNCHANGED <<disk, saving, count>>
  BY <1>3, <1>4 DEF Reload, addRecentProject
<1>5. CASE Save
  BY <1>1, <1>2, <1>3, <1>5 DEF Save
<1>6. CASE Reload(app.path)
  BY <1>1, <1>2, <1>4, <1>6
<1>7. CASE Reload(command.file)
  <2>1. command.file \in Files
    BY <1>2 DEF CommandStates
  <2> QED BY <1>1, <1>2, <1>4, <1>7, <2>1
<1>8. CASE Answer(TRUE) /\ UNCHANGED <<disk, recent, app, saving, count, tool>>
  BY <1>1, <1>2, <1>3, <1>8
<1> QED BY <1>1, <1>5, <1>6, <1>7, <1>8

LEMMA HandleKeeps ==
    ASSUME McpInv, handleControlCommand
    PROVE  McpInv'
<1>1. /\ tool = Resting /\ UNCHANGED tool /\ command' \in CommandStates /\ UNCHANGED lock /\ app.on
      /\ \/ UNCHANGED <<disk, recent, app, saving, count>>
         \/ \E f \in Files : /\ app' = Holding(f) /\ recent' = f
                             /\ UNCHANGED <<disk, saving, count>>
         \/ app.path \in Files /\ BeginSave(app.path, TRUE)
  BY HandleCases
<1>2. CASE UNCHANGED <<disk, recent, app, saving, count>>
  BY <1>1, <1>2, AnswerKeeps
<1>3. ASSUME NEW f \in Files, app' = Holding(f), recent' = f, UNCHANGED <<disk, saving, count>>
      PROVE  McpInv'
  BY <1>1, <1>3, HoldingKeeps
<1>4. CASE app.path \in Files /\ BeginSave(app.path, TRUE)
  BY <1>1, <1>4, BeginKeeps
<1> QED BY <1>1, <1>2, <1>3, <1>4

-----------------------------------------------------------------------------
LEMMA McpInvNext ==
    ASSUME McpAssumption, McpInv, [McpNext]_mcpVars
    PROVE  McpInv'
<1>1. ASSUME NEW f \in Files, NEW creates \in BOOLEAN, NEW force \in BOOLEAN, Call(creates, f, force)
      PROVE  McpInv'
  BY <1>1, CallKeeps
<1>2. CASE Throw
  BY <1>2, ThrowKeeps
<1>3. CASE loadProjectFile
  BY <1>3, LoadKeeps
<1>4. CASE copyBackup
  BY <1>4, BackupKeeps
<1>5. CASE writeTmp
  BY <1>5, WriteTmpKeeps
<1>6. CASE rename
  BY <1>6, RenameKeeps
<1>7. CASE ServerDies
  BY <1>7, ServerDiesKeeps
<1>8. CASE Launch
  BY <1>8, LaunchKeeps
<1>9. ASSUME NEW f \in Files, OpenFile(f)
      PROVE  McpInv'
  <2>1. /\ app.on /\ app' = Holding(f) /\ recent' = f /\ CameBy(f)
        /\ UNCHANGED <<disk, lock, saving, command, count>>
    BY <1>9 DEF OpenFile, Free, addRecentProject
  <2>2. command' \in CommandStates \cup {NoCommand}
    BY <2>1 DEF McpInv, McpTypeOK
  <2> QED BY <2>1, <2>2, HoldingKeeps
<1>10. ASSUME NEW f \in Files, NEW list \in BOOLEAN, Free, BeginSave(f, list), CameBy(f),
              UNCHANGED <<lock, command>>
       PROVE  McpInv'
  <2>1. command' \in CommandStates \cup {NoCommand} /\ app.on
    BY <1>10 DEF McpInv, McpTypeOK, Free
  <2> QED BY <1>10, <2>1, BeginKeeps
<1>11. ASSUME NEW f \in Files, SaveAs(f)
       PROVE  McpInv'
  BY <1>10, <1>11 DEF SaveAs
<1>12. ASSUME NEW f \in Files, ExportPackage(f)
       PROVE  McpInv'
  BY <1>10, <1>12 DEF ExportPackage
<1>13. CASE EndSave
  BY <1>13, EndSaveKeeps
<1>14. CASE SaveFails
  BY <1>14, SaveFailsKeeps
<1>15. CASE Exit
  BY <1>15, EndKeeps DEF Exit, Free
<1>16. CASE Crash
  BY <1>16, EndKeeps DEF Crash, McpInv, McpTypeOK
<1>17. ASSUME NEW what \in Commands, NEW f \in Files, controlSend(what, f)
       PROVE  McpInv'
  BY <1>17, SendKeeps
<1>18. CASE handleControlCommand
  BY <1>18, HandleKeeps
<1>19. CASE TakeAnswer
  BY <1>19, TakeKeeps
<1>20. CASE UNCHANGED mcpVars
  BY <1>20 DEF mcpVars, McpInv, McpTypeOK, OneAtATime, SessionIsLocked, OpenIsOnTop, ToolHasAsked,
     SeesItsFile
<1> QED BY <1>1, <1>2, <1>3, <1>4, <1>5, <1>6, <1>7, <1>8, <1>9, <1>11, <1>12, <1>13, <1>14, <1>15,
        <1>16, <1>17, <1>18, <1>19, <1>20 DEF McpNext

-----------------------------------------------------------------------------
(* What a step may do to a file. *)

SparesText(f) == disk'[f].tmp = disk[f].tmp /\ (disk'[f].main.cut => disk[f].main.cut)
WritesTmp(f) == disk'[f].tmp # -1 /\ disk'[f].main = disk[f].main
Renames(f) == tool # Resting /\ tool.file = f /\ ~disk'[f].main.cut
SavesTo(f) == disk'[f].tmp = disk[f].tmp /\ saving'.file = f

FileStep(f) == SparesText(f) \/ WritesTmp(f) \/ Renames(f) \/ SavesTo(f)

LEMMA DiskStays ==
    ASSUME UNCHANGED disk, NEW f \in Files
    PROVE  FileStep(f)
BY DEF FileStep, SparesText

LEMMA BeginStep ==
    ASSUME McpInv, NEW g \in Files, NEW list \in BOOLEAN, BeginSave(g, list), NEW f \in Files
    PROVE  FileStep(f)
<1>1. /\ \A h \in Files : h # g => disk'[h] = disk[h]
      /\ \A h \in Files : disk'[h].tmp = disk[h].tmp
      /\ saving'.file = g
  BY BeginFacts
<1> QED BY <1>1 DEF FileStep, SparesText, SavesTo

LEMMA BackupStep ==
    ASSUME McpInv, copyBackup, NEW f \in Files
    PROVE  FileStep(f)
<1>1. disk \in [Files -> OnDisk] /\ tool \in Calls
      /\ disk' = [disk EXCEPT ![tool.file].bak = disk[tool.file].main.stamp]
  BY PcTells DEF copyBackup, McpInv, McpTypeOK
<1>2. disk'[f].tmp = disk[f].tmp /\ disk'[f].main = disk[f].main
  BY <1>1 DEF OnDisk, Calls
<1> QED BY <1>2 DEF FileStep, SparesText

LEMMA WriteTmpStep ==
    ASSUME McpInv, writeTmp, NEW f \in Files
    PROVE  FileStep(f)
<1>1. /\ disk \in [Files -> OnDisk] /\ tool \in Calls /\ count \in Nat /\ count' = count + 1
      /\ disk' = [disk EXCEPT ![tool.file].tmp = count']
  BY PcTells DEF writeTmp, McpInv, McpTypeOK
<1>2. count' # -1
  BY <1>1
<1>3. CASE f = tool.file
  <2>1. disk'[f].tmp = count' /\ disk'[f].main = disk[f].main
    BY <1>1, <1>3 DEF OnDisk, Calls
  <2> QED BY <1>2, <2>1 DEF FileStep, WritesTmp
<1>4. CASE f # tool.file
  <2>1. disk'[f] = disk[f]
    BY <1>1, <1>4
  <2> QED BY <2>1 DEF FileStep, SparesText
<1> QED BY <1>3, <1>4

LEMMA RenameStep ==
    ASSUME McpInv, rename, NEW f \in Files
    PROVE  FileStep(f)
<1>1. /\ tool # Resting
      /\ \A g \in Files : g # tool.file => disk'[g] = disk[g]
      /\ UNCHANGED disk \/ ~disk'[tool.file].main.cut
  BY RenameFacts
<1> QED BY <1>1 DEF FileStep, SparesText, Renames

LEMMA EndSaveStep ==
    ASSUME McpInv, EndSave, NEW f \in Files
    PROVE  FileStep(f)
<1>1. /\ disk \in [Files -> OnDisk] /\ saving.file \in Files
      /\ disk' = [disk EXCEPT ![saving.file].main.cut = FALSE]
  BY DEF EndSave, McpInv, McpTypeOK, Saves
<1>2. disk'[f].tmp = disk[f].tmp /\ (disk'[f].main.cut => disk[f].main.cut)
  BY <1>1 DEF OnDisk, Texts
<1> QED BY <1>2 DEF FileStep, SparesText

LEMMA FileSteps ==
    ASSUME McpInv, [McpNext]_mcpVars, NEW f \in Files
    PROVE  FileStep(f)
<1>1. ASSUME NEW g \in Files, NEW creates \in BOOLEAN, NEW force \in BOOLEAN, Call(creates, g, force)
      PROVE  UNCHANGED disk
  BY <1>1 DEF Call
<1>2. CASE Throw \/ loadProjectFile \/ ServerDies \/ Launch \/ SaveFails \/ Exit \/ Crash \/ TakeAnswer
  <2>1. UNCHANGED disk
    BY <1>2 DEF Throw, loadProjectFile, ServerDies, Launch, SaveFails, Exit, Crash, TakeAnswer
  <2> QED BY <2>1, DiskStays
<1>3. ASSUME NEW g \in Files, OpenFile(g)
      PROVE  UNCHANGED disk
  BY <1>3 DEF OpenFile
<1>4. ASSUME NEW g \in Files, SaveAs(g) \/ ExportPackage(g)
      PROVE  FileStep(f)
  BY <1>4, BeginStep DEF SaveAs, ExportPackage
<1>5. ASSUME NEW what \in Commands, NEW g \in Files, controlSend(what, g)
      PROVE  UNCHANGED disk
  BY <1>5 DEF controlSend
<1>6. CASE handleControlCommand
  <2>1. UNCHANGED disk \/ (app.path \in Files /\ BeginSave(app.path, TRUE))
    BY <1>6, HandleCases
  <2> QED BY <2>1, DiskStays, BeginStep
<1>7. CASE UNCHANGED mcpVars
  BY <1>7, DiskStays DEF mcpVars
<1> QED BY <1>1, <1>2, <1>3, <1>4, <1>5, <1>6, <1>7, DiskStays, BackupStep, WriteTmpStep, RenameStep,
        EndSaveStep DEF McpNext

-----------------------------------------------------------------------------
\* Whatever files, edits and deaths: between the server (guardProjectOpen and the .tmp
\* beside the file) and the program (session.lock and the recent list) no edit is lost
\* unseen but in one race, which NoUnseenOverwrite names and nothing here excludes: the
\* program opens the file between the guard and the rename.
THEOREM EditsAlwaysKept ==
    ASSUME McpAssumption
    PROVE  McpSpec => EditsAreKept
<1> DEFINE Unseen == \A f \in Files :
               (/\ saving.file # f /\ saving'.file = f /\ app.path = f
                /\ disk[f].main.quiet /\ ~disk[f].main.raced) => app.base = disk[f].main.stamp
           Unforced == \A f \in Files :
               (/\ disk[f].tmp # -1 /\ disk'[f].tmp = -1
                /\ app.path = f /\ app.listed /\ ~tool.opened) => tool.force
           Cut == \A f \in Files :
               disk'[f].main.cut /\ ~disk[f].main.cut => saving'.file = f
<1>1. McpInit => McpInv
  BY McpInvInit
<1>2. McpInv /\ [McpNext]_mcpVars => McpInv'
  BY McpInvNext
<1>3. McpInv /\ [McpNext]_mcpVars => [Unseen]_mcpVars
  BY DEF McpInv, SeesItsFile
<1>4. McpInv /\ [McpNext]_mcpVars => [Unforced]_mcpVars
  <2>1. ASSUME McpInv, [McpNext]_mcpVars, NEW f \in Files, disk[f].tmp # -1, disk'[f].tmp = -1,
               app.path = f, app.listed, ~tool.opened
        PROVE  tool.force
    <3>1. FileStep(f)
      BY <2>1, FileSteps
    <3>2. tool # Resting /\ tool.file = f
      BY <2>1, <3>1 DEF FileStep, SparesText, WritesTmp, Renames, SavesTo
    <3> QED BY <2>1, <3>2 DEF McpInv, ToolHasAsked
  <2> QED BY <2>1
<1>5. McpInv /\ [McpNext]_mcpVars => [Cut]_mcpVars
  <2>1. ASSUME McpInv, [McpNext]_mcpVars, NEW f \in Files, disk'[f].main.cut, ~disk[f].main.cut
        PROVE  saving'.file = f
    <3>1. FileStep(f)
      BY <2>1, FileSteps
    <3> QED BY <2>1, <3>1 DEF FileStep, SparesText, WritesTmp, Renames, SavesTo
  <2> QED BY <2>1
<1> QED
  <2>1. McpSpec => [][Unseen]_mcpVars
    <3> HIDE DEF Unseen
    <3> QED BY <1>1, <1>2, <1>3, PTL DEF McpSpec
  <2>2. McpSpec => [][Unforced]_mcpVars
    <3> HIDE DEF Unforced
    <3> QED BY <1>1, <1>2, <1>4, PTL DEF McpSpec
  <2>3. McpSpec => [][Cut]_mcpVars
    <3> HIDE DEF Cut
    <3> QED BY <1>1, <1>2, <1>5, PTL DEF McpSpec
  <2> QED BY <2>1, <2>2, <2>3 DEF EditsAreKept, NoUnseenOverwrite, UnforcedSparesTheOpenProject,
          CutOnlyBySaves
==============================================================================
