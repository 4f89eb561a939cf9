----------------------------- MODULE ChatWindow -----------------------------
(***************************************************************************)
(* The chat window, the streams of answers it asks for, and what it is told  *)
(* of the backend: the supervisor writes its state to the store, the store   *)
(* tells every window of every update, and the page enables or disables its  *)
(* input by it.  Status and streams reach the page through one queue.  A     *)
(* diagnosis for the control panel writes the state of the backend back, as  *)
(* it was before the backend answered.                                      *)
(*                                                                         *)
(* The backend does what BackendPromise says.                               *)
(***************************************************************************)
EXTENDS ChatStream, FiniteSets

CONSTANTS
  MaxAttempts,
  Diagnosing,  \* bound: whether the control panel asks for diagnoses
  MaxTold      \* bound on the status messages on their way to the page

ASSUME ChatBounds ==
  MaxTold \in Nat \ {0} /\ MaxAttempts \in Nat /\ Diagnosing \in BOOLEAN

VARIABLES
  phase, attempts,  \* of the backend
  stored,           \* what the store holds: the backend is available
  written,          \* whether a diagnosis wrote that, and not the supervisor
  reports,          \* what the diagnoses under way have read of it
  open,             \* whether there is a chat window
  inbox,            \* the messages on their way to its page
  listening,        \* the streams the page has a listener for
  shown,            \* of each stream: the pieces in its message
  messages,         \* the conversation
  disabled,         \* whether the input is
  banner            \* what the page was last told: the backend is available

page == <<open, inbox, listening, shown, messages, disabled, banner>>
backend == <<phase, attempts>>
store == <<stored, written, reports>>
vars == <<streams, page, backend, store>>

Backend == INSTANCE BackendPromise

Status(available) == [kind |-> "status", available |-> available]
OfStream(s, e) == [kind |-> "stream", stream |-> s, event |-> e]

IsStatus(message) == message.kind = "status"

StreamMessage == {OfStream(s, e) : s \in Stream, e \in Event}

\* What the supervisor writes to the store.
Available == phase = "up"

Statuses == Without(inbox, StreamMessage)

Told == Len(Statuses)

\* What is sent to a page: nothing, when there is none.
Sent(sent) == inbox' = IF open THEN inbox \o sent ELSE inbox

\* The streams asked for by the page that is there now.
Asked == {messages[i].stream : i \in {j \in DOMAIN messages : messages[j].role = "user"}}

Init ==
  /\ StreamInit
  /\ phase = "up" /\ attempts = 0
  /\ stored = TRUE /\ written = FALSE /\ reports = {}
  /\ open = FALSE /\ inbox = << >> /\ listening = {} /\ messages = << >>
  /\ shown = [s \in Stream |-> << >>]
  /\ disabled = FALSE /\ banner = TRUE

-----------------------------------------------------------------------------
\* The window

\* The new page subscribes and asks for the state of the store.
ShowChat ==
  /\ ~open /\ open' = TRUE
  /\ inbox' = <<Status(stored)>>
  /\ UNCHANGED <<listening, shown, messages, disabled, banner, streams, backend, store>>

\* The streams of a page that is gone go on, and nobody is told.
CloseChat ==
  /\ open /\ open' = FALSE
  /\ inbox' = << >> /\ listening' = {} /\ messages' = << >>
  /\ shown' = [s \in Stream |-> << >>]
  /\ disabled' = FALSE /\ banner' = TRUE
  /\ UNCHANGED <<streams, backend, store>>

Send(s) ==
  /\ open /\ ~disabled
  /\ client[s] = "off" /\ \A t \in Stream : t < s => client[t] # "off"
  /\ messages' = Append(messages, [role |-> "user", stream |-> s])
  /\ disabled' = TRUE /\ listening' = listening \cup {s}
  /\ \/ /\ phase \in {"up", "starting"} /\ Open(s)
        /\ UNCHANGED inbox
     \/ Refused(s) /\ Sent(<<OfStream(s, End("error"))>>)
  /\ UNCHANGED <<open, shown, banner, backend, store>>

\* The page takes a message from its queue.
TakesStatus(available) ==
  /\ banner' = available /\ disabled' = ~available
  /\ UNCHANGED <<listening, shown, messages>>

TakesText(s, e) ==
  /\ shown' = [shown EXCEPT ![s] = Append(@, e)]
  /\ UNCHANGED <<listening, messages, disabled, banner>>

TakesDone(s) ==
  /\ messages' = Append(messages, [role |-> "assistant", stream |-> s, content |-> shown[s]])
  /\ disabled' = FALSE /\ listening' = listening \ {s}
  /\ UNCHANGED <<shown, banner>>

\* Mutant of TakesError: what there is of the answer is taken for the answer.
KeepsPartial(s) == TakesDone(s)

TakesError(s) ==
  /\ disabled' = FALSE /\ listening' = listening \ {s}
  /\ UNCHANGED <<shown, messages, banner>>

Deliver ==
  /\ inbox # << >> /\ inbox' = Tail(inbox)
  /\ LET message == Head(inbox)
     IN  \/ IsStatus(message) /\ TakesStatus(message.available)
         \/ /\ ~IsStatus(message) /\ message.stream \in listening
            /\ CASE message.event.kind = "text" -> TakesText(message.stream, message.event)
                 [] message.event.kind = "done" -> TakesDone(message.stream)
                 [] message.event.kind = "error" -> TakesError(message.stream)
         \/ /\ ~IsStatus(message) /\ message.stream \notin listening
            /\ UNCHANGED <<listening, shown, messages, disabled, banner>>
  /\ UNCHANGED <<open, streams, backend, store>>

-----------------------------------------------------------------------------
\* The stream in the main process

\* What is heard of s is sent to the page that asked, if that is still there.
Forward(s, events) ==
  IF s \in Asked THEN Sent([i \in DOMAIN events |-> OfStream(s, events[i])])
  ELSE UNCHANGED inbox

ElsewhereUnchanged ==
  UNCHANGED <<open, listening, shown, messages, disabled, banner, backend, store>>

Receive(s) == Read(s) /\ Forward(s, Heard(wire[s][1])) /\ ElsewhereUnchanged

Finish(s) == ReadEnd(s) /\ ElsewhereUnchanged /\ UNCHANGED inbox

\* Mutant of Broken: the rejection of the stream is not caught.
BrokenUnseen(s) == Cut(s) /\ UNCHANGED inbox /\ ElsewhereUnchanged

Broken(s) == Cut(s) /\ Forward(s, <<End("error")>>) /\ ElsewhereUnchanged

Backward(s) == BackendStep(s) /\ UNCHANGED inbox /\ ElsewhereUnchanged

-----------------------------------------------------------------------------
\* The status of the backend

\* Whatever is written to the store is told to the windows.
Writes(available, diagnosis) ==
  /\ stored' = available /\ written' = diagnosis
  /\ Sent(<<Status(available)>>)

\* Mutant of Synced: a backend that comes up again is not reported.
SyncedUnlessUp ==
  IF Available' THEN UNCHANGED <<stored, written, inbox>> ELSE Writes(FALSE, FALSE)

\* The supervisor writes its state to the store.
Synced == Writes(Available', FALSE)

Supervise ==
  /\ Told < MaxTold
  /\ \/ Backend!WillRetry \/ Backend!GoesDown \/ Backend!Retry \/ Backend!ComesUp
  /\ IF phase' \in {"waiting", "down"} THEN BackendDies ELSE UNCHANGED streams
  /\ Synced
  /\ UNCHANGED <<open, listening, shown, messages, disabled, banner, reports>>

\* Any update of the store is broadcast with all of its state: a pet has moved.
Broadcast ==
  /\ open /\ Told = 0
  /\ Sent(<<Status(stored)>>)
  /\ UNCHANGED <<open, listening, shown, messages, disabled, banner, streams, backend, store>>

Beside == UNCHANGED <<open, listening, shown, messages, disabled, banner, streams, backend>>

\* A diagnosis reads the store and asks the backend for its health and version.
Diagnose ==
  /\ Diagnosing
  /\ reports' = reports \cup {stored}
  /\ Beside /\ UNCHANGED <<stored, written, inbox>>

\* With the version, it writes back what it has read.  The answer may have been on its
\* way when the backend died; another diagnosis may have read the same.
Reported(available) ==
  /\ available \in reports /\ Told < MaxTold
  /\ reports' \in {reports, reports \ {available}}
  /\ Writes(available, TRUE)
  /\ Beside

DiagnosisFails(available) ==
  /\ available \in reports
  /\ reports' = reports \ {available}
  /\ Beside /\ UNCHANGED <<stored, written, inbox>>

-----------------------------------------------------------------------------
StreamNext(s) == Send(s) \/ Receive(s) \/ Finish(s) \/ Broken(s) \/ Backward(s)

Next ==
  \/ ShowChat \/ CloseChat \/ Deliver
  \/ \E s \in Stream : StreamNext(s)
  \/ Supervise \/ Broadcast \/ Diagnose
  \/ \E available \in BOOLEAN : Reported(available) \/ DiagnosisFails(available)

\* A provider answers, or its client gives up after a minute: the one for Anthropic does
\* not, and the provider's goroutine goes when the reader, after five minutes without an
\* event, breaks the connection and so ends the context of the request.  The goroutines
\* and the readers of a stream go on while they can; a connection to a backend that died
\* breaks; and the page takes its messages.
Fairness ==
  /\ WF_vars(Deliver)
  /\ \A s \in Stream :
       /\ WF_vars(Backward(s) \/ Receive(s) \/ Finish(s))
       /\ WF_vars(handler[s] = "died" /\ Broken(s))

Spec == Init /\ [][Next]_vars /\ Fairness
-----------------------------------------------------------------------------
\* Properties

Message == {Status(available) : available \in BOOLEAN} \cup StreamMessage

Bubble == [role : {"user"}, stream : Stream]
            \cup [role : {"assistant"}, stream : Stream, content : Seq(Event)]

TypeOK ==
  /\ StreamTypeOK
  /\ phase \in {"down", "starting", "up", "waiting"} /\ attempts \in 0..MaxAttempts
  /\ stored \in BOOLEAN /\ written \in BOOLEAN /\ reports \subseteq BOOLEAN
  /\ open \in BOOLEAN /\ disabled \in BOOLEAN /\ banner \in BOOLEAN
  /\ inbox \in Seq(Message) /\ messages \in Seq(Bubble)
  /\ listening \subseteq Asked /\ shown \in [Stream -> Seq(Event)]
  /\ \A i \in DOMAIN inbox : IsStatus(inbox[i]) \/ inbox[i].stream \in Asked

AllBut(s) == {m \in Message : IsStatus(m) \/ m.stream # s \/ m.event.kind # "text"}

\* The text of stream s in the queue of the page.
Queued(s) ==
  LET texts == Without(inbox, AllBut(s))
  IN  [i \in DOMAIN texts |-> texts[i].event]

\* Through two goroutines, the response, the reader and the queue of the page, no
\* piece of an answer is lost, doubled or overtaken, unless the connection breaks:
\* then what was heard is a beginning of it.
InOrder ==
  \A s \in listening :
    LET heard == shown[s] \o Queued(s)
    IN  /\ IsPrefix(heard, Texts(said[s]))
        /\ handler[s] \in {"serving", "returned"} /\ client[s] # "cut"
             => heard \o OnTheWay(s) = Texts(said[s])

\* What the conversation holds as an answer, and sends to the provider again with
\* the next question, is all the provider said, once, after its question.
AnswersWhole ==
  \A j \in DOMAIN messages : messages[j].role = "assistant" =>
    /\ messages[j].content = Texts(said[messages[j].stream])
    /\ Cardinality({i \in DOMAIN messages : messages[i].stream = messages[j].stream}) = 2
    /\ \E i \in 1..(j - 1) : messages[i].role = "user" /\ messages[i].stream = messages[j].stream

\* What the page believes of the backend, once it has taken what is on its way, is
\* what the store holds, whenever the page was opened; the store holds what the
\* supervisor knows, unless a diagnosis wrote it last, which may be out of date until the
\* supervisor writes again; and the input is disabled only by that belief or while an
\* answer is awaited.
PageFollows ==
  /\ open => LET told == <<Status(banner)>> \o Statuses
             IN  Last(told) = Status(stored)
  /\ written \/ stored = Available
  /\ disabled => listening # {} \/ ~banner

\* A stream ends for everyone who takes part in it. For the page: by an answer, an
\* error, the loss of the backend, or because the page is gone. For the goroutine
\* that relays: whatever ends the request. For the provider's: when its answer was
\* read to the end, also after the page was closed; it may be left over when the
\* connection breaks, and of a provider that reports an error twice.
StreamsEnd ==
  \A s \in Stream :
    /\ s \in listening ~> s \notin listening
    /\ handler[s] = "serving" ~> relay[s] = Gone
    /\ s \notin Twice => (handler[s] = "serving" ~> producer[s] = Gone \/ client[s] = "cut")
=============================================================================
