-------------------------- MODULE ChatWindowProofs --------------------------
(***************************************************************************)
(* Proofs about the chat, for every set of streams, every answer, and any   *)
(* number of retries of the backend.  The invariants come in layers: the    *)
(* stages of a stream in the backend, the page, the text on its way from    *)
(* the provider to the page, and the conversation.                          *)
(***************************************************************************)
EXTENDS ChatWindow, FiltersProofs, FiniteSetTheorems

Ends == {End("done"), End("error")}

\* The provider has said all there is of the answer.
Over(s) == producer[s] = Gone \/ \E e \in Ends : producer[s] = Offers(e)

EndOffered(s) == \E e \in Ends : relay[s] = Offers(e)

\* How far a stream is, for each of those who take part in it.
Stage(s) ==
  /\ handler[s] = "off" =>
       /\ producer[s] = Off /\ relay[s] = Off /\ client[s] \in {"off", "cut"}
       /\ wire[s] = << >> /\ said[s] = << >>
  /\ handler[s] # "off" => producer[s] # Off /\ relay[s] # Off
  /\ client[s] = "off" => handler[s] = "off"
  /\ handler[s] = "serving" => client[s] # "over" /\ (relay[s] = Gone => client[s] = "cut")
  /\ handler[s] = "returned" /\ client[s] # "cut" => relay[s] = Gone /\ Over(s)
  /\ EndOffered(s) => Over(s)
  /\ wire[s] # << >> => client[s] = "reading"
  /\ \A i \in DOMAIN wire[s] :
       IsEnd(wire[s][i]) => i = Len(wire[s]) /\ handler[s] = "returned"

Stages == \A s \in Stream : Stage(s)

StreamInv == StreamTypeOK /\ Stages

-----------------------------------------------------------------------------
(* Goroutines and events *)

\* What a goroutine does is told by its state.
LEMMA Goroutines ==
  /\ Off # Free /\ Off # Gone /\ Free # Gone
  /\ \A e : Offers(e) # Off /\ Offers(e) # Free /\ Offers(e) # Gone
  /\ \A e, f : Offers(e) = Offers(f) => e = f
  /\ \A e : Offers(e)[2] = e /\ Offered(Offers(e)) = <<e>>
  /\ Offered(Off) = << >> /\ Offered(Free) = << >> /\ Offered(Gone) = << >>
BY DEF Off, Free, Gone, State, Offers, Offered

Goroutine == {Off, Free, Gone} \cup {Offers(e) : e \in Event}

\* A goroutine that offers something offers an event.
LEMMA OfferIsEvent ==
  ASSUME NEW g \in Goroutine, Offered(g) # << >>
  PROVE  \E e \in Event : g = Offers(e) /\ g[2] = e
BY Goroutines DEF Goroutine

\* The events that end an answer, and those that do not.
LEMMA EventKinds ==
  /\ \A e \in Event : /\ e.kind \in {"text", "blank", "done", "error"}
                      /\ IsEnd(e) <=> e \in Ends
                      /\ e.kind = "done" <=> e = End("done")
                      /\ e.kind = "error" <=> e = End("error")
  /\ Ends \subseteq Event /\ \A e \in Ends : IsEnd(e)
  /\ End("done").kind = "done" /\ End("error").kind = "error"
BY DEF Event, Ends, End, IsEnd

\* What the provider says next is an event.
LEMMA PieceIsEvent ==
  ASSUME NEW s \in Stream, NEW n \in 1..Len(Answer[s])
  PROVE  [kind |-> Answer[s][n], n |-> n] \in Event
<1>1. Answer[s] \in Seq({"text", "blank"})
  BY AnswersArePieces
<1>2. n \in DOMAIN Answer[s] /\ Answer[s][n] \in {"text", "blank"}
  BY <1>1
<1> QED BY <1>2 DEF Event

\* After an end nothing is said, but for an end once more.
LEMMA AfterOfferIs ==
  ASSUME NEW s, NEW e \in Event
  PROVE  /\ AfterOffer(s, e) \in Goroutine /\ AfterOffer(s, e) # Off
         /\ e \notin Ends => AfterOffer(s, e) = Free
         /\ e \in Ends => AfterOffer(s, e) = Gone \/ AfterOffer(s, e) = Offers(End("done"))
<1>1. ASSUME e \notin Ends
      PROVE  AfterOffer(s, e) = Free
  <2>1. ~(e.kind \in {"done", "error"}) /\ e.kind # "error"
    BY <1>1, EventKinds DEF Ends
  <2> QED BY <2>1 DEF AfterOffer, IsEnd
<1>2. ASSUME e \in Ends
      PROVE  AfterOffer(s, e) = Gone \/ AfterOffer(s, e) = Offers(End("done"))
  <2>1. e.kind \in {"done", "error"}
    BY <1>2 DEF Ends, End
  <2> QED BY <2>1 DEF AfterOffer, IsEnd
<1>3. End("done") \in Event
  BY EventKinds DEF Ends
<1> QED BY <1>1, <1>2, <1>3, Goroutines DEF Goroutine

StreamTyped ==
  /\ producer \in [Stream -> Goroutine] /\ relay \in [Stream -> Goroutine]
  /\ said \in [Stream -> Seq(Event)] /\ wire \in [Stream -> Seq(Event)]
  /\ handler \in [Stream -> {"off", "serving", "returned", "died"}]
  /\ client \in [Stream -> {"off", "reading", "over", "cut"}]

\* The types, variable by variable.
LEMMA StreamTypes ==
  (StreamTypeOK <=> StreamTyped) /\ (StreamTypeOK' <=> StreamTyped')
BY DEF StreamTypeOK, StreamTyped, Goroutine

-----------------------------------------------------------------------------
(* What the steps of a stream do to it *)

\* Nothing of stream t changes.
Unmoved(t) ==
  /\ said'[t] = said[t] /\ producer'[t] = producer[t] /\ relay'[t] = relay[t]
  /\ handler'[t] = handler[t] /\ wire'[t] = wire[t] /\ client'[t] = client[t]

Alone(s) == \A t \in Stream \ {s} : Unmoved(t)

Opened(s) ==
  /\ producer'[s] = Free /\ relay'[s] = Free
  /\ handler'[s] = "serving" /\ client'[s] = "reading"
  /\ said'[s] = said[s] /\ wire'[s] = wire[s]

RefusedIs(s) ==
  /\ client'[s] = "cut"
  /\ said'[s] = said[s] /\ producer'[s] = producer[s] /\ relay'[s] = relay[s]
  /\ handler'[s] = handler[s] /\ wire'[s] = wire[s]

\* The provider offers e, a piece or an end.
Said(s, e) ==
  /\ producer[s] = Free /\ producer'[s] = Offers(e)
  /\ \/ e \in Event \ Ends /\ said'[s] = Append(said[s], e)
     \/ e \in Ends /\ said'[s] = said[s]
  /\ relay'[s] = relay[s] /\ handler'[s] = handler[s]
  /\ wire'[s] = wire[s] /\ client'[s] = client[s]

Taken(s, e) ==
  /\ producer[s] = Offers(e) /\ relay[s] = Free
  /\ relay'[s] = Offers(e) /\ producer'[s] = AfterOffer(s, e)
  /\ said'[s] = said[s] /\ handler'[s] = handler[s]
  /\ wire'[s] = wire[s] /\ client'[s] = client[s]

Given(s, e) ==
  /\ relay[s] = Offers(e) /\ handler[s] = "serving"
  /\ e \in Ends => relay'[s] = Gone /\ handler'[s] = "returned"
  /\ e \notin Ends => relay'[s] = Free /\ handler'[s] = "serving"
  /\ client[s] = "reading" => wire'[s] = Append(wire[s], e)
  /\ client[s] # "reading" => wire'[s] = wire[s]
  /\ said'[s] = said[s] /\ producer'[s] = producer[s] /\ client'[s] = client[s]

Stopped(s) ==
  /\ Cancelled(s) /\ relay[s] # Off /\ relay[s] # Gone /\ relay'[s] = Gone
  /\ said'[s] = said[s] /\ producer'[s] = producer[s]
  /\ handler'[s] = handler[s] /\ wire'[s] = wire[s] /\ client'[s] = client[s]

Returned(s) ==
  /\ handler[s] = "serving" /\ client[s] = "cut" /\ handler'[s] = "returned"
  /\ said'[s] = said[s] /\ producer'[s] = producer[s] /\ relay'[s] = relay[s]
  /\ wire'[s] = wire[s] /\ client'[s] = client[s]

WasRead(s) ==
  /\ client[s] = "reading" /\ wire[s] # << >> /\ wire'[s] = Tail(wire[s])
  /\ said'[s] = said[s] /\ producer'[s] = producer[s] /\ relay'[s] = relay[s]
  /\ handler'[s] = handler[s] /\ client'[s] = client[s]

ReadToEnd(s) ==
  /\ client[s] = "reading" /\ handler[s] = "returned" /\ wire[s] = << >>
  /\ client'[s] = "over"
  /\ said'[s] = said[s] /\ producer'[s] = producer[s] /\ relay'[s] = relay[s]
  /\ handler'[s] = handler[s] /\ wire'[s] = wire[s]

WasCut(s) ==
  /\ client[s] = "reading" /\ client'[s] = "cut" /\ wire'[s] = << >>
  /\ said'[s] = said[s] /\ producer'[s] = producer[s] /\ relay'[s] = relay[s]
  /\ handler'[s] = handler[s]

\* A request that is answered.
LEMMA OpenDoes ==
  ASSUME StreamTypeOK, NEW s \in Stream, Open(s)
  PROVE  StreamTypeOK' /\ Alone(s) /\ Opened(s)
<1>1. Free \in Goroutine
  BY DEF Goroutine
<1>2. StreamTypeOK'
  BY <1>1, StreamTypes DEF StreamTyped, Open
<1> QED BY <1>2, StreamTypes DEF StreamTyped, Open, Alone, Unmoved, Opened

\* A request that is not.
LEMMA RefusedDoes ==
  ASSUME StreamTypeOK, NEW s \in Stream, Refused(s)
  PROVE  StreamTypeOK' /\ Alone(s) /\ RefusedIs(s)
<1>1. StreamTypeOK'
  BY StreamTypes DEF StreamTyped, Refused
<1> QED BY <1>1, StreamTypes DEF StreamTyped, Refused, Alone, Unmoved, RefusedIs

\* The provider goes on.
LEMMA AskDoes ==
  ASSUME StreamTypeOK, NEW s \in Stream, Ask(s)
  PROVE  StreamTypeOK' /\ Alone(s) /\ \E e \in Event : Said(s, e)
<1>1. /\ producer \in [Stream -> Goroutine] /\ said \in [Stream -> Seq(Event)]
      /\ producer[s] = Free /\ UNCHANGED <<relay, handler, wire, client>>
  BY StreamTypes DEF StreamTyped, Ask
<1>2. PICK e \in Event :
        /\ producer' = [producer EXCEPT ![s] = Offers(e)]
        /\ \/ e \notin Ends /\ said' = [said EXCEPT ![s] = Append(@, e)]
           \/ e \in Ends /\ said' = said
  <2> DEFINE n == Len(said[s]) + 1
             piece == [kind |-> Answer[s][n], n |-> n]
             Pieces == /\ n <= Len(Answer[s])
                       /\ said' = [said EXCEPT ![s] = Append(@, piece)]
                       /\ producer' = [producer EXCEPT ![s] = Offers(piece)]
             Stops == /\ \E kind \in {"done", "error"} :
                           producer' = [producer EXCEPT ![s] = Offers(End(kind))]
                      /\ UNCHANGED said
  <2>1. Pieces \/ Stops
    BY DEF Ask
  <2>2. CASE Pieces
    <3>1. n \in 1..Len(Answer[s])
      BY <1>1, <2>2, AnswersArePieces
    <3>2. Answer[s][n] \in {"text", "blank"}
      BY <3>1, AnswersArePieces
    <3>3. piece \in Event /\ piece \notin Ends
      BY <3>1, <3>2, PieceIsEvent DEF Ends, End
    <3> QED BY <2>2, <3>3
  <2>3. CASE Stops
    <3>1. PICK kind \in {"done", "error"} : producer' = [producer EXCEPT ![s] = Offers(End(kind))]
      BY <2>3
    <3> QED BY <2>3, <3>1, EventKinds DEF Ends
  <2> QED BY <2>1, <2>2, <2>3
<1>3. Offers(e) \in Goroutine
  BY DEF Goroutine
<1>4. said' \in [Stream -> Seq(Event)] /\ producer' \in [Stream -> Goroutine]
  <2>1. Append(said[s], e) \in Seq(Event)
    BY <1>1, AppendProperties
  <2> QED BY <1>1, <1>2, <1>3, <2>1
<1>5. StreamTypeOK'
  BY <1>1, <1>4, StreamTypes DEF StreamTyped
<1>6. Alone(s)
  BY <1>1, <1>2 DEF Alone, Unmoved
<1>7. Said(s, e)
  BY <1>1, <1>2 DEF Said
<1> QED BY <1>5, <1>6, <1>7

\* The relay takes the event on offer.
LEMMA RelayTakesDoes ==
  ASSUME StreamTypeOK, NEW s \in Stream, RelayTakes(s)
  PROVE  StreamTypeOK' /\ Alone(s) /\ \E e \in Event : Taken(s, e)
<1>1. /\ producer \in [Stream -> Goroutine] /\ relay \in [Stream -> Goroutine]
      /\ relay[s] = Free /\ UNCHANGED <<said, handler, wire, client>>
  BY StreamTypes DEF StreamTyped, RelayTakes
<1>2. PICK e \in Event : producer[s] = Offers(e) /\ producer[s][2] = e
  BY <1>1, OfferIsEvent DEF RelayTakes
<1>3. /\ relay' = [relay EXCEPT ![s] = Offers(e)]
      /\ producer' = [producer EXCEPT ![s] = AfterOffer(s, e)]
  BY <1>1, <1>2 DEF RelayTakes
<1>4. Offers(e) \in Goroutine /\ AfterOffer(s, e) \in Goroutine
  BY AfterOfferIs DEF Goroutine
<1>5. StreamTypeOK'
  BY <1>1, <1>3, <1>4, StreamTypes DEF StreamTyped
<1>6. Alone(s)
  BY <1>1, <1>3 DEF Alone, Unmoved
<1>7. Taken(s, e)
  BY <1>1, <1>2, <1>3 DEF Taken
<1> QED BY <1>5, <1>6, <1>7

\* The handler takes it from the relay, and writes it.
LEMMA RelayGivesDoes ==
  ASSUME StreamTypeOK, NEW s \in Stream, RelayGives(s)
  PROVE  StreamTypeOK' /\ Alone(s) /\ \E e \in Event : Given(s, e)
<1>1. /\ relay \in [Stream -> Goroutine] /\ wire \in [Stream -> Seq(Event)]
      /\ handler \in [Stream -> {"off", "serving", "returned", "died"}]
      /\ handler[s] = "serving" /\ UNCHANGED <<said, producer, client>>
  BY StreamTypes DEF StreamTyped, RelayGives
<1>2. PICK e \in Event : relay[s] = Offers(e) /\ relay[s][2] = e
  BY <1>1, OfferIsEvent DEF RelayGives
<1>3. IsEnd(e) <=> e \in Ends
  BY EventKinds
<1>4. /\ e \in Ends => relay' = [relay EXCEPT ![s] = Gone]
                       /\ handler' = [handler EXCEPT ![s] = "returned"]
      /\ e \notin Ends => relay' = [relay EXCEPT ![s] = Free] /\ handler' = handler
      /\ client[s] = "reading" => wire' = [wire EXCEPT ![s] = Append(@, e)]
      /\ client[s] # "reading" => wire' = wire
  BY <1>1, <1>2, <1>3 DEF RelayGives
<1>5. Free \in Goroutine /\ Gone \in Goroutine
  BY DEF Goroutine
<1>6. StreamTypeOK'
  <2>1. relay' \in [Stream -> Goroutine]
    BY <1>1, <1>4, <1>5
  <2>2. handler' \in [Stream -> {"off", "serving", "returned", "died"}]
    BY <1>1, <1>4
  <2>3. wire' \in [Stream -> Seq(Event)]
    <3>1. Append(wire[s], e) \in Seq(Event)
      BY <1>1, AppendProperties
    <3> QED BY <1>1, <1>4, <3>1
  <2> QED BY <1>1, <2>1, <2>2, <2>3, StreamTypes DEF StreamTyped
<1>7. Alone(s)
  BY <1>1, <1>4 DEF Alone, Unmoved
<1>8. Given(s, e)
  BY <1>1, <1>2, <1>4 DEF Given
<1> QED BY <1>6, <1>7, <1>8

\* The relay gives up with the request.
LEMMA RelayStopsDoes ==
  ASSUME StreamTypeOK, NEW s \in Stream, RelayStops(s)
  PROVE  StreamTypeOK' /\ Alone(s) /\ Stopped(s)
<1>1. Gone \in Goroutine
  BY DEF Goroutine
<1>2. StreamTypeOK'
  BY <1>1, StreamTypes DEF StreamTyped, RelayStops
<1> QED BY <1>2, StreamTypes DEF StreamTyped, RelayStops, Alone, Unmoved, Stopped

\* So does the handler.
LEMMA HandlerStopsDoes ==
  ASSUME StreamTypeOK, NEW s \in Stream, HandlerStops(s)
  PROVE  StreamTypeOK' /\ Alone(s) /\ Returned(s)
<1>1. StreamTypeOK'
  BY StreamTypes DEF StreamTyped, HandlerStops
<1> QED BY <1>1, StreamTypes DEF StreamTyped, HandlerStops, Alone, Unmoved, Returned

\* The client reads the next event.
LEMMA ReadDoes ==
  ASSUME StreamTypeOK, NEW s \in Stream, Read(s)
  PROVE  StreamTypeOK' /\ Alone(s) /\ WasRead(s)
<1>1. StreamTypeOK'
  BY StreamTypes DEF StreamTyped, Read
<1> QED BY <1>1, StreamTypes DEF StreamTyped, Read, Alone, Unmoved, WasRead

\* The client finds the end of the response.
LEMMA ReadEndDoes ==
  ASSUME StreamTypeOK, NEW s \in Stream, ReadEnd(s)
  PROVE  StreamTypeOK' /\ Alone(s) /\ ReadToEnd(s)
<1>1. StreamTypeOK'
  BY StreamTypes DEF StreamTyped, ReadEnd
<1> QED BY <1>1, StreamTypes DEF StreamTyped, ReadEnd, Alone, Unmoved, ReadToEnd

\* The connection breaks, and what was on it is lost.
LEMMA CutDoes ==
  ASSUME StreamTypeOK, NEW s \in Stream, Cut(s)
  PROVE  StreamTypeOK' /\ Alone(s) /\ WasCut(s)
<1>1. StreamTypeOK'
  BY StreamTypes DEF StreamTyped, Cut
<1> QED BY <1>1, StreamTypes DEF StreamTyped, Cut, Alone, Unmoved, WasCut

\* With the backend go its goroutines, and nothing else.
LEMMA BackendDiesDoes ==
  ASSUME StreamTypeOK, BackendDies
  PROVE  /\ StreamTypeOK' /\ UNCHANGED <<said, wire, client>>
         /\ \A s \in Stream :
              /\ handler[s] = "off" => producer'[s] = producer[s] /\ relay'[s] = relay[s]
              /\ handler[s] # "off" => producer'[s] = Gone /\ relay'[s] = Gone
              /\ handler[s] = "serving" => handler'[s] = "died"
              /\ handler[s] # "serving" => handler'[s] = handler[s]
<1>1. Gone \in Goroutine
  BY DEF Goroutine
<1>2. StreamTypeOK'
  BY <1>1, StreamTypes DEF StreamTyped, BackendDies
<1> QED BY <1>2, StreamTypes DEF StreamTyped, BackendDies

-----------------------------------------------------------------------------
(* The stages of a stream *)

\* A stream of which nothing changes stays where it is.
LEMMA UnmovedKeepsStage ==
  ASSUME NEW t \in Stream, Stage(t), Unmoved(t)
  PROVE  Stage(t)'
BY DEF Stage, Unmoved, Over, EndOffered

\* So only the stream that moves matters.
LEMMA OneMoves ==
  ASSUME Stages, NEW s \in Stream, Alone(s), Stage(s)'
  PROVE  Stages'
BY UnmovedKeepsStage DEF Stages, Alone

\* A stream is opened or refused once.
LEMMA OpenStage ==
  ASSUME NEW s \in Stream, Stage(s), client[s] = "off", Opened(s)
  PROVE  Stage(s)'
BY Goroutines DEF Stage, Opened, Over, EndOffered

\* A request that is refused starts nothing in the backend.
LEMMA RefusedStage ==
  ASSUME NEW s \in Stream, Stage(s), client[s] = "off", RefusedIs(s)
  PROVE  Stage(s)'
BY Goroutines DEF Stage, RefusedIs, Over, EndOffered

\* Only a provider that has not ended goes on.
LEMMA AskStage ==
  ASSUME NEW s \in Stream, Stage(s), NEW e \in Event, Said(s, e)
  PROVE  Stage(s)'
<1>1. ~Over(s) /\ producer[s] # Off
  BY Goroutines DEF Said, Over
<1>2. ~EndOffered(s) /\ handler[s] # "off" /\ ~(handler[s] = "returned" /\ client[s] # "cut")
  BY <1>1 DEF Stage
<1>3. producer'[s] # Off
  BY Goroutines DEF Said
<1> QED BY <1>1, <1>2, <1>3 DEF Stage, Said, EndOffered

\* An end is offered on once nothing follows it.
LEMMA TakenStage ==
  ASSUME NEW s \in Stream, Stage(s), NEW e \in Event, Taken(s, e)
  PROVE  Stage(s)'
<1>1. producer[s] # Off /\ relay[s] # Gone /\ relay'[s] # Off /\ relay'[s] # Gone
  BY Goroutines DEF Taken
<1>2. handler[s] # "off" /\ ~(handler[s] = "returned" /\ client[s] # "cut")
  BY <1>1 DEF Stage
<1>3. producer'[s] # Off
  BY AfterOfferIs DEF Taken
<1>4. EndOffered(s)' => Over(s)'
  <2> SUFFICES ASSUME EndOffered(s)'
               PROVE  Over(s)'
    OBVIOUS
  <2>1. e \in Ends
    BY Goroutines DEF EndOffered, Taken
  <2>2. producer'[s] = Gone \/ producer'[s] = Offers(End("done"))
    BY <2>1, AfterOfferIs DEF Taken
  <2> QED BY <2>2 DEF Over, Ends
<1> QED BY <1>1, <1>2, <1>3, <1>4 DEF Stage, Taken

\* The end of an answer is the last that is written.
LEMMA GivenStage ==
  ASSUME StreamTypeOK, NEW s \in Stream, Stage(s), NEW e \in Event, Given(s, e)
  PROVE  Stage(s)'
<1>1. wire[s] \in Seq(Event) /\ (IsEnd(e) <=> e \in Ends)
  BY StreamTypes, EventKinds DEF StreamTyped
<1>2. e \in Ends => Over(s)
  BY DEF Stage, EndOffered, Given
<1>3. Over(s)' <=> Over(s)
  BY DEF Over, Given
<1>4. relay'[s] # Off /\ ~EndOffered(s)' /\ producer[s] # Off /\ (e \notin Ends => relay'[s] # Gone)
  BY Goroutines DEF Stage, Given, EndOffered
<1>5. handler'[s] \in {"serving", "returned"} /\ (handler'[s] = "returned" <=> e \in Ends)
  BY DEF Given
<1>6. wire'[s] # << >> => client'[s] = "reading"
  BY DEF Stage, Given
<1>7. ASSUME NEW i \in DOMAIN wire'[s], IsEnd(wire'[s][i])
      PROVE  i = Len(wire'[s]) /\ handler'[s] = "returned"
  <2>1. \A k \in DOMAIN wire[s] : ~IsEnd(wire[s][k])
    BY DEF Stage, Given
  <2>2. wire'[s] = Append(wire[s], e)
    BY <1>7, <2>1 DEF Given
  <2>3. i \in DOMAIN wire[s] \/ i = Len(wire'[s])
    BY <1>1, <1>7, <2>2
  <2>4. i \in DOMAIN wire[s] => wire'[s][i] = wire[s][i]
    BY <1>1, <2>2
  <2>5. i = Len(wire'[s]) /\ wire'[s][i] = e
    BY <1>1, <1>7, <2>1, <2>2, <2>3, <2>4
  <2> QED BY <1>1, <1>5, <1>7, <2>5
<1>8. client'[s] # "off" /\ client'[s] # "over"
  BY DEF Stage, Given
<1> QED BY <1>2, <1>3, <1>4, <1>5, <1>6, <1>7, <1>8 DEF Stage, Given

\* A relay that gives up does so with the request.
LEMMA StoppedStage ==
  ASSUME NEW s \in Stream, Stage(s), Stopped(s)
  PROVE  Stage(s)'
<1>1. ~(handler[s] = "returned" /\ client[s] # "cut") /\ handler[s] # "off"
  BY DEF Stage, Stopped
<1>2. handler[s] = "serving" => client[s] = "cut"
  BY DEF Stage, Stopped, Cancelled
<1>3. ~EndOffered(s)' /\ Gone # Off
  BY Goroutines DEF Stopped, EndOffered
<1> QED BY <1>1, <1>2, <1>3 DEF Stage, Stopped

\* So does the handler.
LEMMA ReturnedStage ==
  ASSUME NEW s \in Stream, Stage(s), Returned(s)
  PROVE  Stage(s)'
BY DEF Stage, Returned, Over, EndOffered

\* Reading takes the first event, so that the last stays last.
LEMMA ReadStage ==
  ASSUME StreamTypeOK, NEW s \in Stream, Stage(s), WasRead(s)
  PROVE  Stage(s)'
<1>1. wire[s] \in Seq(Event) /\ wire[s] # << >> /\ wire'[s] = Tail(wire[s])
  BY StreamTypes DEF StreamTyped, WasRead
<1>2. /\ Len(wire'[s]) = Len(wire[s]) - 1
      /\ \A i \in DOMAIN wire'[s] : i + 1 \in DOMAIN wire[s] /\ wire'[s][i] = wire[s][i + 1]
  BY <1>1
<1>3. ASSUME NEW i \in DOMAIN wire'[s], IsEnd(wire'[s][i])
      PROVE  i = Len(wire'[s]) /\ handler'[s] = "returned"
  <2>1. i + 1 = Len(wire[s]) /\ handler[s] = "returned"
    BY <1>2, <1>3 DEF Stage
  <2>2. i \in Nat /\ Len(wire[s]) \in Nat
    BY <1>1, <1>3
  <2> QED BY <1>2, <2>1, <2>2 DEF WasRead
<1> QED BY <1>3 DEF Stage, WasRead, Over, EndOffered

\* The end of the response is found when it was written to its end.
LEMMA ReadEndStage ==
  ASSUME NEW s \in Stream, Stage(s), ReadToEnd(s)
  PROVE  Stage(s)'
BY DEF Stage, ReadToEnd, Over, EndOffered

\* A connection breaks while it is read.
LEMMA CutStage ==
  ASSUME NEW s \in Stream, Stage(s), WasCut(s)
  PROVE  Stage(s)'
<1>1. DOMAIN << >> = {}
  OBVIOUS
<1> QED BY <1>1 DEF Stage, WasCut, Over, EndOffered

\* What a page asks of the streams and what they do by themselves.
StreamStep(s) ==
  \/ client[s] = "off" /\ (Open(s) \/ Refused(s))
  \/ BackendStep(s) \/ Read(s) \/ ReadEnd(s) \/ Cut(s)

Streaming == BackendDies \/ (\E s \in Stream : StreamStep(s)) \/ UNCHANGED streams

\* Every step of one stream keeps the stages of all.
LEMMA StepKeepsStreams ==
  ASSUME StreamInv, NEW s \in Stream, StreamStep(s)
  PROVE  StreamInv'
<1> USE DEF StreamInv
<1>0. Stage(s)
  BY DEF Stages
<1>1. CASE client[s] = "off" /\ Open(s)
  BY <1>0, <1>1, OpenDoes, OpenStage, OneMoves
<1>2. CASE client[s] = "off" /\ Refused(s)
  BY <1>0, <1>2, RefusedDoes, RefusedStage, OneMoves
<1>3. CASE Ask(s)
  BY <1>0, <1>3, AskDoes, AskStage, OneMoves
<1>4. CASE RelayTakes(s)
  BY <1>0, <1>4, RelayTakesDoes, TakenStage, OneMoves
<1>5. CASE RelayGives(s)
  BY <1>0, <1>5, RelayGivesDoes, GivenStage, OneMoves
<1>6. CASE RelayStops(s)
  BY <1>0, <1>6, RelayStopsDoes, StoppedStage, OneMoves
<1>7. CASE HandlerStops(s)
  BY <1>0, <1>7, HandlerStopsDoes, ReturnedStage, OneMoves
<1>8. CASE Read(s)
  BY <1>0, <1>8, ReadDoes, ReadStage, OneMoves
<1>9. CASE ReadEnd(s)
  BY <1>0, <1>9, ReadEndDoes, ReadEndStage, OneMoves
<1>10. CASE Cut(s)
  BY <1>0, <1>10, CutDoes, CutStage, OneMoves
<1> QED
  BY <1>1, <1>2, <1>3, <1>4, <1>5, <1>6, <1>7, <1>8, <1>9, <1>10 DEF StreamStep, BackendStep

\* The stages hold from the start, and through the death of the backend.
LEMMA StreamsStay == StreamInv /\ Streaming => StreamInv'
<1> SUFFICES ASSUME StreamInv, Streaming
             PROVE  StreamInv'
  OBVIOUS
<1>1. CASE BackendDies
  <2>1. ASSUME NEW s \in Stream
        PROVE  Stage(s)'
    <3>1. Stage(s)
      BY DEF StreamInv, Stages
    <3>2. handler'[s] # "serving" /\ client'[s] = client[s] /\ wire'[s] = wire[s] /\ said'[s] = said[s]
      BY <1>1, BackendDiesDoes DEF StreamInv
    <3>3. CASE handler[s] = "off"
      <4>1. producer'[s] = producer[s] /\ relay'[s] = relay[s] /\ handler'[s] = handler[s]
        BY <1>1, <3>3, BackendDiesDoes DEF StreamInv
      <4> QED BY <3>1, <3>2, <4>1 DEF Stage, Over, EndOffered
    <3>4. CASE handler[s] # "off"
      <4>1. /\ producer'[s] = Gone /\ relay'[s] = Gone /\ handler'[s] # "off"
            /\ handler[s] = "returned" => handler'[s] = "returned"
        BY <1>1, <3>4, BackendDiesDoes DEF StreamInv
      <4>2. Over(s)' /\ ~EndOffered(s)' /\ Gone # Off
        BY <4>1, Goroutines DEF Over, EndOffered
      <4> QED BY <3>1, <3>2, <3>4, <4>1, <4>2 DEF Stage
    <3> QED BY <3>3, <3>4
  <2>2. StreamTypeOK'
    BY <1>1, BackendDiesDoes DEF StreamInv
  <2> QED BY <2>1, <2>2 DEF StreamInv, Stages
<1>2. CASE \E s \in Stream : StreamStep(s)
  BY <1>2, StepKeepsStreams
<1>3. CASE UNCHANGED streams
  <2>1. StreamTypeOK'
    BY <1>3, StreamTypes DEF StreamTyped, streams, StreamInv
  <2>2. Stages'
    BY <1>3, UnmovedKeepsStage DEF streams, Unmoved, Stages, StreamInv
  <2> QED BY <2>1, <2>2 DEF StreamInv
<1> QED BY <1>1, <1>2, <1>3 DEF Streaming

\* Before any question no stream has started.
LEMMA StreamsStart == StreamInit => StreamInv
<1> SUFFICES ASSUME StreamInit
             PROVE  StreamInv
  OBVIOUS
<1>1. Off \in Goroutine /\ << >> \in Seq(Event) /\ DOMAIN << >> = {}
  BY DEF Goroutine
<1>2. StreamTypeOK
  BY <1>1, StreamTypes DEF StreamTyped, StreamInit
<1>3. ASSUME NEW s \in Stream
      PROVE  Stage(s)
  BY <1>1, Goroutines DEF Stage, StreamInit, EndOffered
<1> QED BY <1>2, <1>3 DEF StreamInv, Stages

-----------------------------------------------------------------------------
(* Sequences and messages *)

\* A sequence with one element more at its end.
LEMMA OneMore ==
  ASSUME NEW T, NEW old \in Seq(T), NEW x \in T, NEW new, new = old \o <<x>>
  PROVE  /\ new \in Seq(T) /\ new # << >> /\ Len(new) = Len(old) + 1
         /\ \A i \in DOMAIN old : i \in DOMAIN new /\ new[i] = old[i]
         /\ \A i \in DOMAIN new : \/ i \in DOMAIN old /\ new[i] = old[i]
                                  \/ i = Len(new) /\ i \notin DOMAIN old /\ new[i] = x
         /\ Len(new) \in DOMAIN new /\ new[Len(new)] = x /\ new = Append(old, x)
<1>1. new = Append(old, x)
  BY AppendIsConcat
<1>2. new \in Seq(T) /\ new # << >> /\ Len(new) = Len(old) + 1
  BY <1>1, AppendProperties
<1>3. \A i \in DOMAIN old : i \in DOMAIN new /\ new[i] = old[i]
  BY <1>1, <1>2
<1>4. Len(new) \in DOMAIN new /\ new[Len(new)] = x
  BY <1>1, <1>2
<1>5. \A i \in DOMAIN new : i \in DOMAIN old \/ (i = Len(new) /\ i \notin DOMAIN old)
  BY <1>1, <1>2
<1> QED BY <1>1, <1>2, <1>3, <1>4, <1>5

\* A sequence without its first element.
LEMMA OneLess ==
  ASSUME NEW T, NEW old \in Seq(T), old # << >>, NEW new, new = Tail(old)
  PROVE  /\ new \in Seq(T) /\ Head(old) \in T /\ Head(old) = old[1] /\ 1 \in DOMAIN old
         /\ old = <<Head(old)>> \o new /\ Len(old) = Len(new) + 1
         /\ \A i \in DOMAIN new : i + 1 \in DOMAIN old /\ new[i] = old[i + 1]
         /\ \A i \in DOMAIN old : i = 1 \/ (i - 1 \in DOMAIN new /\ old[i] = new[i - 1])
<1>1. new \in Seq(T) /\ Head(old) \in T /\ Head(old) = old[1] /\ 1 \in DOMAIN old
  OBVIOUS
<1>2. Len(old) = Len(new) + 1 /\ \A i \in DOMAIN new : i + 1 \in DOMAIN old /\ new[i] = old[i + 1]
  OBVIOUS
<1>3. \A i \in DOMAIN old : i = 1 \/ (i - 1 \in DOMAIN new /\ old[i] = new[i - 1])
  BY <1>2
<1>4. old = <<Head(old)>> \o new
  <2> DEFINE one == <<Head(old)>>
  <2>1. one \in Seq(T) /\ Len(one) = 1 /\ one[1] = old[1]
    BY <1>1
  <2> HIDE DEF one
  <2>2. /\ one \o new \in Seq(T) /\ Len(one \o new) = Len(one) + Len(new)
        /\ \A i \in 1..Len(one) + Len(new) :
             (one \o new)[i] = IF i <= Len(one) THEN one[i] ELSE new[i - Len(one)]
    BY <1>1, <2>1, ConcatProperties
  <2>3. \A i \in 1..Len(old) : (one \o new)[i] = old[i]
    BY <1>1, <1>2, <1>3, <2>1, <2>2
  <2>4. Len(one \o new) = Len(old) /\ \A i \in 1..Len(one \o new) : (one \o new)[i] = old[i]
    BY <1>1, <1>2, <2>1, <2>2, <2>3
  <2>5. one \o new = old
    BY <2>2, <2>4, SeqEqual
  <2> QED BY <2>5 DEF one
<1> QED BY <1>1, <1>2, <1>3, <1>4

\* The two kinds of messages.
LEMMA Messages ==
  /\ \A b : IsStatus(Status(b)) /\ Status(b).available = b
  /\ \A s, e : /\ ~IsStatus(OfStream(s, e))
               /\ OfStream(s, e).stream = s /\ OfStream(s, e).event = e
  /\ \A b \in BOOLEAN : Status(b) \in Message /\ Status(b) \notin StreamMessage
  /\ \A s \in Stream, e \in Event : OfStream(s, e) \in Message /\ OfStream(s, e) \in StreamMessage
  /\ \A m \in Message : \/ \E b \in BOOLEAN : m = Status(b)
                        \/ \E s \in Stream, e \in Event : m = OfStream(s, e)
<1>1. \A b : Status(b).kind = "status" /\ Status(b).available = b
  BY DEF Status
<1>2. \A s, e : /\ OfStream(s, e).kind = "stream"
                 /\ OfStream(s, e).stream = s /\ OfStream(s, e).event = e
  BY DEF OfStream
<1>3. \A b \in BOOLEAN : Status(b) \notin StreamMessage
  BY <1>1, <1>2 DEF StreamMessage
<1>4. \A m \in Message : \/ \E b \in BOOLEAN : m = Status(b)
                        \/ \E s \in Stream, e \in Event : m = OfStream(s, e)
  BY DEF Message, StreamMessage
<1>5. \A b \in BOOLEAN : Status(b) \in Message
  BY DEF Message
<1>6. \A s \in Stream, e \in Event : OfStream(s, e) \in Message /\ OfStream(s, e) \in StreamMessage
  BY DEF Message, StreamMessage
<1> QED BY <1>1, <1>2, <1>3, <1>4, <1>5, <1>6 DEF IsStatus

\* Who has asked when a message was added to the conversation.
LEMMA AskedMore ==
  ASSUME messages \in Seq(Bubble), NEW m \in Bubble, messages' = Append(messages, m)
  PROVE  /\ m.role = "user" => Asked' = Asked \cup {m.stream}
         /\ m.role # "user" => Asked' = Asked
<1>1. /\ DOMAIN messages' = DOMAIN messages \cup {Len(messages) + 1}
      /\ messages'[Len(messages) + 1] = m
      /\ \A i \in DOMAIN messages : messages'[i] = messages[i]
  BY AppendProperties
<1> QED BY <1>1 DEF Asked

\* The two kinds of what is in a conversation.
LEMMA Bubbles ==
  /\ \A s \in Stream : [role |-> "user", stream |-> s] \in Bubble
  /\ \A s \in Stream, c \in Seq(Event) :
       [role |-> "assistant", stream |-> s, content |-> c] \in Bubble
  /\ \A m \in Bubble : /\ m.stream \in Stream /\ m.role \in {"user", "assistant"}
                       /\ m.role = "assistant" => m.content \in Seq(Event)
BY DEF Bubble

-----------------------------------------------------------------------------
(* The page *)

\* There is nothing of a page that is closed.
Closed ==
  ~open => /\ inbox = << >> /\ listening = {} /\ messages = << >> /\ ~disabled /\ banner
           /\ \A s \in Stream : shown[s] = << >>

\* Nothing has come of a stream that was not asked for.
Fresh == \A s \in Stream : client[s] = "off" => shown[s] = << >> /\ s \notin Asked

NoBlanks == \A i \in DOMAIN inbox : IsStatus(inbox[i]) \/ inbox[i].event.kind # "blank"

PageInv == StreamInv /\ TypeOK /\ Closed /\ Fresh /\ NoBlanks

BackendTyped ==
  /\ phase \in {"down", "starting", "up", "waiting"} /\ attempts \in 0..MaxAttempts
  /\ stored \in BOOLEAN /\ written \in BOOLEAN /\ reports \subseteq BOOLEAN

PageTyped ==
  /\ BackendTyped
  /\ open \in BOOLEAN /\ disabled \in BOOLEAN /\ banner \in BOOLEAN
  /\ inbox \in Seq(Message) /\ messages \in Seq(Bubble)
  /\ listening \subseteq Asked /\ shown \in [Stream -> Seq(Event)]
  /\ \A i \in DOMAIN inbox : IsStatus(inbox[i]) \/ inbox[i].stream \in Asked

\* The types are those of the streams and those of the page.
LEMMA PageTypes ==
  (TypeOK <=> StreamTypeOK /\ PageTyped) /\ (TypeOK' <=> StreamTypeOK' /\ PageTyped')
BY DEF TypeOK, PageTyped, BackendTyped

\* Nothing was heard of the backend.
LEMMA BackendStays ==
  ASSUME PageInv, UNCHANGED <<backend, store>>
  PROVE  BackendTyped'
BY PageTypes DEF PageInv, PageTyped, BackendTyped, backend, store

\* Only an open page asks.
LEMMA AskedOpens ==
  ASSUME PageInv, NEW s \in Asked
  PROVE  open /\ s \in Stream /\ client[s] # "off"
<1>1. messages \in Seq(Bubble) /\ open \in BOOLEAN
  BY PageTypes DEF PageInv, PageTyped
<1>2. PICK i \in DOMAIN messages : messages[i].role = "user" /\ messages[i].stream = s
  BY DEF Asked
<1>3. s \in Stream
  BY <1>1, <1>2, Bubbles
<1>4. messages # << >>
  BY <1>2
<1> QED BY <1>1, <1>3, <1>4 DEF PageInv, Closed, Fresh

\* What becomes of the head of the queue.
TakenStatus ==
  \E b \in BOOLEAN : Head(inbox) = Status(b) /\ TakesStatus(b)
TakenText ==
  \E s \in listening, e \in Event :
    Head(inbox) = OfStream(s, e) /\ e.kind = "text" /\ TakesText(s, e)
TakenDone == \E s \in listening : Head(inbox) = OfStream(s, End("done")) /\ TakesDone(s)
TakenError == \E s \in listening : Head(inbox) = OfStream(s, End("error")) /\ TakesError(s)
Ignored ==
  /\ \E s \in Stream \ listening, e \in Event : Head(inbox) = OfStream(s, e)
  /\ UNCHANGED <<listening, shown, messages, disabled, banner>>

\* The page takes the first message of its queue, in one of five ways.
LEMMA DeliverDoes ==
  ASSUME PageInv, Deliver
  PROVE  /\ inbox # << >> /\ inbox' = Tail(inbox) /\ UNCHANGED <<open, streams, backend, store>>
         /\ TakenStatus \/ TakenText \/ TakenDone \/ TakenError \/ Ignored
<1>1. inbox # << >> /\ inbox' = Tail(inbox) /\ UNCHANGED <<open, streams, backend, store>>
  BY DEF Deliver
<1>2. inbox \in Seq(Message) /\ Head(inbox) = inbox[1] /\ 1 \in DOMAIN inbox /\ Head(inbox) \in Message
  BY <1>1, PageTypes, OneLess DEF PageInv, PageTyped
<1>3. CASE IsStatus(Head(inbox))
  <2>1. PICK b \in BOOLEAN : Head(inbox) = Status(b)
    BY <1>2, <1>3, Messages
  <2>2. TakesStatus(Head(inbox).available)
    BY <1>3 DEF Deliver
  <2>3. Head(inbox).available = b
    BY <2>1, Messages
  <2> QED BY <1>1, <2>1, <2>2, <2>3 DEF TakenStatus
<1>4. CASE ~IsStatus(Head(inbox))
  <2>1. PICK s \in Stream, e \in Event : Head(inbox) = OfStream(s, e)
    BY <1>2, <1>4, Messages
  <2>2. Head(inbox).stream = s /\ Head(inbox).event = e
    BY <2>1, Messages
  <2>3. e.kind \in {"text", "done", "error"}
    BY <1>2, <1>4, <2>2, EventKinds DEF PageInv, NoBlanks
  <2>4. CASE s \notin listening
    BY <1>1, <1>4, <2>1, <2>2, <2>4 DEF Deliver, Ignored
  <2>5. CASE s \in listening
    <3>1. /\ e.kind = "text" => TakesText(s, e)
          /\ e.kind = "done" => TakesDone(s)
          /\ e.kind = "error" => TakesError(s)
      BY <1>4, <2>2, <2>3, <2>5 DEF Deliver
    <3> QED
      BY <1>1, <2>1, <2>3, <2>5, <3>1, EventKinds DEF TakenText, TakenDone, TakenError
  <2> QED BY <2>4, <2>5
<1> QED BY <1>3, <1>4

\* One message is sent to a page, if there is one.
LEMMA SentDoes ==
  ASSUME NEW m, Sent(<<m>>)
  PROVE  (open => inbox' = inbox \o <<m>>) /\ (~open => inbox' = inbox)
BY DEF Sent

\* What is heard of a stream goes to the page that asked.
LEMMA ForwardDoes ==
  ASSUME PageInv, NEW s \in Stream, NEW e, Forward(s, <<e>>)
  PROVE  /\ s \in Asked => inbox' = inbox \o <<OfStream(s, e)>>
         /\ s \notin Asked => inbox' = inbox
<1>1. ASSUME s \in Asked
      PROVE  inbox' = inbox \o <<OfStream(s, e)>>
  <2> DEFINE sent == [i \in DOMAIN <<e>> |-> OfStream(s, <<e>>[i])]
  <2>1. sent = <<OfStream(s, e)>>
    OBVIOUS
  <2>2. Sent(sent)
    BY <1>1 DEF Forward
  <2> HIDE DEF sent
  <2> QED BY <1>1, <2>1, <2>2, AskedOpens DEF Sent
<1> QED BY <1>1 DEF Forward

\* A page hears of the event that was read, unless it is blank.
LEMMA ReceiveDoes ==
  ASSUME PageInv, NEW s \in Stream, Receive(s)
  PROVE  /\ wire[s] # << >> /\ wire[s][1] \in Event
         /\ s \in Asked /\ wire[s][1].kind # "blank" =>
              inbox' = inbox \o <<OfStream(s, wire[s][1])>>
         /\ ~(s \in Asked /\ wire[s][1].kind # "blank") => inbox' = inbox
<1>1. wire[s] \in Seq(Event) /\ wire[s] # << >> /\ inbox \in Seq(Message)
  BY StreamTypes, PageTypes DEF PageInv, PageTyped, StreamInv, StreamTyped, Receive, Read
<1>2. wire[s][1] \in Event
  BY <1>1
<1>3. CASE wire[s][1].kind # "blank"
  <2>1. Forward(s, <<wire[s][1]>>)
    BY <1>3 DEF Receive, Heard
  <2> QED BY <1>1, <1>2, <1>3, <2>1, ForwardDoes
<1>4. CASE wire[s][1].kind = "blank"
  <2>1. Forward(s, << >>)
    BY <1>4 DEF Receive, Heard
  <2>2. [i \in DOMAIN << >> |-> OfStream(s, << >>[i])] = << >>
    OBVIOUS
  <2>3. inbox' = inbox \o << >> \/ inbox' = inbox
    BY <2>1, <2>2 DEF Forward, Sent
  <2>4. inbox' = inbox
    BY <1>1, <2>3, ConcatEmptySeq
  <2> QED BY <1>1, <1>2, <1>4, <2>4
<1> QED BY <1>3, <1>4

\* What a step leaves alone of the page that is there.
PageStays == UNCHANGED <<open, listening, shown, messages, disabled, banner>>

\* What a step may send to the page.
Posts == \E m \in Message :
  inbox' = inbox \o <<m>> /\ (IsStatus(m) \/ (m.stream \in Asked' /\ m.event.kind # "blank"))

\* A queue to which something proper is added is a proper one.
LEMMA InboxGrows ==
  ASSUME PageInv, inbox' = inbox \/ Posts, Asked \subseteq Asked'
  PROVE  /\ inbox' \in Seq(Message)
         /\ \A i \in DOMAIN inbox' : IsStatus(inbox'[i]) \/ inbox'[i].stream \in Asked'
         /\ NoBlanks'
<1>1. /\ inbox \in Seq(Message)
      /\ \A i \in DOMAIN inbox : IsStatus(inbox[i]) \/ inbox[i].stream \in Asked'
      /\ \A i \in DOMAIN inbox : IsStatus(inbox[i]) \/ inbox[i].event.kind # "blank"
  BY PageTypes DEF PageInv, PageTyped, NoBlanks
<1>2. CASE inbox' = inbox
  BY <1>1, <1>2 DEF NoBlanks
<1>3. CASE Posts
  <2>1. PICK m \in Message :
          inbox' = inbox \o <<m>> /\ (IsStatus(m) \/ (m.stream \in Asked' /\ m.event.kind # "blank"))
    BY <1>3 DEF Posts
  <2>2. /\ inbox' \in Seq(Message)
        /\ \A i \in DOMAIN inbox' : inbox'[i] = m \/ (i \in DOMAIN inbox /\ inbox'[i] = inbox[i])
    BY <1>1, <2>1, OneMore
  <2>3. \A i \in DOMAIN inbox' : IsStatus(inbox'[i]) \/ inbox'[i].stream \in Asked'
    BY <1>1, <2>1, <2>2
  <2>4. \A i \in DOMAIN inbox' : IsStatus(inbox'[i]) \/ inbox'[i].event.kind # "blank"
    BY <1>1, <2>1, <2>2
  <2> QED BY <2>2, <2>3, <2>4 DEF NoBlanks
<1> QED BY <1>2, <1>3

\* A stream is asked for once.
LEMMA NeverOffAgain ==
  ASSUME StreamTypeOK, Streaming, NEW t \in Stream, client'[t] = "off"
  PROVE  client[t] = "off"
<1>1. CASE BackendDies
  BY <1>1, BackendDiesDoes
<1>2. CASE UNCHANGED streams
  BY <1>2 DEF streams
<1>3. ASSUME NEW s \in Stream, StreamStep(s)
      PROVE  client'[t] = client[t] \/ client'[t] # "off"
  <2>1. CASE Open(s) \/ Refused(s)
    BY <2>1, OpenDoes, RefusedDoes DEF Alone, Unmoved, Opened, RefusedIs
  <2>2. CASE Ask(s)
    BY <2>2 DEF Ask
  <2>3. CASE RelayTakes(s) \/ RelayGives(s) \/ RelayStops(s) \/ HandlerStops(s) \/ Read(s)
    BY <2>3 DEF RelayTakes, RelayGives, RelayStops, HandlerStops, Read
  <2>4. CASE ReadEnd(s) \/ Cut(s)
    BY <2>4, ReadEndDoes, CutDoes DEF Alone, Unmoved, ReadToEnd, WasCut
  <2> QED BY <1>3, <2>1, <2>2, <2>3, <2>4 DEF StreamStep, BackendStep
<1> QED BY <1>1, <1>2, <1>3 DEF Streaming

\* Whatever goes on elsewhere is only noticed by what it sends.
LEMMA ElsewhereKeepsPage ==
  ASSUME PageInv, Streaming, PageStays, inbox' = inbox \/ Posts, ~open => inbox' = inbox,
         BackendTyped'
  PROVE  PageInv'
<1>1. StreamInv'
  BY StreamsStay DEF PageInv
<1>2. Asked' = Asked
  BY DEF Asked, PageStays
<1>3. PageTyped'
  <2>1. PageTyped
    BY PageTypes DEF PageInv
  <2> QED BY <1>2, <2>1, InboxGrows DEF PageTyped, PageStays
<1>4. TypeOK'
  BY <1>1, <1>3, PageTypes DEF StreamInv
<1>5. Closed'
  BY DEF PageInv, Closed, PageStays
<1>6. Fresh'
  BY <1>2, NeverOffAgain DEF PageInv, StreamInv, Fresh, PageStays
<1>7. NoBlanks'
  BY <1>2, InboxGrows
<1> QED BY <1>1, <1>4, <1>5, <1>6, <1>7 DEF PageInv

\* The chat is shown.
LEMMA ShowKeepsPage ==
  ASSUME PageInv, ShowChat
  PROVE  PageInv'
<1>1. /\ ~open /\ open' = TRUE /\ inbox' = <<Status(stored)>>
      /\ UNCHANGED <<listening, shown, messages, disabled, banner, streams, backend, store>>
  BY DEF ShowChat
<1>2. StreamInv'
  BY <1>1, StreamsStay DEF PageInv, Streaming
<1>3. Asked' = Asked
  BY <1>1 DEF Asked
<1>4. stored \in BOOLEAN
  BY PageTypes DEF PageInv, PageTyped, BackendTyped
<1>5. Status(stored) \in Message /\ IsStatus(Status(stored)) /\ inbox' = <<Status(stored)>>
  BY <1>1, <1>4, Messages
<1>6. inbox' \in Seq(Message) /\ \A i \in DOMAIN inbox' : IsStatus(inbox'[i])
  BY <1>5
<1>7. PageTyped'
  <2>1. PageTyped
    BY PageTypes DEF PageInv
  <2>2. open' \in BOOLEAN
    BY <1>1
  <2> QED BY <1>1, <1>3, <1>6, <2>1, <2>2, BackendStays DEF PageTyped
<1>8. TypeOK'
  BY <1>2, <1>7, PageTypes DEF StreamInv
<1>9. Closed' /\ NoBlanks'
  BY <1>1, <1>6 DEF Closed, NoBlanks
<1>10. Fresh'
  BY <1>1, <1>3 DEF PageInv, Fresh, streams
<1> QED BY <1>2, <1>8, <1>9, <1>10 DEF PageInv

\* The page goes, with all there is of it.
LEMMA CloseKeepsPage ==
  ASSUME PageInv, CloseChat
  PROVE  PageInv'
<1>1. /\ open' = FALSE /\ inbox' = << >> /\ listening' = {} /\ messages' = << >>
      /\ shown' = [s \in Stream |-> << >>] /\ disabled' = FALSE /\ banner' = TRUE
      /\ UNCHANGED <<streams, backend, store>>
  BY DEF CloseChat
<1>2. StreamInv'
  BY <1>1, StreamsStay DEF PageInv, Streaming
<1>3. Asked' = {} /\ DOMAIN << >> = {}
  BY <1>1 DEF Asked
<1>4. PageTyped'
  <2>1. PageTyped
    BY PageTypes DEF PageInv
  <2>2. open' \in BOOLEAN /\ disabled' \in BOOLEAN /\ banner' \in BOOLEAN
    BY <1>1
  <2>3. inbox' \in Seq(Message) /\ messages' \in Seq(Bubble) /\ shown' \in [Stream -> Seq(Event)]
    BY <1>1
  <2> QED BY <1>1, <1>3, <2>1, <2>2, <2>3, BackendStays DEF PageTyped
<1>5. TypeOK'
  BY <1>2, <1>4, PageTypes DEF StreamInv
<1>6. Closed' /\ NoBlanks' /\ Fresh'
  BY <1>1, <1>3 DEF Closed, NoBlanks, Fresh
<1> QED BY <1>2, <1>5, <1>6 DEF PageInv

\* What the page does when the user asks.
LEMMA SendDoes ==
  ASSUME PageInv, NEW s \in Stream, Send(s)
  PROVE  /\ open /\ ~disabled /\ client[s] = "off" /\ s \notin Asked
         /\ messages' = Append(messages, [role |-> "user", stream |-> s])
         /\ Asked' = Asked \cup {s}
         /\ disabled' = TRUE /\ listening' = listening \cup {s}
         /\ UNCHANGED <<open, shown, banner, backend, store>>
         /\ \/ Open(s) /\ inbox' = inbox
            \/ Refused(s) /\ inbox' = inbox \o <<OfStream(s, End("error"))>>
<1>1. /\ open /\ ~disabled /\ client[s] = "off"
      /\ messages' = Append(messages, [role |-> "user", stream |-> s])
      /\ disabled' = TRUE /\ listening' = listening \cup {s}
      /\ UNCHANGED <<open, shown, banner, backend, store>>
  BY DEF Send
<1>2. Asked' = Asked \cup {s}
  <2>1. messages \in Seq(Bubble) /\ [role |-> "user", stream |-> s] \in Bubble
    BY PageTypes, Bubbles DEF PageInv, PageTyped
  <2> QED BY <1>1, <2>1, AskedMore
<1>3. \/ Open(s) /\ inbox' = inbox
      \/ Refused(s) /\ inbox' = inbox \o <<OfStream(s, End("error"))>>
  BY <1>1, SentDoes DEF Send
<1>4. s \notin Asked
  BY <1>1, AskedOpens
<1> QED BY <1>1, <1>2, <1>3, <1>4

\* The user asks.
LEMMA SendKeepsPage ==
  ASSUME PageInv, NEW s \in Stream, Send(s)
  PROVE  PageInv'
<1>1. Streaming
  BY SendDoes DEF Streaming, StreamStep
<1>2. StreamInv'
  BY <1>1, StreamsStay DEF PageInv
<1>3. inbox' = inbox \/ Posts
  <2>1. OfStream(s, End("error")) \in Message /\ OfStream(s, End("error")).stream = s
    BY Messages, EventKinds DEF Ends
  <2>2. OfStream(s, End("error")).event.kind # "blank"
    BY Messages, EventKinds
  <2>3. s \in Asked'
    BY SendDoes
  <2> QED BY <2>1, <2>2, <2>3, SendDoes DEF Posts
<1>4. messages' \in Seq(Bubble)
  <2>1. messages \in Seq(Bubble) /\ [role |-> "user", stream |-> s] \in Bubble
    BY PageTypes, Bubbles DEF PageInv, PageTyped
  <2>2. Append(messages, [role |-> "user", stream |-> s]) \in Seq(Bubble)
    BY <2>1, AppendProperties
  <2> QED BY <2>2, SendDoes
<1>5. PageTyped'
  <2>1. PageTyped
    BY PageTypes DEF PageInv
  <2>2. disabled' \in BOOLEAN /\ Asked \subseteq Asked'
    BY SendDoes
  <2>3. /\ inbox' \in Seq(Message)
        /\ \A i \in DOMAIN inbox' : IsStatus(inbox'[i]) \/ inbox'[i].stream \in Asked'
    BY <1>3, <2>2, InboxGrows
  <2>4. listening' \subseteq Asked'
    BY <2>1, SendDoes DEF PageTyped
  <2>5. UNCHANGED <<open, shown, banner, backend, store>>
    BY SendDoes
  <2> QED BY <1>4, <2>1, <2>2, <2>3, <2>4, <2>5, BackendStays DEF PageTyped
<1>6. TypeOK'
  BY <1>2, <1>5, PageTypes DEF StreamInv
<1>7. Closed'
  <2>1. open /\ open' = open
    BY SendDoes
  <2> QED BY <2>1 DEF Closed
<1>8. Fresh'
  <2>1. ASSUME NEW t \in Stream, client'[t] = "off"
        PROVE  shown'[t] = << >> /\ t \notin Asked'
    <3>1. client[t] = "off" /\ shown[t] = << >> /\ t \notin Asked
      BY <1>1, <2>1, NeverOffAgain DEF PageInv, StreamInv, Fresh
    <3>2. client'[s] # "off"
      BY SendDoes, OpenDoes, RefusedDoes DEF PageInv, StreamInv, Opened, RefusedIs
    <3> QED BY <2>1, <3>1, <3>2, SendDoes
  <2> QED BY <2>1 DEF Fresh
<1>9. NoBlanks'
  BY <1>3, SendDoes, InboxGrows
<1> QED BY <1>2, <1>6, <1>7, <1>8, <1>9 DEF PageInv

\* The page takes a message.
LEMMA DeliverKeepsPage ==
  ASSUME PageInv, Deliver
  PROVE  PageInv'
<1>1. /\ inbox # << >> /\ inbox' = Tail(inbox) /\ UNCHANGED <<open, streams, backend, store>>
      /\ TakenStatus \/ TakenText \/ TakenDone \/ TakenError \/ Ignored
  BY DeliverDoes
<1>2. StreamInv' /\ UNCHANGED client
  BY <1>1, StreamsStay DEF PageInv, Streaming, streams
<1>3. PageTyped /\ inbox \in Seq(Message) /\ messages \in Seq(Bubble)
  BY PageTypes DEF PageInv, PageTyped
<1>4. Head(inbox) \in Message /\ Head(inbox) = inbox[1] /\ 1 \in DOMAIN inbox
  BY <1>1, <1>3, OneLess
<1>5. /\ inbox' \in Seq(Message)
      /\ \A i \in DOMAIN inbox' : i + 1 \in DOMAIN inbox /\ inbox'[i] = inbox[i + 1]
  BY <1>1, <1>3, OneLess
<1>6. open
  BY <1>1 DEF PageInv, Closed
<1>7. /\ Asked' = Asked /\ messages' \in Seq(Bubble) /\ shown' \in [Stream -> Seq(Event)]
      /\ listening' \subseteq listening /\ disabled' \in BOOLEAN /\ banner' \in BOOLEAN
      /\ \A s \in Stream : s \notin listening => shown'[s] = shown[s]
  <2>1. CASE TakenStatus
    <3>1. PICK b \in BOOLEAN : Head(inbox) = Status(b) /\ TakesStatus(b)
      BY <2>1 DEF TakenStatus
    <3>2. banner' = b /\ disabled' = ~b /\ UNCHANGED <<listening, shown, messages>>
      BY <3>1 DEF TakesStatus
    <3> QED BY <1>3, <3>2 DEF PageTyped, Asked
  <2>2. CASE TakenText
    <3>1. PICK s \in listening, e \in Event : Head(inbox) = OfStream(s, e) /\ TakesText(s, e)
      BY <2>2 DEF TakenText
    <3>2. /\ shown' = [shown EXCEPT ![s] = Append(@, e)]
          /\ UNCHANGED <<listening, messages, disabled, banner>>
      BY <3>1 DEF TakesText
    <3>3. s \in Stream
      BY AskedOpens, <1>3 DEF PageTyped
    <3>4. Append(shown[s], e) \in Seq(Event)
      BY <1>3, <3>3, AppendProperties DEF PageTyped
    <3> QED BY <1>3, <3>2, <3>3, <3>4 DEF PageTyped, Asked
  <2>3. CASE TakenDone
    <3>1. PICK s \in listening : TakesDone(s)
      BY <2>3 DEF TakenDone
    <3> DEFINE m == [role |-> "assistant", stream |-> s, content |-> shown[s]]
    <3>2. /\ messages' = Append(messages, m)
          /\ disabled' = FALSE /\ listening' = listening \ {s} /\ UNCHANGED <<shown, banner>>
      BY <3>1 DEF TakesDone
    <3>3. s \in Stream
      BY AskedOpens, <1>3 DEF PageTyped
    <3>4. m \in Bubble /\ m.role # "user"
      BY <1>3, <3>3, Bubbles DEF PageTyped
    <3> HIDE DEF m
    <3>5. Asked' = Asked /\ messages' \in Seq(Bubble)
      BY <1>3, <3>2, <3>4, AskedMore, AppendProperties
    <3> QED BY <1>3, <3>2, <3>5 DEF PageTyped
  <2>4. CASE TakenError
    <3>1. PICK s \in listening : TakesError(s)
      BY <2>4 DEF TakenError
    <3> QED BY <1>3, <3>1 DEF PageTyped, Asked, TakesError
  <2>5. CASE Ignored
    BY <1>3, <2>5 DEF PageTyped, Asked, Ignored
  <2> QED BY <1>1, <2>1, <2>2, <2>3, <2>4, <2>5
<1>8. PageTyped'
  <2>1. BackendTyped' /\ UNCHANGED open
    BY <1>1, BackendStays
  <2>2. \A i \in DOMAIN inbox' : IsStatus(inbox'[i]) \/ inbox'[i].stream \in Asked'
    BY <1>3, <1>5, <1>7 DEF PageTyped
  <2> QED BY <1>3, <1>5, <1>7, <2>1, <2>2 DEF PageTyped
<1>9. TypeOK'
  BY <1>2, <1>8, PageTypes DEF StreamInv
<1>10. Closed'
  <2>1. open'
    BY <1>1, <1>6
  <2> QED BY <2>1 DEF Closed
<1>11. Fresh'
  BY <1>2, <1>3, <1>7 DEF PageInv, Fresh, PageTyped
<1>12. NoBlanks'
  BY <1>5 DEF PageInv, NoBlanks
<1> QED BY <1>2, <1>9, <1>10, <1>11, <1>12 DEF PageInv

\* The client's reader is heard by the page.
LEMMA HearingKeepsPage ==
  ASSUME PageInv, NEW s \in Stream, Receive(s) \/ Finish(s) \/ Broken(s) \/ Backward(s)
  PROVE  PageInv'
<1>1. PageStays /\ UNCHANGED <<backend, store>>
  BY DEF Receive, Finish, Broken, Backward, ElsewhereUnchanged, PageStays
<1>2. Streaming
  BY DEF Receive, Finish, Broken, Backward, Streaming, StreamStep
<1>3. BackendTyped'
  BY <1>1, BackendStays
<1>4. Asked' = Asked
  BY <1>1 DEF Asked, PageStays
<1>5. (inbox' = inbox \/ Posts) /\ (~open => inbox' = inbox)
  <2>1. CASE Receive(s)
    <3> DEFINE e == wire[s][1]
    <3>1. /\ e \in Event
          /\ s \in Asked /\ e.kind # "blank" => inbox' = inbox \o <<OfStream(s, e)>>
          /\ ~(s \in Asked /\ e.kind # "blank") => inbox' = inbox
      BY <2>1, ReceiveDoes
    <3>2. /\ OfStream(s, e) \in Message /\ OfStream(s, e).stream = s
          /\ OfStream(s, e).event = e
      BY <3>1, Messages
    <3> QED BY <1>4, <3>1, <3>2, AskedOpens DEF Posts
  <2>2. CASE Broken(s)
    <3> DEFINE e == End("error")
    <3>1. /\ s \in Asked => inbox' = inbox \o <<OfStream(s, e)>>
          /\ s \notin Asked => inbox' = inbox
      BY <2>2, ForwardDoes DEF Broken
    <3>2. /\ OfStream(s, e) \in Message /\ OfStream(s, e).stream = s
          /\ OfStream(s, e).event = e /\ e.kind # "blank"
      BY Messages, EventKinds DEF Ends
    <3> QED BY <1>4, <3>1, <3>2, AskedOpens DEF Posts
  <2>3. CASE Finish(s) \/ Backward(s)
    BY <2>3 DEF Finish, Backward
  <2> QED BY <2>1, <2>2, <2>3
<1> QED BY <1>1, <1>2, <1>3, <1>5, ElsewhereKeepsPage

\* Whoever writes to the store, and the diagnoses that come before.
Telling ==
  \/ Supervise \/ Broadcast \/ Diagnose
  \/ \E available \in BOOLEAN : Reported(available) \/ DiagnosisFails(available)

\* The store holds what the supervisor knows, unless a diagnosis has written to it.
StoreKnows == written \/ stored = Available

\* The backend stays within what it promises, and its state is written to the store.
LEMMA SuperviseDoes ==
  ASSUME PageInv, Supervise
  PROVE  /\ PageStays /\ (BackendDies \/ UNCHANGED streams) /\ BackendTyped'
         /\ Sent(<<Status(stored')>>) /\ stored' = Available'
<1>1. /\ PageStays /\ (BackendDies \/ UNCHANGED streams) /\ reports' = reports
      /\ stored' = Available' /\ written' = FALSE /\ Sent(<<Status(Available')>>)
  BY DEF Supervise, PageStays, Synced, Writes
<1>2. BackendTyped /\ MaxAttempts \in Nat
  BY PageTypes, ChatBounds DEF PageInv, PageTyped
<1>3. Backend!WillRetry \/ Backend!GoesDown \/ Backend!Retry \/ Backend!ComesUp
  BY DEF Supervise
<1>4. phase' \in {"down", "starting", "up", "waiting"} /\ attempts' \in 0..MaxAttempts
  BY <1>2, <1>3
     DEF BackendTyped, Backend!WillRetry, Backend!GoesDown, Backend!Retry, Backend!ComesUp
<1>5. stored' \in BOOLEAN /\ written' \in BOOLEAN
  BY <1>1 DEF Available
<1> QED BY <1>1, <1>2, <1>4, <1>5 DEF BackendTyped

\* A page is told of what is written to the store, whoever writes it.
LEMMA TellingDoes ==
  ASSUME PageInv, Telling
  PROVE  /\ PageStays /\ (BackendDies \/ UNCHANGED streams) /\ BackendTyped'
         /\ Sent(<<Status(stored')>>) \/ (inbox' = inbox /\ stored' = stored)
         /\ StoreKnows => StoreKnows'
<1>1. BackendTyped
  BY PageTypes DEF PageInv, PageTyped
<1>2. CASE Supervise
  BY <1>2, SuperviseDoes DEF StoreKnows
<1>3. CASE Broadcast
  <2>1. PageStays /\ UNCHANGED <<streams, backend, store>> /\ Sent(<<Status(stored)>>)
    BY <1>3 DEF Broadcast, PageStays
  <2>2. stored' = stored /\ written' = written /\ Available' = Available
    BY <2>1 DEF store, backend, Available
  <2> QED BY <2>1, <2>2, BackendStays DEF StoreKnows
<1>4. CASE Diagnose
  <2>1. /\ PageStays /\ UNCHANGED <<streams, backend, stored, written, inbox>>
        /\ reports' = reports \cup {stored}
    BY <1>4 DEF Diagnose, Beside, PageStays
  <2>2. Available' = Available
    BY <2>1 DEF backend, Available
  <2> QED BY <1>1, <2>1, <2>2 DEF BackendTyped, StoreKnows, backend
<1>5. ASSUME NEW available \in BOOLEAN, Reported(available)
      PROVE  /\ PageStays /\ UNCHANGED streams /\ BackendTyped'
             /\ Sent(<<Status(stored')>>) /\ StoreKnows'
  <2>1. /\ PageStays /\ UNCHANGED <<streams, backend>> /\ reports' \subseteq reports
        /\ stored' = available /\ written' = TRUE /\ Sent(<<Status(available)>>)
    BY <1>5 DEF Reported, Writes, Beside, PageStays
  <2> QED BY <1>1, <2>1 DEF BackendTyped, StoreKnows, backend
<1>6. ASSUME NEW available \in BOOLEAN, DiagnosisFails(available)
      PROVE  /\ PageStays /\ UNCHANGED streams /\ BackendTyped'
             /\ inbox' = inbox /\ stored' = stored /\ (StoreKnows => StoreKnows')
  <2>1. /\ PageStays /\ UNCHANGED <<streams, backend, stored, written, inbox>>
        /\ reports' \subseteq reports
    BY <1>6 DEF DiagnosisFails, Beside, PageStays
  <2>2. Available' = Available
    BY <2>1 DEF backend, Available
  <2> QED BY <1>1, <2>1, <2>2 DEF BackendTyped, StoreKnows, backend
<1> QED BY <1>2, <1>3, <1>4, <1>5, <1>6 DEF Telling

\* What comes of it in the queue of the page.
LEMMA TellingSends ==
  ASSUME PageInv, Telling
  PROVE  /\ inbox' = inbox \/ \E b \in BOOLEAN : inbox' = inbox \o <<Status(b)>>
         /\ ~open => inbox' = inbox
<1>1. stored' \in BOOLEAN
  BY TellingDoes DEF BackendTyped
<1>2. Sent(<<Status(stored')>>) \/ inbox' = inbox
  BY TellingDoes
<1> QED BY <1>1, <1>2 DEF Sent

\* The store tells everyone.
LEMMA TellingKeepsPage ==
  ASSUME PageInv, Telling
  PROVE  PageInv'
<1>1. inbox' = inbox \/ Posts
  BY TellingSends, Messages DEF Posts
<1> QED BY <1>1, TellingDoes, TellingSends, ElsewhereKeepsPage DEF Streaming

\* At first there is no page and nothing is asked.
LEMMA PageStarts == Init => PageInv
<1> SUFFICES ASSUME Init
             PROVE  PageInv
  OBVIOUS
<1>1. StreamInv
  BY StreamsStart DEF Init
<1>2. DOMAIN << >> = {} /\ Asked = {}
  BY DEF Init, Asked
<1>3. PageTyped
  <2>1. << >> \in Seq(Message) /\ << >> \in Seq(Bubble) /\ << >> \in Seq(Event)
    OBVIOUS
  <2>2. inbox = << >> /\ messages = << >> /\ listening = {}
    BY DEF Init
  <2>3. shown \in [Stream -> Seq(Event)] /\ ~open /\ open \in BOOLEAN
    BY <2>1 DEF Init
  <2>4. disabled \in BOOLEAN /\ banner \in BOOLEAN
    BY DEF Init
  <2>5. BackendTyped
    <3>1. phase = "up" /\ attempts = 0 /\ MaxAttempts \in Nat /\ reports = {}
      BY ChatBounds DEF Init
    <3>2. stored \in BOOLEAN /\ written \in BOOLEAN
      BY DEF Init
    <3> QED BY <3>1, <3>2 DEF BackendTyped
  <2> QED BY <1>2, <2>1, <2>2, <2>3, <2>4, <2>5 DEF PageTyped
<1>4. TypeOK
  BY <1>1, <1>3, PageTypes DEF StreamInv
<1>5. Closed /\ Fresh /\ NoBlanks
  BY <1>2 DEF Init, Closed, Fresh, NoBlanks
<1> QED BY <1>1, <1>4, <1>5 DEF PageInv

\* Every step keeps it so.
LEMMA PageStepKeeps == PageInv /\ [Next]_vars => PageInv'
<1> SUFFICES ASSUME PageInv, [Next]_vars
             PROVE  PageInv'
  OBVIOUS
<1>1. CASE ShowChat \/ CloseChat \/ Deliver
  BY <1>1, ShowKeepsPage, CloseKeepsPage, DeliverKeepsPage
<1>2. ASSUME NEW s \in Stream, StreamNext(s)
      PROVE  PageInv'
  BY <1>2, SendKeepsPage, HearingKeepsPage DEF StreamNext
<1>3. CASE Telling
  BY <1>3, TellingKeepsPage
<1>4. CASE UNCHANGED vars
  <2>1. PageStays /\ Streaming /\ inbox' = inbox /\ UNCHANGED <<backend, store>>
    BY <1>4 DEF vars, page, PageStays, Streaming
  <2> QED BY <2>1, BackendStays, ElsewhereKeepsPage
<1> QED BY <1>1, <1>2, <1>3, <1>4 DEF Next, Telling

\* What is always so of the page, and of the types of everything.
LEMMA PageAlways == Spec => []PageInv
BY PageStarts, PageStepKeeps, PTL DEF Spec

\* Every variable keeps its type, and nothing is on its way to a page, or listened
\* for by one, that the page did not ask for.
THEOREM TypeCorrect == Spec => []TypeOK
<1>1. PageInv => TypeOK
  BY DEF PageInv
<1> QED BY <1>1, PageAlways, PTL

-----------------------------------------------------------------------------
(* What the page believes of the backend *)

\* The newest of x and of what came after it.
Newest(x, later) == Last(<<x>> \o later)

\* What comes last is the newest.
LEMMA NewestIs ==
  ASSUME NEW T, NEW x \in T, NEW y \in T, NEW q \in Seq(T)
  PROVE  /\ Newest(x, q \o <<y>>) = y /\ Newest(x, <<y>>) = y
         /\ Newest(x, <<y>> \o q) = Newest(y, q)
<1>1. \A z \in T, r \in Seq(T) :
        Newest(z, r) = IF Len(r) = 0 THEN z ELSE r[Len(r)]
  <2> TAKE z \in T, r \in Seq(T)
  <2> DEFINE one == <<z>>
             all == one \o r
  <2>1. one \in Seq(T) /\ Len(one) = 1 /\ one[1] = z /\ Len(r) \in Nat
    OBVIOUS
  <2> HIDE DEF one
  <2>2. /\ Len(all) = Len(one) + Len(r)
        /\ \A i \in 1..Len(one) + Len(r) :
             all[i] = IF i <= Len(one) THEN one[i] ELSE r[i - Len(one)]
    BY <2>1, ConcatProperties
  <2> HIDE DEF all
  <2>3. Last(all) = IF Len(r) = 0 THEN z ELSE r[Len(r)]
    BY <2>1, <2>2 DEF Last
  <2> QED BY <2>3 DEF all, one, Newest
<1> DEFINE one == <<y>>
           more == q \o one
           less == one \o q
<1>2. one \in Seq(T) /\ Len(one) = 1 /\ one[1] = y /\ Len(q) \in Nat
  OBVIOUS
<1> HIDE DEF one
<1>3. /\ more \in Seq(T) /\ Len(more) = Len(q) + Len(one)
      /\ \A i \in 1..Len(q) + Len(one) :
           more[i] = IF i <= Len(q) THEN q[i] ELSE one[i - Len(q)]
  BY <1>2, ConcatProperties
<1>4. /\ less \in Seq(T) /\ Len(less) = Len(one) + Len(q)
      /\ \A i \in 1..Len(one) + Len(q) :
           less[i] = IF i <= Len(one) THEN one[i] ELSE q[i - Len(one)]
  BY <1>2, ConcatProperties
<1> HIDE DEF more, less
<1>4a. Len(more) = Len(q) + 1 /\ more[Len(q) + 1] = y
  BY <1>2, <1>3
<1>4b. Len(less) = Len(q) + 1 /\ less[1] = y /\ \A i \in 1..Len(q) : less[i + 1] = q[i]
  BY <1>2, <1>4
<1>5. Newest(x, more) = y /\ Newest(x, one) = y
  <2>1. more \in Seq(T) /\ Len(more) # 0 /\ more[Len(more)] = y
    BY <1>2, <1>3, <1>4a
  <2>2. one \in Seq(T) /\ Len(one) # 0 /\ one[Len(one)] = y
    BY <1>2
  <2>3. Newest(x, more) = y
    BY <1>1, <2>1
  <2>4. Newest(x, one) = y
    BY <1>1, <2>2
  <2> QED BY <2>3, <2>4
<1>6. Newest(x, less) = Newest(y, q)
  <2>1. Len(q) = 0 \/ less[Len(q) + 1] = q[Len(q)]
    BY <1>2, <1>4b
  <2> QED BY <1>1, <1>2, <1>4, <1>4b, <2>1
<1> QED BY <1>5, <1>6 DEF one, more, less

\* The last status in the queue, or else the banner, is what the store holds.
Believes == Newest(Status(banner), Statuses) = Status(stored)

Follows ==
  /\ open => Believes
  /\ StoreKnows
  /\ disabled => listening # {} \/ ~banner

\* The status that a page was told last, in its two forms.
LEMMA FollowsIs == PageFollows <=> Follows
BY DEF PageFollows, Follows, Believes, Newest, StoreKnows

\* A queue without the messages of streams.
LEMMA StatusesOf ==
  /\ \A q \in Seq(Message) :
       /\ Without(q, StreamMessage) \in Seq(Message)
       /\ \A b \in BOOLEAN :
            /\ Without(q \o <<Status(b)>>, StreamMessage) = Without(q, StreamMessage) \o <<Status(b)>>
            /\ Without(<<Status(b)>> \o q, StreamMessage) = <<Status(b)>> \o Without(q, StreamMessage)
       /\ \A m \in StreamMessage :
            /\ Without(q \o <<m>>, StreamMessage) = Without(q, StreamMessage)
            /\ Without(<<m>> \o q, StreamMessage) = Without(q, StreamMessage)
  /\ \A b \in BOOLEAN : Without(<<Status(b)>>, StreamMessage) = <<Status(b)>>
<1>1. \A m \in Message, q \in Seq(Message) :
        /\ Without(q \o <<m>>, StreamMessage) = Without(q, StreamMessage) \o Without(<<m>>, StreamMessage)
        /\ Without(<<m>> \o q, StreamMessage) = Without(<<m>>, StreamMessage) \o Without(q, StreamMessage)
  <2> TAKE m \in Message, q \in Seq(Message)
  <2> DEFINE one == <<m>>
  <2>1. one \in Seq(Message)
    OBVIOUS
  <2> HIDE DEF one
  <2>2. /\ Without(q \o one, StreamMessage) = Without(q, StreamMessage) \o Without(one, StreamMessage)
        /\ Without(one \o q, StreamMessage) = Without(one, StreamMessage) \o Without(q, StreamMessage)
    BY <2>1, WithoutConcat
  <2> QED BY <2>2 DEF one
<1>2. \A b \in BOOLEAN : Without(<<Status(b)>>, StreamMessage) = <<Status(b)>>
  BY Messages, WithoutFew
<1>3. \A m \in StreamMessage : Without(<<m>>, StreamMessage) = << >>
  BY WithoutFew
<1>4. \A q \in Seq(Message) : Without(q, StreamMessage) \in Seq(Message)
  BY WithoutElements
<1>5. \A q \in Seq(Message), b \in BOOLEAN :
        /\ Without(q \o <<Status(b)>>, StreamMessage) = Without(q, StreamMessage) \o <<Status(b)>>
        /\ Without(<<Status(b)>> \o q, StreamMessage) = <<Status(b)>> \o Without(q, StreamMessage)
  BY <1>1, <1>2, Messages
<1>6. \A q \in Seq(Message), m \in StreamMessage :
        /\ Without(q \o <<m>>, StreamMessage) = Without(q, StreamMessage)
        /\ Without(<<m>> \o q, StreamMessage) = Without(q, StreamMessage)
  <2> TAKE q \in Seq(Message), m \in StreamMessage
  <2> DEFINE rest == Without(q, StreamMessage)
  <2>1. rest \in Seq(Message) /\ m \in Message
    BY <1>4 DEF Message
  <2>2. rest \o << >> = rest /\ << >> \o rest = rest
    BY <2>1, ConcatEmptySeq
  <2> QED BY <1>1, <1>3, <2>1, <2>2
<1> QED BY <1>2, <1>4, <1>5, <1>6

\* A status that is sent is believed in the end.
LEMMA ToldBelieves ==
  ASSUME PageInv, NEW b \in BOOLEAN, b = stored',
         inbox' = inbox \o <<Status(b)>>, banner' \in BOOLEAN
  PROVE  Believes'
<1>1. inbox \in Seq(Message)
  BY PageTypes DEF PageInv, PageTyped
<1>2. Without(inbox, StreamMessage) \in Seq(Message)
  BY <1>1, StatusesOf
<1>3. Without(inbox', StreamMessage) = Without(inbox, StreamMessage) \o <<Status(b)>>
  BY <1>1, StatusesOf
<1>4. Status(banner') \in Message /\ Status(b) \in Message
  BY Messages
<1>5. Newest(Status(banner'), Without(inbox, StreamMessage) \o <<Status(b)>>) = Status(b)
  BY <1>2, <1>4, NewestIs
<1> QED BY <1>3, <1>5 DEF Believes, Statuses

\* What is sent of a stream says nothing of the backend.
LEMMA StreamBelieves ==
  ASSUME PageInv, Believes, UNCHANGED <<banner, stored>>,
         inbox' = inbox \/ \E m \in StreamMessage : inbox' = inbox \o <<m>>
  PROVE  Believes'
<1>1. inbox \in Seq(Message)
  BY PageTypes DEF PageInv, PageTyped
<1>2. Without(inbox', StreamMessage) = Without(inbox, StreamMessage)
  BY <1>1, StatusesOf
<1> QED BY <1>1, <1>2 DEF Believes, Statuses

\* What the store holds is as good as before.
LEMMA StoreStays ==
  ASSUME StoreKnows, UNCHANGED <<backend, store>>
  PROVE  StoreKnows'
BY DEF StoreKnows, Available, backend, store

\* The page goes on believing what it will be told.
LEMMA DeliverBelieves ==
  ASSUME PageInv, Follows, Deliver
  PROVE  Follows'
<1>1. /\ inbox # << >> /\ inbox' = Tail(inbox) /\ UNCHANGED <<open, streams, backend, store>>
      /\ TakenStatus \/ TakenText \/ TakenDone \/ TakenError \/ Ignored
  BY DeliverDoes
<1>2. /\ inbox \in Seq(Message) /\ banner \in BOOLEAN /\ open
      /\ inbox' \in Seq(Message) /\ inbox = <<Head(inbox)>> \o inbox'
  <2>1. inbox \in Seq(Message) /\ banner \in BOOLEAN /\ open
    BY <1>1, PageTypes DEF PageInv, PageTyped, Closed
  <2> QED BY <1>1, <2>1, OneLess
<1>3. stored' = stored /\ open' = open /\ Believes /\ StoreKnows'
  BY <1>1, <1>2, StoreStays DEF store, Follows
<1>4. CASE TakenStatus
  <2>1. PICK b \in BOOLEAN : Head(inbox) = Status(b) /\ TakesStatus(b)
    BY <1>4 DEF TakenStatus
  <2>2. banner' = b /\ disabled' = ~b
    BY <2>1 DEF TakesStatus
  <2>3. Without(inbox, StreamMessage) = <<Status(b)>> \o Without(inbox', StreamMessage)
    <3>1. inbox = <<Status(b)>> \o inbox'
      BY <1>2, <2>1
    <3> DEFINE new == inbox'
    <3>2. new \in Seq(Message) /\ inbox = <<Status(b)>> \o new
      BY <1>2, <3>1
    <3> HIDE DEF new
    <3>3. Without(<<Status(b)>> \o new, StreamMessage) = <<Status(b)>> \o Without(new, StreamMessage)
      BY <3>2, StatusesOf
    <3>4. Without(inbox, StreamMessage) = <<Status(b)>> \o Without(new, StreamMessage)
      BY <3>2, <3>3
    <3> QED BY <3>4 DEF new
  <2>4. Without(inbox', StreamMessage) \in Seq(Message)
    BY <1>2, StatusesOf
  <2>5. Status(banner) \in Message /\ Status(b) \in Message
    BY <1>2, Messages
  <2>6. Newest(Status(banner), <<Status(b)>> \o Without(inbox', StreamMessage))
          = Newest(Status(b), Without(inbox', StreamMessage))
    BY <2>4, <2>5, NewestIs
  <2>7. Believes'
    BY <1>3, <2>2, <2>3, <2>6 DEF Believes, Statuses
  <2> QED BY <1>3, <2>2, <2>7 DEF Follows
<1>5. CASE TakenText \/ TakenDone \/ TakenError \/ Ignored
  <2>1. Head(inbox) \in StreamMessage
    <3>1. listening \subseteq Stream
      BY PageTypes, AskedOpens DEF PageInv, PageTyped
    <3> QED BY <1>5, <3>1, Messages, EventKinds DEF TakenText, TakenDone, TakenError, Ignored, Ends
  <2>2. Without(inbox, StreamMessage) = Without(inbox', StreamMessage)
    BY <1>2, <2>1, StatusesOf
  <2>3. banner' = banner
    BY <1>5 DEF TakenText, TakenDone, TakenError, Ignored, TakesText, TakesDone, TakesError
  <2>4. Believes'
    BY <1>3, <2>2, <2>3 DEF Believes, Statuses
  <2>5. disabled' => disabled /\ listening' = listening
    BY <1>5 DEF TakenText, TakenDone, TakenError, Ignored, TakesText, TakesDone, TakesError
  <2> QED BY <1>3, <2>3, <2>4, <2>5 DEF Follows
<1> QED BY <1>1, <1>4, <1>5

\* Every step keeps what the page will believe, and lets it ask again.
LEMMA FollowsKeeps == PageInv /\ Follows /\ [Next]_vars => Follows'
<1> SUFFICES ASSUME PageInv, Follows, [Next]_vars
             PROVE  Follows'
  OBVIOUS
<1>0. /\ inbox \in Seq(Message) /\ banner \in BOOLEAN /\ open \in BOOLEAN
      /\ \A s \in Stream, e \in Event : OfStream(s, e) \in StreamMessage
  BY PageTypes, Messages DEF PageInv, PageTyped
<1>1. CASE ShowChat
  <2>1. /\ inbox' = <<Status(stored)>> /\ banner' = banner /\ stored' = stored
        /\ UNCHANGED <<disabled, listening, backend, store>>
    BY <1>1 DEF ShowChat, store
  <2>2. stored \in BOOLEAN
    BY PageTypes DEF PageInv, PageTyped, BackendTyped
  <2>3. Without(<<Status(stored)>>, StreamMessage) = <<Status(stored)>>
    BY <2>2, StatusesOf
  <2>4. Status(banner) \in Message /\ Status(stored) \in Message /\ << >> \in Seq(Message)
    BY <1>0, <2>2, Messages
  <2>5. Newest(Status(banner), <<Status(stored)>>) = Status(stored)
    BY <2>4, NewestIs
  <2>6. Believes'
    BY <2>1, <2>3, <2>5 DEF Believes, Statuses
  <2> QED BY <2>1, <2>6, StoreStays DEF Follows
<1>2. CASE CloseChat
  BY <1>2, StoreStays DEF CloseChat, Follows
<1>3. CASE Deliver
  BY <1>3, DeliverBelieves
<1>4. ASSUME NEW s \in Stream, Send(s)
      PROVE  Follows'
  <2>1. /\ open' = open /\ UNCHANGED <<banner, stored, backend, store>> /\ s \in listening'
        /\ inbox' = inbox \/ inbox' = inbox \o <<OfStream(s, End("error"))>>
    BY <1>4, SendDoes DEF store
  <2>2. OfStream(s, End("error")) \in StreamMessage
    BY <1>0, EventKinds DEF Ends
  <2>3. Believes => Believes'
    BY <2>1, <2>2, StreamBelieves
  <2> QED BY <2>1, <2>3, StoreStays DEF Follows
<1>5. ASSUME NEW s \in Stream, Receive(s) \/ Finish(s) \/ Broken(s) \/ Backward(s)
      PROVE  Follows'
  <2>1. UNCHANGED <<open, listening, disabled, banner, stored, backend, store>>
    BY <1>5 DEF Receive, Finish, Broken, Backward, ElsewhereUnchanged, store
  <2>2. inbox' = inbox \/ \E m \in StreamMessage : inbox' = inbox \o <<m>>
    <3>1. CASE Receive(s)
      BY <1>0, <3>1, ReceiveDoes
    <3>2. CASE Broken(s)
      <4>1. OfStream(s, End("error")) \in StreamMessage
        BY <1>0, EventKinds DEF Ends
      <4>2. Forward(s, <<End("error")>>)
        BY <3>2 DEF Broken
      <4> QED BY <4>1, <4>2, ForwardDoes
    <3>3. CASE Finish(s) \/ Backward(s)
      BY <3>3 DEF Finish, Backward
    <3> QED BY <1>5, <3>1, <3>2, <3>3
  <2>3. Believes => Believes'
    BY <2>1, <2>2, StreamBelieves
  <2> QED BY <2>1, <2>3, StoreStays DEF Follows
<1>6. CASE Telling
  <2>1. PageStays /\ StoreKnows' /\ stored' \in BOOLEAN
    BY <1>6, TellingDoes DEF Follows, BackendTyped
  <2>2. banner' \in BOOLEAN
    BY <1>0, <2>1 DEF PageStays
  <2>3. CASE Sent(<<Status(stored')>>)
    <3>1. open => inbox' = inbox \o <<Status(stored')>>
      BY <2>3, SentDoes
    <3>2. open => Believes'
      BY <2>1, <2>2, <3>1, ToldBelieves
    <3> QED BY <2>1, <3>2 DEF Follows, PageStays
  <2>4. CASE inbox' = inbox /\ stored' = stored
    <3>1. Believes => Believes'
      BY <2>1, <2>4 DEF Believes, Statuses, PageStays
    <3> QED BY <2>1, <3>1 DEF Follows, PageStays
  <2> QED BY <1>6, <2>3, <2>4, TellingDoes
<1>7. CASE UNCHANGED vars
  <2>1. UNCHANGED <<open, inbox, banner, disabled, listening, stored, backend, store>>
    BY <1>7 DEF vars, page, store
  <2>2. Believes => Believes'
    BY <2>1 DEF Believes, Statuses
  <2> QED BY <2>1, <2>2, StoreStays DEF Follows
<1> QED BY <1>1, <1>2, <1>3, <1>4, <1>5, <1>6, <1>7 DEF Next, StreamNext, Telling

\* Without a page there is nothing to believe.
LEMMA FollowsStarts == Init => Follows
BY DEF Init, Follows, StoreKnows, Available

\* What the page believes of the backend once it has taken what is on its way is what
\* the store holds; that is what the supervisor knows, unless a diagnosis wrote it last;
\* and the input of the page is disabled only by that or by an answer that is awaited
\* (store-bridge.ts, chat.ts, and _syncStore of backend-manager.ts).
THEOREM PageIsTold == Spec => []PageFollows
<1>1. Spec => []Follows
  BY PageAlways, FollowsStarts, FollowsKeeps, PTL DEF Spec
<1> QED BY <1>1, FollowsIs, PTL

-----------------------------------------------------------------------------
(* The text on its way *)

\* A beginning, as the library says it.
LEMMA BeginningIs ==
  ASSUME NEW T, NEW a \in Seq(T), NEW b \in Seq(T)
  PROVE  IsPrefix(a, a \o b)
<1> DEFINE c == a \o b
<1>1. /\ c \in Seq(T) /\ Len(c) = Len(a) + Len(b) /\ Len(a) \in Nat /\ Len(b) \in Nat
  BY ConcatProperties
<1>2. SubSeq(a, 1, Len(a)) = SubSeq(c, 1, Len(a))
  <2>1. CASE Len(a) = 0
    BY <2>1, <1>1, SubSeqEmpty
  <2>2. CASE Len(a) # 0
    <3>1. 1 \in 1..Len(a) /\ Len(a) \in 1..Len(a)
      BY <1>1, <2>2
    <3> QED BY <3>1, SubSeqOfConcat1
  <2> QED BY <2>1, <2>2
<1> HIDE DEF c
<1>3. Len(a) <= Len(c)
  BY <1>1
<1>4. IsPrefix(a, c)
  BY <1>2, <1>3 DEF IsPrefix
<1> QED BY <1>4 DEF c

\* The text among events: it is there in its order, and nothing else is.
LEMMA TextsOf ==
  /\ \A q \in Seq(Event) : Texts(q) \in Seq(Event)
  /\ \A q, r \in Seq(Event) : Texts(q \o r) = Texts(q) \o Texts(r)
  /\ Texts(<< >>) = << >>
  /\ \A e \in Event : /\ e.kind = "text" => Texts(<<e>>) = <<e>>
                      /\ e.kind # "text" => Texts(<<e>>) = << >>
                      /\ <<e>> \in Seq(Event)
<1>1. \A q \in Seq(Event) : Texts(q) \in Seq(Event)
  BY WithoutElements DEF Texts
<1>2. \A q, r \in Seq(Event) : Texts(q \o r) = Texts(q) \o Texts(r)
  BY WithoutConcat DEF Texts
<1>3. Texts(<< >>) = << >>
  BY WithoutFew DEF Texts
<1>4. \A e \in Event : /\ e.kind = "text" => Texts(<<e>>) = <<e>>
                       /\ e.kind # "text" => Texts(<<e>>) = << >>
  BY WithoutFew DEF Texts, Wordless
<1>5. \A e \in Event : <<e>> \in Seq(Event)
  OBVIOUS
<1> QED BY <1>1, <1>2, <1>3, <1>4, <1>5

\* One event more, or one less.
LEMMA TextsMore ==
  ASSUME NEW q \in Seq(Event), NEW e \in Event, NEW r, r = Append(q, e)
  PROVE  Texts(r) = Texts(q) \o Texts(<<e>>)
<1>1. r = q \o <<e>> /\ <<e>> \in Seq(Event)
  BY AppendIsConcat
<1> QED BY <1>1, TextsOf

\* The text of a queue is that of its first event, then that of the rest.
LEMMA TextsLess ==
  ASSUME NEW q \in Seq(Event), q # << >>, NEW r, r = Tail(q)
  PROVE  /\ Texts(q) = Texts(<<q[1]>>) \o Texts(r)
         /\ q[1] \in Event /\ r \in Seq(Event)
<1>1. /\ r \in Seq(Event) /\ Head(q) \in Event /\ Head(q) = q[1]
      /\ q = <<Head(q)>> \o r
  BY OneLess
<1> DEFINE e == q[1]
<1>2. e \in Event /\ <<e>> \in Seq(Event) /\ q = <<e>> \o r
  BY <1>1
<1> HIDE DEF e
<1>3. Texts(<<e>> \o r) = Texts(<<e>>) \o Texts(r)
  BY <1>1, <1>2, TextsOf
<1>4. Texts(q) = Texts(<<e>>) \o Texts(r)
  BY <1>2, <1>3
<1> QED BY <1>1, <1>4 DEF e

\* An element before or after a sequence.
LEMMA AtTheEnds ==
  ASSUME NEW T, NEW q \in Seq(T), NEW x \in T,
         NEW more, more = q \o <<x>>, NEW less, less = <<x>> \o q
  PROVE  /\ more \in Seq(T) /\ Len(more) = Len(q) + 1 /\ more[Len(q) + 1] = x
         /\ less \in Seq(T) /\ Len(less) = Len(q) + 1 /\ less[1] = x
         /\ \A i \in 1..Len(q) : more[i] = q[i] /\ less[i + 1] = q[i]
<1> DEFINE one == <<x>>
<1>1. /\ one \in Seq(T) /\ Len(one) = 1 /\ one[1] = x /\ Len(q) \in Nat
      /\ more = q \o one /\ less = one \o q
  OBVIOUS
<1> HIDE DEF one
<1>2. /\ more \in Seq(T) /\ Len(more) = Len(q) + Len(one)
      /\ \A i \in 1..Len(q) + Len(one) :
           more[i] = IF i <= Len(q) THEN q[i] ELSE one[i - Len(q)]
  BY <1>1, ConcatProperties
<1>3. /\ less \in Seq(T) /\ Len(less) = Len(one) + Len(q)
      /\ \A i \in 1..Len(one) + Len(q) :
           less[i] = IF i <= Len(one) THEN one[i] ELSE q[i - Len(one)]
  BY <1>1, ConcatProperties
<1>4. Len(more) = Len(q) + 1 /\ more[Len(q) + 1] = x /\ \A i \in 1..Len(q) : more[i] = q[i]
  BY <1>1, <1>2
<1>5. Len(less) = Len(q) + 1 /\ less[1] = x /\ \A i \in 1..Len(q) : less[i + 1] = q[i]
  BY <1>1, <1>3
<1> QED BY <1>2, <1>3, <1>4, <1>5

\* The events of messages.
EventsOf(q) == [i \in DOMAIN q |-> q[i].event]

\* They are in the order of the messages.
LEMMA EventsMore ==
  ASSUME NEW q \in Seq(StreamMessage), NEW m \in StreamMessage, NEW e, e = m.event
  PROVE  /\ e \in Event /\ EventsOf(q) \in Seq(Event)
         /\ EventsOf(q \o <<m>>) = EventsOf(q) \o <<e>>
         /\ EventsOf(<<m>> \o q) = <<e>> \o EventsOf(q)
<1>1. \A x \in StreamMessage : x.event \in Event
  <2> TAKE x \in StreamMessage
  <2>1. PICK s \in Stream, f \in Event : x = OfStream(s, f)
    BY DEF StreamMessage
  <2> QED BY <2>1, Messages
<1>2. \A r \in Seq(StreamMessage) :
        /\ EventsOf(r) \in Seq(Event) /\ Len(EventsOf(r)) = Len(r)
        /\ \A i \in 1..Len(r) : EventsOf(r)[i] = r[i].event
  <2> TAKE r \in Seq(StreamMessage)
  <2>1. \A i \in 1..Len(r) : r[i].event \in Event
    BY <1>1
  <2>2. Len(r) \in Nat /\ DOMAIN r = 1..Len(r)
    OBVIOUS
  <2> QED BY <2>1, <2>2 DEF EventsOf
<1> DEFINE more == q \o <<m>>
           less == <<m>> \o q
           events == EventsOf(q)
           after == events \o <<e>>
           before == <<e>> \o events
<1>3. /\ more \in Seq(StreamMessage) /\ Len(more) = Len(q) + 1 /\ more[Len(q) + 1] = m
      /\ less \in Seq(StreamMessage) /\ Len(less) = Len(q) + 1 /\ less[1] = m
      /\ \A i \in 1..Len(q) : more[i] = q[i] /\ less[i + 1] = q[i]
  BY AtTheEnds
<1>4. /\ events \in Seq(Event) /\ Len(events) = Len(q) /\ Len(q) \in Nat /\ e \in Event
      /\ \A i \in 1..Len(q) : events[i] = q[i].event
  BY <1>1, <1>2
<1> HIDE DEF events, more, less
<1>5. /\ after \in Seq(Event) /\ Len(after) = Len(events) + 1 /\ after[Len(events) + 1] = e
      /\ before \in Seq(Event) /\ Len(before) = Len(events) + 1 /\ before[1] = e
      /\ \A i \in 1..Len(events) : after[i] = events[i] /\ before[i + 1] = events[i]
  BY <1>4, AtTheEnds
<1> HIDE DEF after, before
<1>6. EventsOf(more) = after
  <2>1. /\ EventsOf(more) \in Seq(Event) /\ Len(EventsOf(more)) = Len(after)
        /\ \A i \in 1..Len(more) : EventsOf(more)[i] = more[i].event
    BY <1>2, <1>3, <1>4, <1>5
  <2>2. ASSUME NEW i \in 1..Len(EventsOf(more))
        PROVE  EventsOf(more)[i] = after[i]
    <3>1. i \in 1..Len(more) /\ (i \in 1..Len(q) \/ i = Len(q) + 1)
      BY <1>2, <1>3, <1>4, <1>5, <2>1
    <3>2. EventsOf(more)[i] = more[i].event
      BY <2>1, <3>1
    <3> QED BY <1>3, <1>4, <1>5, <3>1, <3>2
  <2> QED BY <1>5, <2>1, <2>2, SeqEqual
<1>7. EventsOf(less) = before
  <2>1. /\ EventsOf(less) \in Seq(Event) /\ Len(EventsOf(less)) = Len(before)
        /\ \A i \in 1..Len(less) : EventsOf(less)[i] = less[i].event
    BY <1>2, <1>3, <1>4, <1>5
  <2>2. ASSUME NEW i \in 1..Len(EventsOf(less))
        PROVE  EventsOf(less)[i] = before[i]
    <3>1. i \in 1..Len(less) /\ (i = 1 \/ i - 1 \in 1..Len(q)) /\ i = (i - 1) + 1
      BY <1>2, <1>3, <1>4, <1>5, <2>1
    <3>2. EventsOf(less)[i] = less[i].event
      BY <2>1, <3>1
    <3>3. CASE i = 1
      BY <1>3, <1>5, <3>2, <3>3
    <3>4. CASE i - 1 \in 1..Len(q)
      <4> DEFINE k == i - 1
      <4>1. k \in 1..Len(q) /\ i = k + 1
        BY <3>1, <3>4
      <4> HIDE DEF k
      <4>2. less[i] = q[k] /\ before[i] = events[k] /\ events[k] = q[k].event
        BY <1>3, <1>4, <1>5, <4>1
      <4> QED BY <3>2, <4>2
    <3> QED BY <3>1, <3>3, <3>4
  <2> QED BY <1>5, <2>1, <2>2, SeqEqual
<1> QED BY <1>4, <1>6, <1>7 DEF events, more, less, after, before

\* The text of stream s among the messages q.
Waiting(q, s) == EventsOf(Without(q, AllBut(s)))

\* What is queued of a stream is what waits in the inbox.
LEMMA QueuedIs == \A s : Queued(s) = Waiting(inbox, s)
BY DEF Queued, Waiting, EventsOf

\* It grows by the text that is sent of s, and shrinks by the text that is taken.
LEMMA WaitingOf ==
  ASSUME NEW s \in Stream, NEW q \in Seq(Message)
  PROVE  /\ Waiting(q, s) \in Seq(Event)
         /\ \A m \in Message :
              /\ m \in AllBut(s) =>
                   Waiting(q \o <<m>>, s) = Waiting(q, s) /\ Waiting(<<m>> \o q, s) = Waiting(q, s)
              /\ m \notin AllBut(s) =>
                   /\ Waiting(q \o <<m>>, s) = Waiting(q, s) \o <<m.event>>
                   /\ Waiting(<<m>> \o q, s) = <<m.event>> \o Waiting(q, s)
<1> DEFINE gone == AllBut(s)
           rest == Without(q, gone)
<1>1. \A m \in Message : m \notin gone => m \in StreamMessage
  BY Messages DEF AllBut
<1> HIDE DEF gone
<1>2. rest \in Seq(Message) /\ ToSet(rest) = ToSet(q) \ gone
  BY WithoutElements
<1> HIDE DEF rest
<1>3. rest \in Seq(StreamMessage)
  <2>1. \A i \in 1..Len(rest) : rest[i] \in StreamMessage
    BY <1>1, <1>2 DEF ToSet
  <2>2. Len(rest) \in Nat /\ rest \in [1..Len(rest) -> Message]
    BY <1>2
  <2>3. rest \in [1..Len(rest) -> StreamMessage]
    BY <2>1, <2>2
  <2> QED BY <2>2, <2>3
<1>4. Waiting(q, s) = EventsOf(rest)
  BY DEF Waiting, rest, gone
<1>5. ASSUME NEW m \in Message
      PROVE  /\ Waiting(q \o <<m>>, s) = EventsOf(rest \o Without(<<m>>, gone))
             /\ Waiting(<<m>> \o q, s) = EventsOf(Without(<<m>>, gone) \o rest)
  <2> DEFINE one == <<m>>
  <2>1. one \in Seq(Message)
    OBVIOUS
  <2> HIDE DEF one
  <2>2. /\ Without(q \o one, gone) = rest \o Without(one, gone)
        /\ Without(one \o q, gone) = Without(one, gone) \o rest
    BY <2>1, WithoutConcat DEF rest
  <2> QED BY <2>2 DEF Waiting, one, gone
<1>6. ASSUME NEW m \in Message, m \in gone
      PROVE  Waiting(q \o <<m>>, s) = Waiting(q, s) /\ Waiting(<<m>> \o q, s) = Waiting(q, s)
  <2>1. Without(<<m>>, gone) = << >>
    BY <1>6, WithoutFew
  <2>2. rest \o << >> = rest /\ << >> \o rest = rest
    BY <1>3, ConcatEmptySeq
  <2> QED BY <1>4, <1>5, <2>1, <2>2
<1>7. ASSUME NEW m \in Message, m \notin gone
      PROVE  /\ Waiting(q \o <<m>>, s) = Waiting(q, s) \o <<m.event>>
             /\ Waiting(<<m>> \o q, s) = <<m.event>> \o Waiting(q, s)
  <2>1. Without(<<m>>, gone) = <<m>>
    BY <1>7, WithoutFew
  <2>2. m \in StreamMessage
    BY <1>1, <1>7
  <2>3. /\ EventsOf(rest \o <<m>>) = EventsOf(rest) \o <<m.event>>
        /\ EventsOf(<<m>> \o rest) = <<m.event>> \o EventsOf(rest)
    BY <1>3, <2>2, EventsMore
  <2> QED BY <1>4, <1>5, <2>1, <2>3
<1>8. Waiting(q, s) \in Seq(Event)
  <2>1. CASE rest = << >>
    <3>1. EventsOf(rest) = << >>
      BY <2>1 DEF EventsOf
    <3> QED BY <1>4, <3>1
  <2>2. CASE rest # << >>
    <3>1. rest[1] \in StreamMessage
      BY <1>3, <2>2
    <3> QED BY <1>3, <1>4, <3>1, EventsMore
  <2> QED BY <2>1, <2>2
<1> QED BY <1>6, <1>7, <1>8 DEF gone

\* Nothing waits when no text of s was sent.
LEMMA NothingWaits ==
  ASSUME NEW s \in Stream, NEW q \in Seq(Message),
         \A i \in DOMAIN q : q[i] \in AllBut(s)
  PROVE  Waiting(q, s) = << >>
<1> DEFINE rest == Without(q, AllBut(s))
<1>1. rest \in Seq(Message) /\ ToSet(rest) = ToSet(q) \ AllBut(s)
  BY WithoutElements
<1>2. ToSet(q) \subseteq AllBut(s)
  BY DEF ToSet
<1> HIDE DEF rest
<1>3. \A i \in 1..Len(rest) : rest[i] \in ToSet(rest)
  BY <1>1 DEF ToSet
<1>4. rest = << >>
  BY <1>1, <1>2, <1>3
<1>5. EventsOf(rest) = << >>
  BY <1>4 DEF EventsOf
<1> QED BY <1>5 DEF Waiting, rest

\* The text that is written and not yet read, and the text the provider has said.
Unread(s) == Texts(wire[s])
Spoken(s) == Texts(said[s])
Coming(s) == Texts(Offered(relay[s])) \o Texts(Offered(producer[s]))
Got(s) == shown[s] \o Waiting(inbox, s)
Line(s) == Got(s) \o Unread(s)

\* Nothing broke on the way from the provider.
Whole(s) == handler[s] \in {"serving", "returned"} /\ client[s] # "cut"

InLine(s) ==
  /\ \E rest \in Seq(Event) : Line(s) \o rest = Spoken(s)
  /\ Whole(s) => Line(s) \o Coming(s) = Spoken(s)

Lined == \A s \in listening : InLine(s)

\* All these are events.
LEMMA TextTypes ==
  ASSUME PageInv, NEW s \in Stream
  PROVE  /\ said[s] \in Seq(Event) /\ wire[s] \in Seq(Event) /\ shown[s] \in Seq(Event)
         /\ inbox \in Seq(Message) /\ relay[s] \in Goroutine /\ producer[s] \in Goroutine
         /\ Unread(s) \in Seq(Event) /\ Spoken(s) \in Seq(Event) /\ Coming(s) \in Seq(Event)
         /\ Texts(Offered(relay[s])) \in Seq(Event) /\ Texts(Offered(producer[s])) \in Seq(Event)
         /\ Waiting(inbox, s) \in Seq(Event)
         /\ Got(s) \in Seq(Event) /\ Line(s) \in Seq(Event)
<1>1. /\ said[s] \in Seq(Event) /\ wire[s] \in Seq(Event)
      /\ relay[s] \in Goroutine /\ producer[s] \in Goroutine
  BY StreamTypes DEF PageInv, StreamInv, StreamTyped
<1>2. shown[s] \in Seq(Event) /\ inbox \in Seq(Message)
  BY PageTypes DEF PageInv, PageTyped
<1>3. \A g \in Goroutine : Texts(Offered(g)) \in Seq(Event)
  <2> TAKE g \in Goroutine
  <2>1. Offered(g) = << >> \/ \E e \in Event : Offered(g) = <<e>>
    BY OfferIsEvent, Goroutines
  <2>2. Offered(g) \in Seq(Event)
    <3>1. CASE Offered(g) = << >>
      BY <3>1
    <3>2. ASSUME NEW e \in Event, Offered(g) = <<e>>
          PROVE  Offered(g) \in Seq(Event)
      BY <3>2, TextsOf
    <3> QED BY <2>1, <3>1, <3>2
  <2> QED BY <2>2, TextsOf
<1>4. Waiting(inbox, s) \in Seq(Event)
  BY <1>2, WaitingOf
<1>5. Unread(s) \in Seq(Event) /\ Spoken(s) \in Seq(Event)
  BY <1>1, TextsOf DEF Unread, Spoken
<1>6. Coming(s) \in Seq(Event)
  BY <1>1, <1>3, ConcatProperties DEF Coming
<1> DEFINE old == shown[s]
<1>7. Got(s) = old \o Waiting(inbox, s) /\ old \in Seq(Event)
  BY <1>2 DEF Got
<1> HIDE DEF old
<1>8. Got(s) \in Seq(Event)
  BY <1>4, <1>7, ConcatProperties
<1>9. Line(s) \in Seq(Event)
  BY <1>5, <1>8, ConcatProperties DEF Line
<1> QED BY <1>1, <1>2, <1>3, <1>4, <1>5, <1>6, <1>8, <1>9

\* The text of an event that a goroutine offers, and of one that offers nothing.
LEMMA OfferedText ==
  /\ \A e : Texts(Offered(Offers(e))) = Texts(<<e>>)
  /\ Texts(Offered(Off)) = << >> /\ Texts(Offered(Free)) = << >> /\ Texts(Offered(Gone)) = << >>
  /\ \A e \in Ends : Texts(<<e>>) = << >>
<1>1. \A e \in Ends : e \in Event /\ e.kind # "text"
  BY EventKinds DEF Ends
<1> QED BY <1>1, Goroutines, TextsOf

\* A step that moves no text, or moves it along the line, keeps the line.
LEMMA LineKeeps ==
  ASSUME NEW t, InLine(t), Line(t)' = Line(t), Spoken(t)' = Spoken(t),
         Whole(t)' => Whole(t) /\ Coming(t)' = Coming(t)
  PROVE  InLine(t)'
BY DEF InLine

\* The provider says more.
LEMMA SaidLine ==
  ASSUME PageInv, NEW s \in Stream, NEW e \in Event, Said(s, e), InLine(s), Got(s)' = Got(s)
  PROVE  InLine(s)'
<1> DEFINE W == Texts(<<e>>)
           R == Texts(Offered(relay[s]))
<1>1. /\ W \in Seq(Event) /\ R \in Seq(Event) /\ Line(s) \in Seq(Event)
      /\ Spoken(s) \in Seq(Event) /\ said[s] \in Seq(Event)
  BY TextTypes, TextsOf
<1>2. Spoken(s)' = Spoken(s) \o W
  <2>1. CASE e \notin Ends
    <3>1. said'[s] = Append(said[s], e)
      BY <2>1 DEF Said
    <3> QED BY <1>1, <3>1, TextsMore DEF Spoken
  <2>2. CASE e \in Ends
    <3>1. W = << >> /\ Spoken(s)' = Spoken(s)
      BY <2>2, OfferedText DEF Said, Spoken
    <3> QED BY <1>1, <3>1, ConcatEmptySeq
  <2> QED BY <2>1, <2>2
<1>3. Line(s)' = Line(s)
  BY DEF Line, Unread, Said
<1>4. Coming(s) = R /\ Coming(s)' = R \o W
  <2>1. producer[s] = Free /\ producer'[s] = Offers(e) /\ relay'[s] = relay[s]
    BY DEF Said
  <2>2. Coming(s) = R \o << >> /\ Coming(s)' = R \o W
    BY <2>1, OfferedText DEF Coming
  <2> QED BY <1>1, <2>2, ConcatEmptySeq
<1>5. Whole(s)' = Whole(s)
  BY DEF Whole, Said
<1> HIDE DEF W, R
<1>6. \A r \in Seq(Event) : Line(s) \o r = Spoken(s) => Line(s) \o (r \o W) = Spoken(s) \o W
  <2> TAKE r \in Seq(Event)
  <2>1. (Line(s) \o r) \o W = Line(s) \o (r \o W)
    BY <1>1, ConcatAssociative
  <2> QED BY <2>1
<1>7. \E rest \in Seq(Event) : Line(s)' \o rest = Spoken(s)'
  <2>1. PICK rest \in Seq(Event) : Line(s) \o rest = Spoken(s)
    BY DEF InLine
  <2>2. rest \o W \in Seq(Event) /\ Line(s) \o (rest \o W) = Spoken(s) \o W
    BY <1>1, <1>6, <2>1, ConcatProperties
  <2> QED BY <1>2, <1>3, <2>2
<1>8. Whole(s)' => Line(s)' \o Coming(s)' = Spoken(s)'
  <2> SUFFICES ASSUME Whole(s)'
               PROVE  Line(s)' \o Coming(s)' = Spoken(s)'
    OBVIOUS
  <2>1. Line(s) \o R = Spoken(s)
    BY <1>4, <1>5 DEF InLine
  <2>2. Line(s) \o (R \o W) = Spoken(s) \o W
    BY <1>1, <1>6, <2>1
  <2> QED BY <1>2, <1>3, <1>4, <2>2
<1> QED BY <1>7, <1>8 DEF InLine

\* The relay takes what the provider has said.
LEMMA TakenLine ==
  ASSUME PageInv, NEW s \in Stream, NEW e \in Event, Taken(s, e), InLine(s), Got(s)' = Got(s)
  PROVE  InLine(s)'
<1> DEFINE W == Texts(<<e>>)
<1>1. W \in Seq(Event)
  BY TextsOf
<1>2. Texts(Offered(AfterOffer(s, e))) = << >>
  <2>1. End("done") \in Ends
    BY DEF Ends
  <2> QED BY <2>1, AfterOfferIs, OfferedText
<1>3. Coming(s) = << >> \o W /\ Coming(s)' = W \o << >>
  BY <1>2, OfferedText DEF Coming, Taken
<1>4. Coming(s)' = Coming(s)
  BY <1>1, <1>3, ConcatEmptySeq
<1>5. Line(s)' = Line(s) /\ Spoken(s)' = Spoken(s) /\ Whole(s)' = Whole(s)
  BY DEF Line, Unread, Spoken, Whole, Taken
<1> QED BY <1>4, <1>5, LineKeeps

\* The handler writes it, to a client that reads.
LEMMA GivenLine ==
  ASSUME PageInv, NEW s \in Stream, NEW e \in Event, Given(s, e), InLine(s), Got(s)' = Got(s)
  PROVE  InLine(s)'
<1> DEFINE W == Texts(<<e>>)
           P == Texts(Offered(producer[s]))
<1>1. /\ W \in Seq(Event) /\ P \in Seq(Event) /\ Line(s) \in Seq(Event)
      /\ Got(s) \in Seq(Event) /\ Unread(s) \in Seq(Event) /\ wire[s] \in Seq(Event)
  BY TextTypes, TextsOf
<1>2. Stage(s) /\ Spoken(s)' = Spoken(s)
  BY DEF PageInv, StreamInv, Stages, Spoken, Given
<1>3. CASE client[s] = "reading"
  <2>1. Whole(s) /\ wire'[s] = Append(wire[s], e)
    BY <1>3 DEF Whole, Given
  <2>2. Unread(s)' = Unread(s) \o W
    BY <1>1, <2>1, TextsMore DEF Unread
  <2>3. relay[s] = Offers(e) /\ (relay'[s] = Gone \/ relay'[s] = Free) /\ producer'[s] = producer[s]
    BY DEF Given
  <2>4. Coming(s) = W \o P /\ Coming(s)' = << >> \o P
    BY <2>3, OfferedText DEF Coming
  <2>5. << >> \o P = P
    BY <1>1, ConcatEmptySeq
  <2> HIDE DEF W, P
  <2>6. Line(s)' = Line(s) \o W
    <3>1. Line(s)' = Got(s) \o (Unread(s) \o W)
      BY <2>2 DEF Line
    <3> QED BY <1>1, <3>1, ConcatAssociative DEF Line
  <2>7. (Line(s) \o W) \o P = Line(s) \o (W \o P)
    BY <1>1, ConcatAssociative
  <2>8. Line(s) \o (W \o P) = Spoken(s)
    BY <2>1, <2>4 DEF InLine
  <2>9. Line(s)' \o P = Spoken(s)' /\ Coming(s)' = P
    BY <1>2, <2>4, <2>5, <2>6, <2>7, <2>8
  <2> QED BY <1>1, <2>9 DEF InLine
<1>4. CASE client[s] # "reading"
  <2>1. client[s] = "cut"
    <3>1. client[s] \in {"off", "reading", "over", "cut"}
      BY StreamTypes DEF PageInv, StreamInv, StreamTyped
    <3> QED BY <1>2, <1>4, <3>1 DEF Stage, Given
  <2>2. ~Whole(s)' /\ Line(s)' = Line(s)
    BY <1>4, <2>1 DEF Whole, Line, Unread, Given
  <2> QED BY <1>2, <2>2, LineKeeps
<1> QED BY <1>3, <1>4

\* A connection that breaks loses the end of what was said.
LEMMA CutLine ==
  ASSUME PageInv, NEW s \in Stream, WasCut(s), InLine(s), Got(s)' = Got(s)
  PROVE  InLine(s)'
<1>1. /\ Got(s) \in Seq(Event) /\ Unread(s) \in Seq(Event)
      /\ Spoken(s)' = Spoken(s) /\ ~Whole(s)'
  BY TextTypes DEF Spoken, Whole, WasCut
<1>2. Line(s)' = Got(s)
  <2>1. Unread(s)' = << >>
    BY TextsOf DEF Unread, WasCut
  <2> QED BY <1>1, <2>1, ConcatEmptySeq DEF Line
<1>3. PICK rest \in Seq(Event) : Line(s) \o rest = Spoken(s)
  BY DEF InLine
<1>4. (Got(s) \o Unread(s)) \o rest = Got(s) \o (Unread(s) \o rest)
  BY <1>1, ConcatAssociative
<1>5. Unread(s) \o rest \in Seq(Event)
  BY <1>1, ConcatProperties
<1> QED BY <1>1, <1>2, <1>3, <1>4, <1>5 DEF InLine, Line

\* A message is added that is no text of stream t.
LEMMA GotStays ==
  ASSUME PageInv, NEW t \in Stream, shown'[t] = shown[t],
         inbox' = inbox \/ \E m \in Message : m \in AllBut(t) /\ inbox' = inbox \o <<m>>
  PROVE  Got(t)' = Got(t)
<1>1. inbox \in Seq(Message)
  BY TextTypes
<1>2. Waiting(inbox', t) = Waiting(inbox, t)
  BY <1>1, WaitingOf
<1> QED BY <1>2 DEF Got

\* Which messages are no text of t.
LEMMA NoTextOf ==
  ASSUME NEW t \in Stream
  PROVE  /\ \A b \in BOOLEAN : Status(b) \in AllBut(t)
         /\ \A s \in Stream, e \in Event :
              OfStream(s, e) \in AllBut(t) <=> s # t \/ e.kind # "text"
BY Messages DEF AllBut

\* A stream and the page's part of it stay as they are.
LEMMA UnmovedLine ==
  ASSUME NEW t, InLine(t), Unmoved(t), Got(t)' = Got(t)
  PROVE  InLine(t)'
<1>1. Line(t)' = Line(t) /\ Spoken(t)' = Spoken(t) /\ Whole(t)' = Whole(t) /\ Coming(t)' = Coming(t)
  BY DEF Line, Unread, Spoken, Whole, Coming, Unmoved
<1> QED BY <1>1, LineKeeps

\* The steps of a stream in the backend.
LEMMA BackendLine ==
  ASSUME PageInv, NEW s \in Stream, BackendStep(s), NEW t \in Stream, InLine(t), Got(t)' = Got(t)
  PROVE  InLine(t)'
<1> USE DEF PageInv, StreamInv
<1>0. Stage(s)
  BY DEF Stages
<1>1. CASE s # t
  <2>1. Alone(s)
    BY AskDoes, RelayTakesDoes, RelayGivesDoes, RelayStopsDoes, HandlerStopsDoes DEF BackendStep
  <2> QED BY <1>1, <2>1, UnmovedLine DEF Alone
<1>2. CASE s = t
  <2>1. CASE Ask(s)
    BY <1>2, <2>1, AskDoes, SaidLine
  <2>2. CASE RelayTakes(s)
    BY <1>2, <2>2, RelayTakesDoes, TakenLine
  <2>3. CASE RelayGives(s)
    BY <1>2, <2>3, RelayGivesDoes, GivenLine
  <2>4. CASE RelayStops(s)
    <3>1. Stopped(s)
      BY <2>4, RelayStopsDoes
    <3>2. ~Whole(s)'
      BY <1>0, <3>1 DEF Whole, Stage, Stopped, Cancelled
    <3>3. Line(s)' = Line(s) /\ Spoken(s)' = Spoken(s)
      BY <1>2, <3>1 DEF Line, Unread, Spoken, Stopped
    <3> QED BY <1>2, <3>2, <3>3, LineKeeps
  <2>5. CASE HandlerStops(s)
    <3>1. Returned(s)
      BY <2>5, HandlerStopsDoes
    <3>2. ~Whole(s)' /\ Line(s)' = Line(s) /\ Spoken(s)' = Spoken(s)
      BY <1>2, <3>1 DEF Whole, Line, Unread, Spoken, Returned
    <3> QED BY <1>2, <3>2, LineKeeps
  <2> QED BY <2>1, <2>2, <2>3, <2>4, <2>5 DEF BackendStep
<1> QED BY <1>1, <1>2

\* Those who took part in a stream are gone with the backend, when they had not yet
\* said and passed on all of it.
LEMMA DeathLine ==
  ASSUME PageInv, BackendDies, NEW t \in Stream, InLine(t), Got(t)' = Got(t)
  PROVE  InLine(t)'
<1>1. /\ said'[t] = said[t] /\ wire'[t] = wire[t] /\ client'[t] = client[t]
      /\ handler[t] = "serving" => handler'[t] = "died"
      /\ handler[t] # "serving" => handler'[t] = handler[t]
      /\ handler[t] # "off" => producer'[t] = Gone /\ relay'[t] = Gone
  BY BackendDiesDoes DEF PageInv, StreamInv
<1>2. Line(t)' = Line(t) /\ Spoken(t)' = Spoken(t)
  BY <1>1 DEF Line, Unread, Spoken
<1>3. ASSUME Whole(t)'
      PROVE  Whole(t) /\ Coming(t)' = Coming(t)
  <2>1. handler[t] = "returned" /\ client[t] # "cut"
    BY <1>1, <1>3 DEF Whole
  <2>2. relay[t] = Gone /\ Over(t)
    BY <2>1 DEF PageInv, StreamInv, Stages, Stage
  <2>3. Texts(Offered(producer[t])) = << >> /\ Texts(Offered(relay[t])) = << >>
    BY <2>2, OfferedText DEF Over
  <2>4. producer'[t] = Gone /\ relay'[t] = Gone
    BY <1>1, <2>1
  <2>5. Coming(t) = << >> \o << >> /\ Coming(t)' = << >> \o << >>
    BY <2>3, <2>4, OfferedText DEF Coming
  <2> QED BY <2>1, <2>5 DEF Whole
<1> QED BY <1>2, <1>3, LineKeeps

\* An event that is read is the next the page hears.
LEMMA ReceiveLine ==
  ASSUME PageInv, NEW s \in Stream, Receive(s), NEW t \in listening, InLine(t)
  PROVE  InLine(t)'
<1>1. t \in Stream /\ t \in Asked
  BY PageTypes, AskedOpens DEF PageInv, PageTyped
<1>2. Alone(s) /\ WasRead(s) /\ shown' = shown
  BY ReadDoes DEF PageInv, StreamInv, Receive, ElsewhereUnchanged
<1> DEFINE e == wire[s][1]
           W == Texts(<<e>>)
<1>3. /\ e \in Event
      /\ s \in Asked /\ e.kind # "blank" => inbox' = inbox \o <<OfStream(s, e)>>
      /\ ~(s \in Asked /\ e.kind # "blank") => inbox' = inbox
  BY ReceiveDoes
<1>4. OfStream(s, e) \in Message /\ (OfStream(s, e) \in AllBut(t) <=> s # t \/ e.kind # "text")
  BY <1>1, <1>3, NoTextOf, Messages
<1>5. CASE s # t
  <2>1. Got(t)' = Got(t)
    BY <1>1, <1>2, <1>3, <1>4, <1>5, GotStays
  <2> QED BY <1>1, <1>2, <1>5, <2>1, UnmovedLine DEF Alone
<1>6. CASE s = t
  <2>1. /\ Spoken(s)' = Spoken(s) /\ Whole(s)' = Whole(s) /\ Coming(s)' = Coming(s)
        /\ wire[s] \in Seq(Event) /\ shown[s] \in Seq(Event) /\ inbox \in Seq(Message)
        /\ Waiting(inbox, s) \in Seq(Event)
    BY <1>2, TextTypes DEF Spoken, Whole, Coming, WasRead
  <2>2. Unread(s) = W \o Unread(s)' /\ Unread(s)' \in Seq(Event)
    <3>1. wire[s] # << >> /\ wire'[s] = Tail(wire[s])
      BY <1>2 DEF WasRead
    <3>2. Texts(wire[s]) = W \o Texts(wire'[s]) /\ wire'[s] \in Seq(Event)
      BY <2>1, <3>1, TextsLess
    <3> QED BY <3>2, TextsOf DEF Unread
  <2>3. W \in Seq(Event) /\ Got(s) \in Seq(Event)
    BY <1>3, TextTypes, TextsOf
  <2>4. Got(s)' = Got(s) \o W
    <3>1. CASE e.kind = "text"
      <4>1. W = <<e>> /\ OfStream(s, e) \notin AllBut(s) /\ OfStream(s, e).event = e
        BY <1>3, <1>4, <1>6, <3>1, TextsOf, Messages
      <4>2. inbox' = inbox \o <<OfStream(s, e)>>
        BY <1>1, <1>3, <1>6, <3>1
      <4>3. Waiting(inbox', s) = Waiting(inbox, s) \o W
        BY <1>4, <2>1, <4>1, <4>2, WaitingOf
      <4> DEFINE old == shown[s]
      <4>4. /\ Got(s) = old \o Waiting(inbox, s) /\ old \in Seq(Event)
            /\ Got(s)' = old \o (Waiting(inbox, s) \o W)
        BY <1>2, <2>1, <4>3 DEF Got
      <4> HIDE DEF old, W
      <4>5. (old \o Waiting(inbox, s)) \o W = old \o (Waiting(inbox, s) \o W)
        BY <2>1, <2>3, <4>4, ConcatAssociative
      <4> QED BY <4>4, <4>5
    <3>2. CASE e.kind # "text"
      <4>1. W = << >>
        BY <1>3, <3>2, TextsOf
      <4>2. Got(s)' = Got(s)
        BY <1>2, <1>3, <1>4, <3>2, <1>6, GotStays
      <4> QED BY <2>3, <4>1, <4>2, ConcatEmptySeq
    <3> QED BY <3>1, <3>2
  <2> HIDE DEF W
  <2> DEFINE U == Unread(s)'
  <2>5. Line(s)' = (Got(s) \o W) \o U /\ Line(s) = Got(s) \o (W \o U) /\ U \in Seq(Event)
    BY <2>2, <2>4 DEF Line
  <2> HIDE DEF U
  <2>6. Line(s)' = Line(s)
    BY <2>3, <2>5, ConcatAssociative
  <2> QED BY <1>6, <2>1, <2>6, LineKeeps
<1> QED BY <1>5, <1>6

\* The page appends what it takes to what it shows.
LEMMA DeliverGot ==
  ASSUME PageInv, Deliver, NEW t \in listening'
  PROVE  Got(t)' = Got(t) /\ t \in listening /\ t \in Stream /\ Unmoved(t)
<1>1. /\ inbox # << >> /\ inbox' = Tail(inbox) /\ UNCHANGED <<open, streams, backend, store>>
      /\ TakenStatus \/ TakenText \/ TakenDone \/ TakenError \/ Ignored
  BY DeliverDoes
<1>2. t \in listening /\ listening \subseteq Stream
  <2>1. listening' \subseteq listening
    BY <1>1 DEF TakenStatus, TakenText, TakenDone, TakenError, Ignored,
                TakesStatus, TakesText, TakesDone, TakesError
  <2> QED BY <2>1, PageTypes, AskedOpens DEF PageInv, PageTyped
<1>3. Unmoved(t)
  BY <1>1 DEF streams, Unmoved
<1> DEFINE m == Head(inbox)
           new == inbox'
           old == shown[t]
<1>4. /\ new \in Seq(Message) /\ m \in Message /\ inbox = <<m>> \o new
      /\ shown \in [Stream -> Seq(Event)]
  BY <1>1, PageTypes, OneLess DEF PageInv, PageTyped
<1>5. /\ Got(t) = old \o Waiting(inbox, t) /\ old \in Seq(Event) /\ Waiting(new, t) \in Seq(Event)
      /\ Got(t)' = shown'[t] \o Waiting(new, t)
  BY <1>2, <1>4, WaitingOf DEF Got
<1>6. Got(t)' = Got(t)
  <2>1. CASE m \in AllBut(t) /\ shown'[t] = shown[t]
    <3> HIDE DEF m, new
    <3>1. Waiting(inbox, t) = Waiting(new, t)
      BY <1>2, <1>4, <2>1, WaitingOf
    <3> QED BY <1>5, <2>1, <3>1
  <2>2. CASE TakenStatus
    <3>1. m \in AllBut(t) /\ shown'[t] = shown[t]
      BY <1>2, <2>2, NoTextOf DEF TakenStatus, TakesStatus
    <3> QED BY <2>1, <3>1
  <2>3. CASE TakenDone \/ TakenError
    <3>1. PICK s \in listening, e \in Ends : m = OfStream(s, e) /\ UNCHANGED shown
      BY <2>3 DEF TakenDone, TakenError, TakesDone, TakesError, Ends
    <3>2. s \in Stream /\ e \in Event /\ e.kind # "text"
      BY <1>2, EventKinds DEF Ends
    <3>3. m \in AllBut(t) /\ shown'[t] = shown[t]
      BY <1>2, <3>1, <3>2, NoTextOf
    <3> QED BY <2>1, <3>3
  <2>4. CASE Ignored
    <3>1. m \in AllBut(t) /\ shown'[t] = shown[t]
      BY <1>2, <2>4, NoTextOf DEF Ignored
    <3> QED BY <2>1, <3>1
  <2>5. CASE TakenText
    <3>1. PICK s \in listening, e \in Event :
            m = OfStream(s, e) /\ e.kind = "text" /\ TakesText(s, e)
      BY <2>5 DEF TakenText
    <3>2. shown' = [shown EXCEPT ![s] = Append(@, e)]
      BY <3>1 DEF TakesText
    <3>3. CASE s # t
      <4>1. m \in AllBut(t) /\ shown'[t] = shown[t]
        BY <1>2, <1>4, <3>1, <3>2, <3>3, NoTextOf
      <4> QED BY <2>1, <4>1
    <3>4. CASE s = t
      <4>1. m \notin AllBut(t) /\ m.event = e /\ shown'[t] = Append(old, e)
        BY <1>2, <1>4, <3>1, <3>2, <3>4, NoTextOf, Messages
      <4> HIDE DEF m, new, old
      <4>2. Waiting(inbox, t) = <<e>> \o Waiting(new, t)
        BY <1>2, <1>4, <4>1, WaitingOf
      <4>3. shown'[t] = old \o <<e>> /\ <<e>> \in Seq(Event)
        BY <1>5, <4>1, AppendIsConcat
      <4>4. (old \o <<e>>) \o Waiting(new, t) = old \o (<<e>> \o Waiting(new, t))
        BY <1>5, <4>3, ConcatAssociative
      <4> QED BY <1>5, <4>2, <4>3, <4>4
    <3> QED BY <3>3, <3>4
  <2> QED BY <1>1, <2>2, <2>3, <2>4, <2>5
<1> QED BY <1>2, <1>3, <1>6

\* What the page takes moves from its queue to its message: the line stays the same.
LEMMA DeliverLine ==
  ASSUME PageInv, Deliver, NEW t \in listening', t \in listening => InLine(t)
  PROVE  InLine(t)'
BY DeliverGot, UnmovedLine

\* Of a stream that is asked for nothing is on its way yet.
LEMMA SendLine ==
  ASSUME PageInv, NEW s \in Stream, Send(s), NEW t \in listening', t \in listening => InLine(t)
  PROVE  InLine(t)'
<1>1. /\ client[s] = "off" /\ s \notin Asked /\ listening' = listening \cup {s} /\ shown' = shown
      /\ \/ Open(s) /\ inbox' = inbox
         \/ Refused(s) /\ inbox' = inbox \o <<OfStream(s, End("error"))>>
  BY SendDoes
<1>2. End("error") \in Event /\ End("error").kind # "text"
  BY EventKinds DEF Ends
<1>3. t \in Stream
  BY <1>1, PageTypes, AskedOpens DEF PageInv, PageTyped
<1>4. Got(t)' = Got(t)
  <2>1. OfStream(s, End("error")) \in AllBut(t) /\ OfStream(s, End("error")) \in Message
    BY <1>2, <1>3, NoTextOf, Messages
  <2> QED BY <1>1, <1>3, <2>1, GotStays
<1>5. /\ Alone(s) /\ said'[s] = said[s] /\ wire'[s] = wire[s]
      /\ producer'[s] = Free \/ producer'[s] = producer[s]
      /\ relay'[s] = Free \/ relay'[s] = relay[s]
  BY <1>1, OpenDoes, RefusedDoes DEF PageInv, StreamInv, Opened, RefusedIs
<1>6. CASE t # s
  BY <1>1, <1>3, <1>4, <1>5, <1>6, UnmovedLine DEF Alone
<1>7. CASE t = s
  <2>1. /\ wire[s] = << >> /\ said[s] = << >> /\ producer[s] = Off /\ relay[s] = Off
    BY <1>1 DEF PageInv, StreamInv, Stages, Stage
  <2>2. shown[s] = << >>
    BY <1>1 DEF PageInv, Fresh
  <2>3. Waiting(inbox, s) = << >>
    <3>1. inbox \in Seq(Message) /\ \A i \in DOMAIN inbox : inbox[i] \in AllBut(s)
      BY <1>1, PageTypes DEF PageInv, PageTyped, AllBut
    <3> QED BY <3>1, NothingWaits
  <2>4. << >> \o << >> = << >> /\ << >> \in Seq(Event)
    BY ConcatEmptySeq
  <2>5. Got(s)' = << >>
    BY <1>4, <1>7, <2>2, <2>3, <2>4 DEF Got
  <2>6. Unread(s)' = << >> /\ Spoken(s)' = << >>
    BY <1>5, <2>1, TextsOf DEF Unread, Spoken
  <2>7. Line(s)' = << >>
    BY <2>4, <2>5, <2>6 DEF Line
  <2>8. Coming(s)' = << >>
    <3>1. Texts(Offered(relay[s]))' = << >> /\ Texts(Offered(producer[s]))' = << >>
      BY <1>5, <2>1, OfferedText
    <3> QED BY <2>4, <3>1 DEF Coming
  <2> QED BY <1>7, <2>4, <2>6, <2>7, <2>8 DEF InLine
<1> QED BY <1>6, <1>7

\* Every step keeps the lines of the streams a page listens to.
LEMMA LinedKeeps == PageInv /\ Lined /\ [Next]_vars => Lined'
<1> SUFFICES ASSUME PageInv, Lined, [Next]_vars, NEW t \in listening'
             PROVE  InLine(t)'
  BY DEF Lined
<1>0. listening \subseteq Stream /\ inbox \in Seq(Message)
  BY PageTypes, AskedOpens DEF PageInv, PageTyped
<1>1. t \in listening => InLine(t)
  BY DEF Lined
<1>2. CASE ShowChat \/ CloseChat
  BY <1>2 DEF PageInv, Closed, ShowChat, CloseChat
<1>3. CASE Deliver
  BY <1>1, <1>3, DeliverLine
<1>4. ASSUME NEW s \in Stream, Send(s)
      PROVE  InLine(t)'
  BY <1>1, <1>4, SendLine
<1>5. ASSUME NEW s \in Stream, Receive(s) \/ Finish(s) \/ Broken(s) \/ Backward(s)
      PROVE  InLine(t)'
  <2>1. t \in listening /\ t \in Stream /\ shown' = shown
    BY <1>0, <1>5 DEF Receive, Finish, Broken, Backward, ElsewhereUnchanged
  <2>2. CASE Receive(s)
    BY <1>1, <2>1, <2>2, ReceiveLine
  <2>3. CASE Finish(s)
    <3>1. Alone(s) /\ ReadToEnd(s)
      BY <2>3, ReadEndDoes DEF PageInv, StreamInv, Finish
    <3>2. Got(t)' = Got(t)
      BY <2>1, <2>3, GotStays DEF Finish
    <3>3. CASE s # t
      BY <1>1, <2>1, <3>1, <3>2, <3>3, UnmovedLine DEF Alone
    <3>4. CASE s = t
      <4>1. /\ Line(t)' = Line(t) /\ Spoken(t)' = Spoken(t) /\ Coming(t)' = Coming(t)
            /\ Whole(t)' = Whole(t)
        BY <3>1, <3>2, <3>4 DEF Line, Unread, Spoken, Coming, Whole, ReadToEnd
      <4> QED BY <1>1, <2>1, <4>1, LineKeeps
    <3> QED BY <3>3, <3>4
  <2>4. CASE Broken(s)
    <3>1. Alone(s) /\ WasCut(s)
      BY <2>4, CutDoes DEF PageInv, StreamInv, Broken
    <3>2. Got(t)' = Got(t)
      <4>1. End("error") \in Event /\ End("error").kind # "text"
        BY EventKinds DEF Ends
      <4>2. OfStream(s, End("error")) \in AllBut(t) /\ OfStream(s, End("error")) \in Message
        BY <2>1, <4>1, NoTextOf, Messages
      <4>3. inbox' = inbox \/ inbox' = inbox \o <<OfStream(s, End("error"))>>
        BY <2>4, ForwardDoes DEF Broken
      <4> QED BY <2>1, <4>2, <4>3, GotStays
    <3>3. CASE s # t
      BY <1>1, <2>1, <3>1, <3>2, <3>3, UnmovedLine DEF Alone
    <3>4. CASE s = t
      BY <1>1, <2>1, <3>1, <3>2, <3>4, CutLine
    <3> QED BY <3>3, <3>4
  <2>5. CASE Backward(s)
    <3>1. Got(t)' = Got(t)
      BY <2>1, <2>5, GotStays DEF Backward
    <3> QED BY <1>1, <2>1, <2>5, <3>1, BackendLine DEF Backward
  <2> QED BY <1>5, <2>2, <2>3, <2>4, <2>5
<1>6. CASE Telling
  <2>1. t \in listening /\ shown' = shown /\ (BackendDies \/ UNCHANGED streams)
    BY <1>6, TellingDoes DEF PageStays
  <2>2. \A b \in BOOLEAN : Status(b) \in AllBut(t) /\ Status(b) \in Message
    BY <1>0, <2>1, NoTextOf, Messages
  <2>3. Got(t)' = Got(t)
    <3>1. ASSUME NEW b \in BOOLEAN, inbox' = inbox \o <<Status(b)>>
          PROVE  Got(t)' = Got(t)
      BY <1>0, <2>1, <2>2, <3>1, GotStays
    <3>2. CASE inbox' = inbox
      BY <1>0, <2>1, <2>2, <3>2, GotStays
    <3> QED BY <1>6, <3>1, <3>2, TellingSends
  <2>4. UNCHANGED streams => Unmoved(t)
    BY DEF streams, Unmoved
  <2> QED BY <1>0, <1>1, <2>1, <2>3, <2>4, UnmovedLine, DeathLine
<1>7. CASE UNCHANGED vars
  <2>1. t \in listening /\ shown' = shown /\ inbox' = inbox /\ Unmoved(t)
    BY <1>7 DEF vars, page, streams, Unmoved
  <2>2. Got(t)' = Got(t)
    BY <1>0, <2>1, GotStays
  <2> QED BY <1>1, <2>1, <2>2, UnmovedLine
<1> QED BY <1>2, <1>3, <1>4, <1>5, <1>6, <1>7 DEF Next, StreamNext, Telling

\* At first there is no page that listens.
LEMMA LinedStarts == Init => Lined
BY DEF Init, Lined

\* What the property says of the line.
LEMMA LinedInOrder == PageInv /\ Lined => InOrder
<1> SUFFICES ASSUME PageInv, Lined, NEW s \in listening
             PROVE  /\ IsPrefix(shown[s] \o Queued(s), Texts(said[s]))
                    /\ handler[s] \in {"serving", "returned"} /\ client[s] # "cut"
                         => (shown[s] \o Queued(s)) \o OnTheWay(s) = Texts(said[s])
  BY DEF InOrder
<1>1. s \in Stream /\ InLine(s)
  BY PageTypes, AskedOpens DEF PageInv, PageTyped, Lined
<1>2. shown[s] \o Queued(s) = Got(s) /\ Texts(said[s]) = Spoken(s)
  BY QueuedIs DEF Got, Spoken
<1>3. Got(s) \in Seq(Event) /\ Unread(s) \in Seq(Event) /\ Coming(s) \in Seq(Event)
  BY <1>1, TextTypes
<1>4. IsPrefix(Got(s), Spoken(s))
  <2>1. PICK rest \in Seq(Event) : (Got(s) \o Unread(s)) \o rest = Spoken(s)
    BY <1>1 DEF InLine, Line
  <2>2. Got(s) \o (Unread(s) \o rest) = Spoken(s) /\ Unread(s) \o rest \in Seq(Event)
    <3>1. (Got(s) \o Unread(s)) \o rest = Got(s) \o (Unread(s) \o rest)
      BY <1>3, ConcatAssociative
    <3>2. Unread(s) \o rest \in Seq(Event)
      BY <1>3, ConcatProperties
    <3> QED BY <2>1, <3>1, <3>2
  <2>3. IsPrefix(Got(s), Got(s) \o (Unread(s) \o rest))
    BY <1>3, <2>2, BeginningIs
  <2> QED BY <2>2, <2>3
<1>5. OnTheWay(s) = Unread(s) \o Coming(s)
  <2> DEFINE w == wire[s]
             r == Offered(relay[s])
             p == Offered(producer[s])
  <2>1. w \in Seq(Event) /\ r \in Seq(Event) /\ p \in Seq(Event)
    <3>1. relay[s] \in Goroutine /\ producer[s] \in Goroutine /\ wire[s] \in Seq(Event)
      BY <1>1, TextTypes
    <3>2. \A g \in Goroutine : Offered(g) \in Seq(Event)
      <4> TAKE g \in Goroutine
      <4>1. CASE Offered(g) = << >>
        BY <4>1
      <4>2. CASE Offered(g) # << >>
        <5>1. PICK e \in Event : Offered(g) = <<e>>
          BY <4>2, OfferIsEvent, Goroutines
        <5> QED BY <5>1, TextsOf
      <4> QED BY <4>1, <4>2
    <3> QED BY <3>1, <3>2
  <2>2. OnTheWay(s) = Texts((w \o r) \o p)
    BY DEF OnTheWay
  <2>3. Unread(s) = Texts(w) /\ Coming(s) = Texts(r) \o Texts(p)
    BY DEF Unread, Coming
  <2> HIDE DEF w, r, p
  <2>4. w \o r \in Seq(Event)
    BY <2>1, ConcatProperties
  <2>5. /\ Texts((w \o r) \o p) = Texts(w \o r) \o Texts(p)
        /\ Texts(w \o r) = Texts(w) \o Texts(r)
        /\ Texts(w) \in Seq(Event) /\ Texts(r) \in Seq(Event) /\ Texts(p) \in Seq(Event)
    BY <2>1, <2>4, TextsOf
  <2>6. (Texts(w) \o Texts(r)) \o Texts(p) = Texts(w) \o (Texts(r) \o Texts(p))
    BY <2>5, ConcatAssociative
  <2> QED BY <2>2, <2>3, <2>5, <2>6
<1>6. ASSUME Whole(s)
      PROVE  Got(s) \o OnTheWay(s) = Spoken(s)
  <2>1. (Got(s) \o Unread(s)) \o Coming(s) = Spoken(s)
    BY <1>1, <1>6 DEF InLine, Line
  <2>2. (Got(s) \o Unread(s)) \o Coming(s) = Got(s) \o (Unread(s) \o Coming(s))
    BY <1>3, ConcatAssociative
  <2> QED BY <1>5, <2>1, <2>2
<1> QED BY <1>2, <1>4, <1>6 DEF Whole

\* No piece of an answer is lost, doubled or overtaken on its way to the page, unless
\* the connection breaks: then what was heard is a beginning of it.
THEOREM AnswersInOrder == Spec => []InOrder
<1>1. Spec => []Lined
  BY PageAlways, LinedStarts, LinedKeeps, PTL DEF Spec
<1> QED BY <1>1, PageAlways, LinedInOrder, PTL

-----------------------------------------------------------------------------
(* The answers in the conversation *)

Done(s) == OfStream(s, End("done"))

HasDone(s) == \E i \in DOMAIN inbox : inbox[i] = Done(s)

\* Nothing of stream s is left to be read.
Finished(s) == wire[s] = << >> /\ handler[s] = "returned" /\ Over(s)

\* Of a stream whose end is on its way to the page, all has been sent before it.
Dones ==
  /\ \A s \in Stream : HasDone(s) => Finished(s) /\ (s \in listening => Got(s) = Spoken(s))
  /\ \A s \in Stream : \A i, k \in DOMAIN inbox :
       inbox[i] = Done(s) /\ k > i => inbox[k] \in AllBut(s)

\* Each stream is asked for once and answered once, and the answer is what was said.
Conversation ==
  /\ \A i, j \in DOMAIN messages :
       messages[i].role = messages[j].role /\ messages[i].stream = messages[j].stream => i = j
  /\ \A j \in DOMAIN messages : messages[j].role = "assistant" =>
       /\ messages[j].content = Spoken(messages[j].stream)
       /\ Over(messages[j].stream) /\ messages[j].stream \notin listening
       /\ \E i \in DOMAIN messages :
            i < j /\ messages[i].role = "user" /\ messages[i].stream = messages[j].stream

\* A provider that has ended says nothing more.
LEMMA OverStays ==
  ASSUME StreamInv, Streaming, NEW t \in Stream, Over(t)
  PROVE  Over(t)' /\ said'[t] = said[t]
<1> USE DEF StreamInv
<1>0. Stage(t) /\ producer[t] # Free /\ producer[t] # Off
  BY Goroutines DEF Stages, Over
<1>1. CASE BackendDies
  BY <1>0, <1>1, BackendDiesDoes DEF Stage, Over
<1>2. CASE UNCHANGED streams
  BY <1>2 DEF streams, Over
<1>3. ASSUME NEW s \in Stream, StreamStep(s)
      PROVE  Over(t)' /\ said'[t] = said[t]
  <2>1. CASE client[s] = "off" /\ (Open(s) \/ Refused(s))
    <3>1. Alone(s) /\ (Opened(s) \/ RefusedIs(s))
      BY <2>1, OpenDoes, RefusedDoes
    <3>2. Unmoved(t)
      BY <1>0, <2>1, <3>1 DEF Alone, Stage
    <3> QED BY <3>2 DEF Unmoved, Over
  <2>2. CASE Ask(s)
    <3>1. Alone(s) /\ s # t
      BY <1>0, <2>2, AskDoes DEF Said
    <3> QED BY <3>1 DEF Alone, Unmoved, Over
  <2>3. CASE RelayTakes(s)
    <3>1. PICK e \in Event : Alone(s) /\ Taken(s, e)
      BY <2>3, RelayTakesDoes
    <3>2. CASE s # t
      BY <3>1, <3>2 DEF Alone, Unmoved, Over
    <3>3. CASE s = t
      <4>1. e \in Ends
        BY <3>1, <3>3, Goroutines DEF Taken, Over
      <4>2. End("done") \in Ends
        BY DEF Ends
      <4> QED BY <3>1, <3>3, <4>1, <4>2, AfterOfferIs DEF Taken, Over
    <3> QED BY <3>2, <3>3
  <2>4. CASE RelayGives(s) \/ RelayStops(s) \/ HandlerStops(s) \/ Read(s) \/ ReadEnd(s) \/ Cut(s)
    <3>1. producer' = producer /\ said' = said
      BY <2>4 DEF RelayGives, RelayStops, HandlerStops, Read, ReadEnd, Cut
    <3> QED BY <3>1 DEF Over
  <2> QED BY <1>3, <2>1, <2>2, <2>3, <2>4 DEF StreamStep, BackendStep
<1> QED BY <1>1, <1>2, <1>3 DEF Streaming

\* A response that was written and read to its end stays so.
LEMMA FinishedStays ==
  ASSUME StreamInv, Streaming, NEW t \in Stream, Finished(t)
  PROVE  Finished(t)' /\ Spoken(t)' = Spoken(t)
<1> USE DEF StreamInv
<1>0. Stage(t) /\ wire[t] = << >> /\ handler[t] = "returned"
  BY DEF Stages, Finished
<1>1. Over(t)' /\ said'[t] = said[t]
  BY OverStays DEF Finished
<1>2. wire'[t] = << >> /\ handler'[t] = "returned"
  <2>1. CASE BackendDies
    BY <1>0, <2>1, BackendDiesDoes
  <2>2. CASE UNCHANGED streams
    BY <1>0, <2>2 DEF streams
  <2>3. ASSUME NEW s \in Stream, StreamStep(s)
        PROVE  wire'[t] = << >> /\ handler'[t] = "returned"
    <3>1. CASE client[s] = "off" /\ (Open(s) \/ Refused(s))
      <4>1. Alone(s) /\ (Opened(s) \/ RefusedIs(s))
        BY <3>1, OpenDoes, RefusedDoes
      <4>2. Unmoved(t)
        BY <1>0, <3>1, <4>1 DEF Alone, Stage
      <4> QED BY <1>0, <4>2 DEF Unmoved
    <3>2. CASE Ask(s) \/ RelayTakes(s) \/ RelayStops(s)
      <4>1. wire' = wire /\ handler' = handler
        BY <3>2 DEF Ask, RelayTakes, RelayStops
      <4> QED BY <1>0, <4>1
    <3>3. CASE RelayGives(s) \/ HandlerStops(s) \/ Read(s)
      <4>1. Alone(s) /\ s # t
        BY <1>0, <3>3, RelayGivesDoes, HandlerStopsDoes, ReadDoes DEF Given, Returned, WasRead
      <4> QED BY <1>0, <4>1 DEF Alone, Unmoved
    <3>4. CASE ReadEnd(s)
      <4>1. wire' = wire /\ handler' = handler
        BY <3>4 DEF ReadEnd
      <4> QED BY <1>0, <4>1
    <3>5. CASE Cut(s)
      <4>1. Alone(s) /\ WasCut(s)
        BY <3>5, CutDoes
      <4> QED BY <1>0, <4>1 DEF Alone, Unmoved, WasCut
    <3> QED BY <2>3, <3>1, <3>2, <3>3, <3>4, <3>5 DEF StreamStep, BackendStep
  <2> QED BY <2>1, <2>2, <2>3 DEF Streaming
<1> QED BY <1>1, <1>2 DEF Finished, Spoken

\* A message that is added after the end of a stream is no text of it.
LEMMA DonesGrow ==
  ASSUME PageInv, Dones, Streaming, shown' = shown, NEW m \in Message,
         inbox' = inbox \/ inbox' = inbox \o <<m>>,
         \A s \in Stream : HasDone(s) => m \in AllBut(s),
         \A s \in Stream : m = Done(s) => Finished(s)' /\ (s \in listening' => Got(s)' = Spoken(s)'),
         \A s \in Stream : HasDone(s) /\ s \in listening' => s \in listening
  PROVE  Dones'
<1>1. inbox \in Seq(Message)
  BY PageTypes DEF PageInv, PageTyped
<1>2. \A i \in DOMAIN inbox' :
        \/ i \in DOMAIN inbox /\ inbox'[i] = inbox[i]
        \/ inbox' = inbox \o <<m>> /\ i = Len(inbox') /\ i \notin DOMAIN inbox /\ inbox'[i] = m
  BY <1>1, OneMore
<1>3. ASSUME NEW s \in Stream, HasDone(s)'
      PROVE  Finished(s)' /\ (s \in listening' => Got(s)' = Spoken(s)')
  <2>1. HasDone(s) \/ m = Done(s)
    BY <1>2, <1>3 DEF HasDone, Done
  <2>2. CASE m = Done(s)
    BY <2>2
  <2>3. CASE HasDone(s)
    <3>1. Finished(s) /\ m \in AllBut(s) /\ (s \in listening' => Got(s) = Spoken(s))
      BY <2>3 DEF Dones
    <3>2. Finished(s)' /\ Spoken(s)' = Spoken(s)
      BY <3>1, FinishedStays DEF PageInv
    <3>3. Got(s)' = Got(s)
      BY <3>1, GotStays
    <3> QED BY <3>1, <3>2, <3>3
  <2> QED BY <2>1, <2>2, <2>3
<1>4. ASSUME NEW s \in Stream, NEW i \in DOMAIN inbox', NEW k \in DOMAIN inbox',
             inbox'[i] = Done(s), k > i
      PROVE  inbox'[k] \in AllBut(s)
  <2>1. i \in Nat /\ k \in Nat
    <3>1. inbox' \in Seq(Message)
      BY <1>1, OneMore
    <3> QED BY <3>1
  <2>2. k \in 1..Len(inbox')
    <3>1. inbox' \in Seq(Message)
      BY <1>1, OneMore
    <3> QED BY <3>1
  <2>3. i \in DOMAIN inbox /\ inbox[i] = Done(s)
    BY <1>2, <1>4, <2>1, <2>2
  <2>4. CASE k \in DOMAIN inbox
    <3>1. inbox'[k] = inbox[k]
      BY <1>2, <2>4
    <3> QED BY <1>4, <2>3, <2>4, <3>1 DEF Dones
  <2>5. CASE k \notin DOMAIN inbox
    <3>1. inbox'[k] = m /\ HasDone(s)
      BY <1>2, <2>3, <2>5 DEF HasDone
    <3> QED BY <3>1
  <2> QED BY <2>4, <2>5
<1> QED BY <1>3, <1>4 DEF Dones, Done

\* The messages that are no end of an answer.
LEMMA NotDone ==
  /\ \A b \in BOOLEAN, s \in Stream : Status(b) # Done(s)
  /\ \A s, t \in Stream : OfStream(t, End("error")) # Done(s)
  /\ \A s, t \in Stream, e \in Event : OfStream(t, e) = Done(s) => t = s /\ e = End("done")
<1>1. \A b \in BOOLEAN, s \in Stream : Status(b) # Done(s)
  BY Messages DEF Done
<1>2. \A s, t \in Stream, e \in Event : OfStream(t, e) = Done(s) => t = s /\ e = End("done")
  BY Messages DEF Done
<1>3. End("error") # End("done")
  BY DEF End
<1>4. \A s, t \in Stream : OfStream(t, End("error")) # Done(s)
  <2> TAKE s, t \in Stream
  <2>1. OfStream(t, End("error")).event = End("error") /\ Done(s).event = End("done")
    BY Messages DEF Done
  <2> QED BY <1>3, <2>1
<1> QED BY <1>1, <1>2, <1>4

\* The end of an answer is forwarded when all of it was.
LEMMA ReceiveDones ==
  ASSUME PageInv, Lined, Dones, NEW s \in Stream, Receive(s)
  PROVE  Dones'
<1>1. /\ WasRead(s) /\ Alone(s) /\ Streaming /\ shown' = shown /\ listening' = listening
  BY ReadDoes DEF PageInv, StreamInv, Receive, ElsewhereUnchanged, Streaming, StreamStep
<1> DEFINE e == wire[s][1]
           m == OfStream(s, e)
<1>2. e \in Event /\ (inbox' = inbox \/ inbox' = inbox \o <<m>>)
  BY ReceiveDoes
<1>3. m \in Message
  BY <1>2, Messages
<1>4. ASSUME NEW t \in Stream, HasDone(t)
      PROVE  m \in AllBut(t)
  <2>1. s # t
    BY <1>1, <1>4 DEF Dones, Finished, WasRead
  <2> QED BY <1>2, <2>1, NoTextOf
<1>5. ASSUME NEW t \in Stream, m = Done(t)
      PROVE  Finished(t)' /\ (t \in listening' => Got(t)' = Spoken(t)')
  <2>1. t = s /\ e = End("done") /\ IsEnd(e) /\ e.kind # "text"
    BY <1>2, <1>5, NotDone, EventKinds DEF Ends
  <2>2. wire[s] \in Seq(Event) /\ wire[s] # << >>
    BY <1>1, TextTypes DEF WasRead
  <2>3. Len(wire[s]) = 1 /\ handler[s] = "returned"
    <3>1. 1 \in DOMAIN wire[s] /\ Stage(s)
      BY <2>2 DEF PageInv, StreamInv, Stages
    <3> QED BY <2>1, <3>1 DEF Stage
  <2>4. client[s] = "reading" /\ relay[s] = Gone /\ Over(s)
    BY <1>1, <2>3 DEF WasRead, PageInv, StreamInv, Stages, Stage
  <2>5. wire'[s] = << >> /\ wire'[s] = Tail(wire[s])
    <3>1. wire'[s] = Tail(wire[s])
      BY <1>1 DEF WasRead
    <3> DEFINE old == wire[s]
               new == wire'[s]
    <3>2. old \in Seq(Event) /\ old # << >> /\ new = Tail(old) /\ Len(old) = 1
      BY <2>2, <2>3, <3>1
    <3> HIDE DEF old, new
    <3>3. new \in Seq(Event) /\ Len(old) = Len(new) + 1
      BY <3>2, OneLess
    <3>4. new = << >>
      BY <3>2, <3>3
    <3> QED BY <3>1, <3>4 DEF new
  <2>6. Finished(s)' /\ Spoken(s)' = Spoken(s)
    BY <1>1, <2>3, <2>4, <2>5 DEF Finished, Over, WasRead, Spoken
  <2>7. ASSUME s \in listening
        PROVE  Got(s)' = Spoken(s)
    <3>1. m \in AllBut(s)
      BY <1>2, <2>1, NoTextOf
    <3>2. Got(s)' = Got(s)
      BY <1>1, <1>2, <1>3, <3>1, GotStays
    <3>3. Unread(s) = << >>
      <4>1. Texts(wire[s]) = Texts(<<e>>) \o Texts(wire'[s])
        BY <2>2, <2>5, TextsLess
      <4>2. Texts(<<e>>) = << >> /\ Texts(wire'[s]) = << >>
        BY <1>2, <2>1, <2>5, TextsOf
      <4>3. << >> \o << >> = << >>
        BY ConcatEmptySeq
      <4> QED BY <4>1, <4>2, <4>3 DEF Unread
    <3>4. Coming(s) = << >>
      <4>1. Texts(Offered(producer[s])) = << >> /\ Texts(Offered(relay[s])) = << >>
        BY <2>4, OfferedText DEF Over
      <4>2. << >> \o << >> = << >>
        BY ConcatEmptySeq
      <4> QED BY <4>1, <4>2 DEF Coming
    <3>5. (Got(s) \o Unread(s)) \o Coming(s) = Spoken(s)
      BY <2>3, <2>4, <2>7 DEF Lined, InLine, Line, Whole
    <3>6. Got(s) \o << >> = Got(s)
      BY TextTypes, ConcatEmptySeq
    <3> QED BY <3>2, <3>3, <3>4, <3>5, <3>6
  <2> QED BY <1>1, <2>1, <2>6, <2>7
<1> HIDE DEF m
<1> QED BY <1>1, <1>2, <1>3, <1>4, <1>5, DonesGrow

\* What else is sent to the page is no text and no end of an answer.
LEMMA OtherDones ==
  ASSUME PageInv, Dones, Streaming, shown' = shown, NEW m \in Message,
         inbox' = inbox \/ inbox' = inbox \o <<m>>,
         \/ \E b \in BOOLEAN : m = Status(b)
         \/ \E s \in Stream : m = OfStream(s, End("error")),
         \A s \in Stream : HasDone(s) /\ s \in listening' => s \in listening
  PROVE  Dones'
<1>1. End("error") \in Event /\ End("error").kind # "text"
  BY EventKinds DEF Ends
<1>2. \A s \in Stream : m \in AllBut(s)
  BY <1>1, NoTextOf
<1>3. \A s \in Stream : m # Done(s)
  BY NotDone
<1> QED BY <1>2, <1>3, DonesGrow

\* When the page takes a message, what follows an end still follows it.
LEMMA DeliverDones ==
  ASSUME PageInv, Dones, Deliver
  PROVE  Dones'
<1>1. inbox # << >> /\ inbox' = Tail(inbox) /\ inbox \in Seq(Message) /\ UNCHANGED streams
  BY DeliverDoes, PageTypes DEF PageInv, PageTyped
<1>2. /\ inbox' \in Seq(Message)
      /\ \A i \in DOMAIN inbox' : i + 1 \in DOMAIN inbox /\ inbox'[i] = inbox[i + 1]
  BY <1>1, OneLess
<1>3. ASSUME NEW s \in Stream, HasDone(s)'
      PROVE  Finished(s)' /\ (s \in listening' => Got(s)' = Spoken(s)')
  <2>1. HasDone(s)
    BY <1>2, <1>3 DEF HasDone, Done
  <2>2. Finished(s)' /\ Spoken(s)' = Spoken(s)
    BY <1>1, <2>1, FinishedStays DEF PageInv, Dones, Streaming
  <2>3. s \in listening' => s \in listening /\ Got(s)' = Got(s)
    BY DeliverGot
  <2> QED BY <2>1, <2>2, <2>3 DEF Dones
<1>4. ASSUME NEW s \in Stream, NEW i \in DOMAIN inbox', NEW k \in DOMAIN inbox',
             inbox'[i] = Done(s), k > i
      PROVE  inbox'[k] \in AllBut(s)
  <2>1. i \in Nat /\ k \in Nat
    BY <1>2
  <2>2. i + 1 \in DOMAIN inbox /\ k + 1 \in DOMAIN inbox /\ k + 1 > i + 1
    BY <1>2, <1>4, <2>1
  <2>3. inbox[i + 1] = Done(s) /\ inbox'[k] = inbox[k + 1]
    BY <1>2, <1>4
  <2> QED BY <2>2, <2>3 DEF Dones
<1> QED BY <1>3, <1>4 DEF Dones, Done

\* Every step keeps what an end on its way says of its stream.
LEMMA DonesKeep == PageInv /\ Lined /\ Dones /\ [Next]_vars => Dones'
<1> SUFFICES ASSUME PageInv, Lined, Dones, [Next]_vars
             PROVE  Dones'
  OBVIOUS
<1>1. CASE ShowChat
  <2>1. inbox' = <<Status(stored)>> /\ stored \in BOOLEAN
    BY <1>1, PageTypes DEF ShowChat, PageInv, PageTyped, BackendTyped
  <2>2. \A i \in DOMAIN inbox' : inbox'[i] = Status(stored)
    BY <2>1
  <2>3. \A s \in Stream : Status(stored) # Done(s)
    BY <2>1, NotDone
  <2> QED BY <2>2, <2>3 DEF Dones, HasDone, Done
<1>2. CASE CloseChat
  <2>1. DOMAIN inbox' = {}
    BY <1>2 DEF CloseChat
  <2> QED BY <2>1 DEF Dones, HasDone
<1>3. CASE Deliver
  BY <1>3, DeliverDones
<1>4. ASSUME NEW s \in Stream, Send(s)
      PROVE  Dones'
  <2>1. /\ client[s] = "off" /\ listening' = listening \cup {s} /\ shown' = shown /\ Streaming
        /\ inbox' = inbox \/ inbox' = inbox \o <<OfStream(s, End("error"))>>
    BY <1>4, SendDoes DEF Streaming, StreamStep
  <2>2. OfStream(s, End("error")) \in Message
    BY Messages, EventKinds DEF Ends
  <2>3. ~HasDone(s)
    BY <2>1 DEF Dones, Finished, PageInv, StreamInv, Stages, Stage
  <2> QED BY <2>1, <2>2, <2>3, OtherDones
<1>5. ASSUME NEW s \in Stream, Receive(s) \/ Finish(s) \/ Broken(s) \/ Backward(s)
      PROVE  Dones'
  <2>1. CASE Receive(s)
    BY <2>1, ReceiveDones
  <2>2. CASE Finish(s) \/ Broken(s) \/ Backward(s)
    <3>1. shown' = shown /\ listening' = listening /\ Streaming
      BY <2>2 DEF Finish, Broken, Backward, ElsewhereUnchanged, Streaming, StreamStep
    <3>2. inbox' = inbox \/ inbox' = inbox \o <<OfStream(s, End("error"))>>
      BY <2>2, ForwardDoes DEF Finish, Broken, Backward
    <3>3. OfStream(s, End("error")) \in Message
      BY Messages, EventKinds DEF Ends
    <3> QED BY <3>1, <3>2, <3>3, OtherDones
  <2> QED BY <1>5, <2>1, <2>2
<1>6. CASE Telling
  <2>1. shown' = shown /\ listening' = listening /\ Streaming
    BY <1>6, TellingDoes DEF PageStays, Streaming
  <2>2. ASSUME NEW b \in BOOLEAN, inbox' = inbox \/ inbox' = inbox \o <<Status(b)>>
        PROVE  Dones'
    BY <2>1, <2>2, Messages, OtherDones
  <2> QED BY <1>6, <2>2, TellingSends
<1>7. CASE UNCHANGED vars
  <2>1. shown' = shown /\ listening' = listening /\ inbox' = inbox /\ Streaming
    BY <1>7 DEF vars, page, Streaming
  <2>2. Status(TRUE) \in Message
    BY Messages
  <2> QED BY <2>1, <2>2, OtherDones
<1> QED BY <1>1, <1>2, <1>3, <1>4, <1>5, <1>6, <1>7 DEF Next, StreamNext, Telling

\* The conversation stays, and its answers stay what was said.
LEMMA ConversationStays ==
  ASSUME PageInv, Conversation, Streaming, messages' = messages, listening' \subseteq listening
  PROVE  Conversation'
<1>1. ASSUME NEW j \in DOMAIN messages, messages[j].role = "assistant"
      PROVE  /\ messages[j].content = Spoken(messages[j].stream)'
             /\ Over(messages[j].stream)' /\ messages[j].stream \notin listening'
  <2> DEFINE s == messages[j].stream
  <2>1. s \in Stream
    BY PageTypes, Bubbles DEF PageInv, PageTyped
  <2>2. Over(s) /\ messages[j].content = Spoken(s) /\ s \notin listening
    BY <1>1 DEF Conversation
  <2>3. Over(s)' /\ said'[s] = said[s]
    BY <2>1, <2>2, OverStays DEF PageInv
  <2> QED BY <2>2, <2>3 DEF Spoken
<1> QED BY <1>1 DEF Conversation

\* A question is added to the conversation once.
LEMMA SendConversation ==
  ASSUME PageInv, Conversation, NEW s \in Stream, Send(s)
  PROVE  Conversation'
<1> DEFINE m == [role |-> "user", stream |-> s]
           new == messages'
           N == Len(messages)
<1>1. /\ s \notin Asked /\ new = Append(messages, m) /\ listening' = listening \cup {s}
      /\ Streaming /\ messages \in Seq(Bubble) /\ m \in Bubble
  BY SendDoes, PageTypes, Bubbles DEF PageInv, PageTyped, Streaming, StreamStep
<1>2. m.role = "user" /\ m.stream = s
  OBVIOUS
<1> HIDE DEF m, new
<1>3. /\ new[N + 1] = m /\ N \in Nat
      /\ \A i \in DOMAIN new : i \in Nat /\ ((i \in DOMAIN messages /\ new[i] = messages[i]) \/ i = N + 1)
      /\ \A i \in DOMAIN messages : i \in DOMAIN new /\ new[i] = messages[i] /\ i \in Nat /\ i < N + 1
  BY <1>1, AppendProperties
<1>4. \A i \in DOMAIN messages : messages[i].role = "user" => messages[i].stream # s
  BY <1>1 DEF Asked
<1>5. ASSUME NEW i \in DOMAIN new, NEW j \in DOMAIN new,
             new[i].role = new[j].role, new[i].stream = new[j].stream
      PROVE  i = j
  BY <1>2, <1>3, <1>4, <1>5 DEF Conversation
<1>6. ASSUME NEW j \in DOMAIN new, new[j].role = "assistant"
      PROVE  \E t \in Stream :
               /\ new[j].stream = t /\ new[j].content = Spoken(t)' /\ Over(t)' /\ t \notin listening'
               /\ \E i \in DOMAIN new : i < j /\ new[i].role = "user" /\ new[i].stream = t
  <2>1. j \in DOMAIN messages /\ new[j] = messages[j]
    BY <1>2, <1>3, <1>6
  <2>2. PICK t \in Stream : t = messages[j].stream
    BY <1>1, <2>1, Bubbles
  <2>3. Over(t) /\ messages[j].content = Spoken(t) /\ t \notin listening
    BY <1>6, <2>1, <2>2 DEF Conversation
  <2>4. Over(t)' /\ said'[t] = said[t]
    BY <1>1, <2>2, <2>3, OverStays DEF PageInv
  <2>5. PICK i \in DOMAIN messages : i < j /\ messages[i].role = "user" /\ messages[i].stream = t
    BY <1>6, <2>1, <2>2 DEF Conversation
  <2>6. t # s
    BY <1>4, <2>5
  <2>7. i \in DOMAIN new /\ new[i] = messages[i]
    BY <1>3, <2>5
  <2>8. new[j].stream = t /\ new[j].content = Spoken(t)' /\ Over(t)' /\ t \notin listening'
    BY <1>1, <2>1, <2>2, <2>3, <2>4, <2>6 DEF Spoken
  <2> QED BY <2>5, <2>7, <2>8
<1> QED BY <1>5, <1>6 DEF Conversation, new, Spoken, Over

\* When the end of an answer is taken, all of the answer was.
LEMMA DoneConversation ==
  ASSUME PageInv, Dones, Conversation, Deliver, NEW s \in listening,
         Head(inbox) = Done(s), TakesDone(s)
  PROVE  Conversation'
<1>1. /\ inbox # << >> /\ inbox \in Seq(Message) /\ s \in Stream /\ UNCHANGED streams
      /\ messages \in Seq(Bubble) /\ shown \in [Stream -> Seq(Event)] /\ s \in Asked
  BY DeliverDoes, PageTypes, AskedOpens DEF PageInv, PageTyped
<1>2. 1 \in DOMAIN inbox /\ inbox[1] = Done(s)
  BY <1>1, OneLess
<1>3. Finished(s) /\ Got(s) = Spoken(s)
  BY <1>1, <1>2 DEF Dones, HasDone
<1>4. shown[s] = Spoken(s)
  <2>1. \A i \in DOMAIN inbox : inbox[i] \in AllBut(s)
    <3>1. Done(s) \in AllBut(s)
      BY <1>1, NoTextOf, EventKinds DEF Done, Ends
    <3>2. \A i \in DOMAIN inbox : i = 1 \/ i > 1
      BY <1>1
    <3> QED BY <1>1, <1>2, <3>1, <3>2 DEF Dones
  <2>2. Waiting(inbox, s) = << >>
    BY <1>1, <2>1, NothingWaits
  <2>3. shown[s] \o << >> = shown[s]
    BY <1>1, ConcatEmptySeq
  <2> QED BY <1>3, <2>2, <2>3 DEF Got
<1> DEFINE m == [role |-> "assistant", stream |-> s, content |-> shown[s]]
           new == messages'
           N == Len(messages)
<1>5. new = Append(messages, m) /\ listening' = listening \ {s} /\ m \in Bubble
  BY <1>1, Bubbles DEF TakesDone
<1>6. m.role = "assistant" /\ m.stream = s /\ m.content = Spoken(s)
  BY <1>4
<1> HIDE DEF m, new
<1>7. /\ new[N + 1] = m /\ N \in Nat
      /\ \A i \in DOMAIN new : i \in Nat /\ ((i \in DOMAIN messages /\ new[i] = messages[i]) \/ i = N + 1)
      /\ \A i \in DOMAIN messages : i \in DOMAIN new /\ new[i] = messages[i] /\ i \in Nat /\ i < N + 1
  BY <1>1, <1>5, AppendProperties
<1>8. \A j \in DOMAIN messages : messages[j].role = "assistant" => messages[j].stream # s
  BY DEF Conversation
<1>9. PICK q \in DOMAIN messages : messages[q].role = "user" /\ messages[q].stream = s
  BY <1>1 DEF Asked
<1>10. ASSUME NEW i \in DOMAIN new, NEW j \in DOMAIN new,
              new[i].role = new[j].role, new[i].stream = new[j].stream
       PROVE  i = j
  BY <1>6, <1>7, <1>8, <1>10 DEF Conversation
<1>11. \A t \in Stream : Spoken(t)' = Spoken(t) /\ (Over(t)' <=> Over(t))
  BY <1>1 DEF streams, Spoken, Over
<1>12. ASSUME NEW j \in DOMAIN new, new[j].role = "assistant"
       PROVE  \E t \in Stream :
                /\ new[j].stream = t /\ new[j].content = Spoken(t)' /\ Over(t)' /\ t \notin listening'
                /\ \E i \in DOMAIN new : i < j /\ new[i].role = "user" /\ new[i].stream = t
  <2>1. CASE j = N + 1
    <3>1. q \in DOMAIN new /\ q < j /\ new[q].role = "user" /\ new[q].stream = s
      BY <1>7, <1>9, <2>1
    <3>2. new[j].stream = s /\ new[j].content = Spoken(s)'
      BY <1>1, <1>6, <1>7, <1>11, <2>1
    <3>3. Over(s)' /\ s \notin listening'
      BY <1>1, <1>3, <1>5, <1>11 DEF Finished
    <3> QED BY <1>1, <3>1, <3>2, <3>3
  <2>2. CASE j # N + 1
    <3>1. j \in DOMAIN messages /\ new[j] = messages[j]
      BY <1>7, <2>2
    <3>2. PICK t \in Stream : t = messages[j].stream
      BY <1>1, <3>1, Bubbles
    <3>3. Over(t) /\ messages[j].content = Spoken(t) /\ t \notin listening
      BY <1>12, <3>1, <3>2 DEF Conversation
    <3>4. PICK i \in DOMAIN messages : i < j /\ messages[i].role = "user" /\ messages[i].stream = t
      BY <1>12, <3>1, <3>2 DEF Conversation
    <3>5. i \in DOMAIN new /\ new[i] = messages[i]
      BY <1>7
    <3>6. new[j].stream = t /\ new[j].content = Spoken(t)' /\ Over(t)' /\ t \notin listening'
      BY <1>5, <1>11, <3>1, <3>2, <3>3
    <3> QED BY <3>4, <3>5, <3>6
  <2> QED BY <2>1, <2>2
<1> QED BY <1>10, <1>12 DEF Conversation, new, Spoken, Over

\* Every step keeps the conversation whole.
LEMMA ConversationKeeps == PageInv /\ Dones /\ Conversation /\ [Next]_vars => Conversation'
<1> SUFFICES ASSUME PageInv, Dones, Conversation, [Next]_vars
             PROVE  Conversation'
  OBVIOUS
<1>1. CASE CloseChat
  <2>1. messages' = << >> /\ DOMAIN messages' = {}
    BY <1>1 DEF CloseChat
  <2> QED BY <2>1 DEF Conversation
<1>2. CASE ShowChat \/ Telling \/ UNCHANGED vars
  <2>1. messages' = messages /\ listening' = listening /\ Streaming
    BY <1>2, TellingDoes DEF ShowChat, PageStays, vars, page, Streaming
  <2> QED BY <2>1, ConversationStays
<1>3. CASE Deliver
  <2>1. /\ UNCHANGED streams
        /\ TakenStatus \/ TakenText \/ TakenDone \/ TakenError \/ Ignored
    BY <1>3, DeliverDoes
  <2>2. CASE TakenDone
    BY <1>3, <2>2, DoneConversation DEF TakenDone, Done
  <2>3. CASE TakenStatus \/ TakenText \/ TakenError \/ Ignored
    <3>1. messages' = messages /\ listening' \subseteq listening
      BY <2>3 DEF TakenStatus, TakenText, TakenError, Ignored, TakesStatus, TakesText, TakesError
    <3> QED BY <2>1, <3>1, ConversationStays DEF Streaming
  <2> QED BY <2>1, <2>2, <2>3
<1>4. ASSUME NEW s \in Stream, Send(s)
      PROVE  Conversation'
  BY <1>4, SendConversation
<1>5. ASSUME NEW s \in Stream, Receive(s) \/ Finish(s) \/ Broken(s) \/ Backward(s)
      PROVE  Conversation'
  <2>1. messages' = messages /\ listening' = listening /\ Streaming
    BY <1>5 DEF Receive, Finish, Broken, Backward, ElsewhereUnchanged, Streaming, StreamStep
  <2> QED BY <2>1, ConversationStays
<1> QED BY <1>1, <1>2, <1>3, <1>4, <1>5 DEF Next, StreamNext, Telling

\* At first nothing is on its way, and nothing was said.
LEMMA ConversationStarts == Init => Dones /\ Conversation
<1>1. DOMAIN << >> = {}
  OBVIOUS
<1> QED BY <1>1 DEF Init, Dones, HasDone, Conversation

\* What the property says of the conversation.
LEMMA ConversationWhole == PageInv /\ Conversation => AnswersWhole
<1> SUFFICES ASSUME PageInv, Conversation,
                    NEW j \in DOMAIN messages, messages[j].role = "assistant"
             PROVE  /\ messages[j].content = Texts(said[messages[j].stream])
                    /\ Cardinality({i \in DOMAIN messages : messages[i].stream = messages[j].stream}) = 2
                    /\ \E i \in 1..(j - 1) :
                         messages[i].role = "user" /\ messages[i].stream = messages[j].stream
  BY DEF AnswersWhole
<1> DEFINE s == messages[j].stream
<1>1. messages \in Seq(Bubble)
  BY PageTypes DEF PageInv, PageTyped
<1>2. messages[j].content = Texts(said[s])
  BY DEF Conversation, Spoken
<1>3. PICK i \in DOMAIN messages : i < j /\ messages[i].role = "user" /\ messages[i].stream = s
  BY DEF Conversation
<1>4. i \in 1..(j - 1) /\ i # j
  BY <1>1, <1>3
<1>5. {k \in DOMAIN messages : messages[k].stream = s} = {i} \cup {j}
  <2>1. ASSUME NEW k \in DOMAIN messages, messages[k].stream = s
        PROVE  k = i \/ k = j
    <3>1. messages[k].role \in {"user", "assistant"}
      BY <1>1, Bubbles
    <3> QED BY <1>3, <2>1, <3>1 DEF Conversation
  <2> QED BY <1>3, <2>1
<1>6. Cardinality({i} \cup {j}) = 2
  <2>1. IsFiniteSet({i}) /\ Cardinality({i}) = 1
    BY FS_Singleton
  <2>2. Cardinality({i} \cup {j}) = Cardinality({i}) + 1
    BY <1>4, <2>1, FS_AddElement
  <2> QED BY <2>1, <2>2
<1> QED BY <1>2, <1>3, <1>4, <1>5, <1>6

\* What the conversation holds as an answer is all the provider said, once, after its
\* question.
THEOREM AnswersAreWhole == Spec => []AnswersWhole
<1>1. Spec => []Lined
  BY PageAlways, LinedStarts, LinedKeeps, PTL DEF Spec
<1>2. Spec => []Dones
  BY <1>1, PageAlways, ConversationStarts, DonesKeep, PTL DEF Spec
<1>3. Spec => []Conversation
  BY <1>2, PageAlways, ConversationStarts, ConversationKeeps, PTL DEF Spec
<1> QED BY <1>3, PageAlways, ConversationWhole, PTL
=============================================================================
