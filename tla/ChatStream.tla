----------------------------- MODULE ChatStream -----------------------------
(***************************************************************************)
(* The streams of the chat on their way through the backend: the goroutine  *)
(* that asks the provider, the one of LLMStream that relays its events, the  *)
(* HTTP handler that writes them as server-sent events, and the client that  *)
(* reads them back.                                                         *)
(*                                                                         *)
(* Both channels are unbuffered: a goroutine holds the event it offers until *)
(* the next one takes it.  The relay and the handler also listen to the      *)
(* context of the request, which ends with the handler or the connection;    *)
(* the provider's goroutine does not.                                        *)
(***************************************************************************)
EXTENDS Naturals, Sequences, SequencesExt, Filters

CONSTANTS
  Stream,
  Answer,        \* of each stream: the pieces of its answer, texts and blanks
  Twice,         \* the streams whose provider says "done" after an error, too
  Fragile        \* bound: the streams whose connection may break by itself

ASSUME AnswersArePieces ==
  /\ Answer \in [Stream -> Seq({"text", "blank"})]
  /\ Twice \subseteq Stream /\ Fragile \subseteq Stream

\* The n-th piece of an answer, which may be white space, and how an answer ends.
Event == [kind : {"text", "blank"}, n : UNION {DOMAIN Answer[s] : s \in Stream}]
           \cup [kind : {"done", "error"}, n : {0}]

End(kind) == [kind |-> kind, n |-> 0]

IsEnd(e) == e.kind \in {"done", "error"}

VARIABLES
  said,      \* history: the pieces the provider has said
  producer,  \* of each stream: "off", "free", "gone", or the event it offers
  relay,     \* likewise
  handler,   \* "off", "serving", "returned", or "died" with the backend
  wire,      \* what was written and not yet read
  client     \* "off", "reading", "over", or "cut" when the connection broke

streams == <<said, producer, relay, handler, wire, client>>

State(name) == <<name>>
Offers(e) == <<"offers", e>>

Off  == State("off")
Free == State("free")
Gone == State("gone")

\* What a goroutine offers, as a sequence.
Offered(goroutine) == IF Len(goroutine) = 2 THEN <<goroutine[2]>> ELSE << >>

StreamInit ==
  /\ said = [s \in Stream |-> << >>]
  /\ producer = [s \in Stream |-> Off] /\ relay = [s \in Stream |-> Off]
  /\ handler = [s \in Stream |-> "off"] /\ client = [s \in Stream |-> "off"]
  /\ wire = [s \in Stream |-> << >>]

\* The context of the request.
Cancelled(s) == handler[s] = "returned" \/ client[s] \in {"over", "cut"}

\* The request is answered by an error, or not at all.
Refused(s) ==
  /\ client' = [client EXCEPT ![s] = "cut"]
  /\ UNCHANGED <<said, producer, relay, handler, wire>>

Open(s) ==
  /\ producer' = [producer EXCEPT ![s] = Free] /\ relay' = [relay EXCEPT ![s] = Free]
  /\ handler' = [handler EXCEPT ![s] = "serving"] /\ client' = [client EXCEPT ![s] = "reading"]
  /\ UNCHANGED <<said, wire>>

\* The provider says the next piece, or ends, or fails; a cancelled request fails.
Ask(s) ==
  LET n == Len(said[s]) + 1
  IN
  /\ producer[s] = Free
  /\ \/ /\ n <= Len(Answer[s])
        /\ LET piece == [kind |-> Answer[s][n], n |-> n]
           IN  /\ said' = [said EXCEPT ![s] = Append(@, piece)]
               /\ producer' = [producer EXCEPT ![s] = Offers(piece)]
     \/ /\ \E kind \in {"done", "error"} :
             producer' = [producer EXCEPT ![s] = Offers(End(kind))]
        /\ UNCHANGED said
  /\ UNCHANGED <<relay, handler, wire, client>>

\* What the provider's goroutine of s does once e was taken.
AfterOffer(s, e) ==
  CASE ~IsEnd(e) -> Free
    [] e.kind = "error" /\ s \in Twice -> Offers(End("done"))
    [] OTHER -> Gone

\* The relay takes what the provider's goroutine offers.
RelayTakes(s) ==
  /\ relay[s] = Free /\ Offered(producer[s]) # << >>
  /\ relay' = [relay EXCEPT ![s] = producer[s]]
  /\ producer' = [producer EXCEPT ![s] = AfterOffer(s, @[2])]
  /\ UNCHANGED <<said, handler, wire, client>>

\* The handler takes what the relay offers and writes it, to a reader or not.
RelayGives(s) ==
  LET e == relay[s][2]
  IN
  /\ handler[s] = "serving" /\ Offered(relay[s]) # << >>
  /\ relay' = [relay EXCEPT ![s] = IF IsEnd(e) THEN Gone ELSE Free]
  /\ wire' = IF client[s] = "reading" THEN [wire EXCEPT ![s] = Append(@, e)] ELSE wire
  /\ handler' = [handler EXCEPT ![s] = IF IsEnd(e) THEN "returned" ELSE @]
  /\ UNCHANGED <<said, producer, client>>

RelayStops(s) ==
  /\ Cancelled(s) /\ relay[s] \notin {Off, Gone}
  /\ relay' = [relay EXCEPT ![s] = Gone]
  /\ UNCHANGED <<said, producer, handler, wire, client>>

HandlerStops(s) ==
  /\ handler[s] = "serving" /\ client[s] = "cut"
  /\ handler' = [handler EXCEPT ![s] = "returned"]
  /\ UNCHANGED <<said, producer, relay, wire, client>>

BackendStep(s) ==
  Ask(s) \/ RelayTakes(s) \/ RelayGives(s) \/ RelayStops(s) \/ HandlerStops(s)

\* What the client makes of an event.  A line is trimmed before its prefix is
\* looked for, which leaves nothing of a blank piece.
Heard(e) == IF e.kind = "blank" THEN << >> ELSE <<e>>

\* Mutant of Read: what came in the same chunk is forgotten.
ReadsChunk(s) ==
  /\ client[s] = "reading" /\ wire[s] # << >>
  /\ wire' = [wire EXCEPT ![s] = << >>]
  /\ UNCHANGED <<said, producer, relay, handler, client>>

Read(s) ==
  /\ client[s] = "reading" /\ wire[s] # << >>
  /\ wire' = [wire EXCEPT ![s] = Tail(@)]
  /\ UNCHANGED <<said, producer, relay, handler, client>>

ReadEnd(s) ==
  /\ client[s] = "reading" /\ handler[s] = "returned" /\ wire[s] = << >>
  /\ client' = [client EXCEPT ![s] = "over"]
  /\ UNCHANGED <<said, producer, relay, handler, wire>>

\* The backend died, nothing came for five minutes, or the connection was lost.
Cut(s) ==
  /\ client[s] = "reading" /\ (handler[s] = "died" \/ s \in Fragile)
  /\ client' = [client EXCEPT ![s] = "cut"] /\ wire' = [wire EXCEPT ![s] = << >>]
  /\ UNCHANGED <<said, producer, relay, handler>>

\* The backend is gone with all its goroutines.
BackendDies ==
  LET served == {s \in Stream : handler[s] # "off"}
      ends(f, end) == [s \in Stream |-> IF s \in served THEN end ELSE f[s]]
  IN
  /\ producer' = ends(producer, Gone) /\ relay' = ends(relay, Gone)
  /\ handler' = [s \in Stream |-> IF handler[s] = "serving" THEN "died" ELSE handler[s]]
  /\ UNCHANGED <<said, wire, client>>

Wordless == {e \in Event : e.kind # "text"}

Texts(events) == Without(events, Wordless)

\* The text that is under way to the client's reader.
OnTheWay(s) == Texts(wire[s] \o Offered(relay[s]) \o Offered(producer[s]))

StreamTypeOK ==
  LET goroutine == {Off, Free, Gone} \cup {Offers(e) : e \in Event}
  IN
  /\ producer \in [Stream -> goroutine] /\ relay \in [Stream -> goroutine]
  /\ said \in [Stream -> Seq(Event)] /\ wire \in [Stream -> Seq(Event)]
  /\ handler \in [Stream -> {"off", "serving", "returned", "died"}]
  /\ client \in [Stream -> {"off", "reading", "over", "cut"}]
=============================================================================
