------------------------------- MODULE EventStream -------------------------------
(***************************************************************************)
(* How the events of a relay reach those who watch it: RelayEventBus and   *)
(* GET /scut/v1/events on the relay's side (packages/relay/src/events.ts,  *)
(* routes/events.ts), subscribeToEvents on the other (packages/monitor/src *)
(* /sse.ts).                                                               *)
(*                                                                         *)
(* What passes between them is a stream of bytes, here of tokens: the      *)
(* relay writes each event as two lines and an empty one, comments in      *)
(* between, and the reader is handed what has come in chunks that may end  *)
(* anywhere: within a line, between the two line ends that close a frame,  *)
(* within a character.                                                     *)
(***************************************************************************)
EXTENDS Integers, Sequences, SequencesExt

CONSTANTS
  Events,       \* what is published, each once
  Connections,  \* requests for the stream; a reader that comes back makes a new one
  Tokens,       \* bearer tokens
  EventsToken,  \* the one the relay was configured with
  MaxBeats      \* heartbeats (bound)

ASSUME EventStreamAssumption == EventsToken \in Tokens /\ MaxBeats \in Nat

VARIABLES
  published,   \* history: the events of the bus, in order
  connection,  \* state of each request
  since,       \* history: how many events there had been when it subscribed
  beats,       \* heartbeats so far
  wire,        \* written and not read
  buffer,      \* read and not yet a whole frame
  onEvent      \* what the reader was called with, in order

streamVars == <<published, connection, since, beats, wire, buffer, onEvent>>

LineEnd == <<"\n">>
Comment == <<": ">>
\* A line of data is two tokens, so that a chunk can end within it.
Token == {LineEnd, Comment} \cup ({"event: ", "data: {", "}"} \X Events)

StreamTypeOK ==
  /\ published \in Seq(Events)
  /\ connection \in [Connections -> {"new", "refused", "open", "gone", "closed"}]
  /\ since \in [Connections -> Nat]
  /\ beats \in 0..MaxBeats
  /\ wire \in [Connections -> Seq(Token)]
  /\ buffer \in [Connections -> Seq(Token)]
  /\ onEvent \in [Connections -> Seq(Events)]

StreamInit ==
  /\ published = <<>>
  /\ connection = [c \in Connections |-> "new"]
  /\ since = [c \in Connections |-> 0]
  /\ beats = 0
  /\ wire = [c \in Connections |-> <<>>]
  /\ buffer = [c \in Connections |-> <<>>]
  /\ onEvent = [c \in Connections |-> <<>>]

-----------------------------------------------------------------------------
(* The relay. *)

CommentFrame == <<Comment, LineEnd, LineEnd>>

\* writeEvent
Written(e) ==
  <<<<"event: ", e>>, LineEnd, <<"data: {", e>>, <<"}", e>>, LineEnd, LineEnd>>

\* handleEvents: subscribed before the first comment is written.
Subscribe(c, token) ==
  /\ connection[c] = "new"
  /\ IF token = EventsToken
     THEN /\ connection' = [connection EXCEPT ![c] = "open"]
          /\ since' = [since EXCEPT ![c] = Len(published)]
          /\ wire' = [wire EXCEPT ![c] = CommentFrame]
     ELSE /\ connection' = [connection EXCEPT ![c] = "refused"]
          /\ UNCHANGED <<since, wire>>
  /\ UNCHANGED <<published, beats, buffer, onEvent>>

\* publish calls every listener before it returns.  A connection that has gone is
\* still written to until the relay hears of it: nobody reads that.
Publish(e) ==
  /\ e \notin ToSet(published)
  /\ published' = Append(published, e)
  /\ wire' = [c \in Connections |->
       IF connection[c] = "open" THEN wire[c] \o Written(e) ELSE wire[c]]
  /\ UNCHANGED <<connection, since, beats, buffer, onEvent>>

Heartbeat(c) ==
  /\ connection[c] = "open"
  /\ beats < MaxBeats
  /\ beats' = beats + 1
  /\ wire' = [wire EXCEPT ![c] = @ \o CommentFrame]
  /\ UNCHANGED <<published, connection, since, buffer, onEvent>>

\* Either end goes, or the network between them, and what was on its way is lost.
Break(c) ==
  /\ connection[c] = "open"
  /\ connection' = [connection EXCEPT ![c] = "gone"]
  /\ wire' = [wire EXCEPT ![c] = <<>>]
  /\ UNCHANGED <<published, since, beats, buffer, onEvent>>

\* cleanup
Cleanup(c) ==
  /\ connection[c] = "gone"
  /\ connection' = [connection EXCEPT ![c] = "closed"]
  /\ UNCHANGED <<published, since, beats, wire, buffer, onEvent>>

-----------------------------------------------------------------------------
(* The reader. *)

\* buffer.indexOf, from a position on: where the two line ends are that end a frame, or
\* 0 if there are none.
FrameEnd(text, from) ==
  LET ends == {i \in from..(Len(text) - 1) : text[i] = LineEnd /\ text[i + 1] = LineEnd}
  IN  IF ends = {} THEN 0 ELSE Min(ends)

\* The event of a frame's line of data, if that is whole; a comment has none.
Told(frame) ==
  LET told == {e \in Events : \E i \in 1..(Len(frame) - 1) :
                 frame[i] = <<"data: {", e>> /\ frame[i + 1] = <<"}", e>>}
  IN  IF told = {} THEN <<>> ELSE <<CHOOSE e \in told : TRUE>>

\* The inner loop: frames are taken off the text and handled, one after another, until
\* no whole one is left; what it calls onEvent with, and the rest of the text.
Drained(text) ==
  LET drain[from \in 1..(Len(text) + 1)] ==
        LET idx == FrameEnd(text, from)
        IN  IF idx = 0
            THEN [calls |-> <<>>, rest |-> SubSeq(text, from, Len(text))]
            ELSE [calls |-> Told(SubSeq(text, from, idx - 1)) \o drain[idx + 2].calls,
                  rest |-> drain[idx + 2].rest]
  IN  drain[1]

\* Mutant: what follows the last whole frame of a chunk is dropped.
ReadForgetful(c, n) ==
  /\ connection[c] = "open"
  /\ LET text == buffer[c] \o SubSeq(wire[c], 1, n)
     IN  /\ buffer' = [buffer EXCEPT ![c] = IF FrameEnd(text, 1) = 0 THEN text ELSE <<>>]
         /\ onEvent' = [onEvent EXCEPT ![c] = @ \o Drained(text).calls]
  /\ wire' = [wire EXCEPT ![c] = SubSeq(@, n + 1, Len(@))]
  /\ UNCHANGED <<published, connection, since, beats>>

\* One turn of the outer loop, with a chunk of n tokens: every frame that is now whole
\* is handed on before the next chunk is awaited.
Read(c, n) ==
  /\ connection[c] = "open"
  /\ LET drained == Drained(buffer[c] \o SubSeq(wire[c], 1, n))
     IN  /\ buffer' = [buffer EXCEPT ![c] = drained.rest]
         /\ onEvent' = [onEvent EXCEPT ![c] = @ \o drained.calls]
  /\ wire' = [wire EXCEPT ![c] = SubSeq(@, n + 1, Len(@))]
  /\ UNCHANGED <<published, connection, since, beats>>

-----------------------------------------------------------------------------
StreamNext ==
  \/ \E e \in Events : Publish(e)
  \/ \E c \in Connections :
       \/ \E token \in Tokens : Subscribe(c, token)
       \/ Heartbeat(c)
       \/ Break(c)
       \/ Cleanup(c)
       \/ \E n \in 1..Len(wire[c]) : Read(c, n)

StreamSpec == StreamInit /\ [][StreamNext]_streamVars

-----------------------------------------------------------------------------
(* Properties. *)

\* Whatever the chunks and the comments between the events, a reader is called
\* with the events published since it subscribed, in their order, each once and
\* with no gap; and with all of them once nothing is on its way.  It has heard
\* nothing if its token was refused.  (And variables keep their types.)
HeardInOrder ==
  /\ StreamTypeOK
  /\ \A c \in Connections :
       LET due == SubSeq(published, since[c] + 1, Len(published))
       IN  /\ IsPrefix(onEvent[c], due)
           /\ connection[c] = "open" /\ wire[c] = <<>> => onEvent[c] = due
           /\ connection[c] \in {"new", "refused"} => onEvent[c] = <<>>
=============================================================================
