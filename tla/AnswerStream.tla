----------------------------- MODULE AnswerStream -----------------------------
(***************************************************************************)
(* The answers of the bilingual mode while they are being written:         *)
(* stream_text_response (openai_compatible.rs) reads the provider's lines  *)
(* from chunks that are cut anywhere, capture_bilingual_answer numbers the *)
(* pieces and sends them to the window, then has the card made, and        *)
(* handleAnswerChunk (bilingualInterviewController.ts) appends them to     *)
(* what it shows.  The button and the hotkey may each ask for an answer.   *)
(*                                                                         *)
(* A line has two halves, of which the second ends with the newline, save  *)
(* that the last line may have none: a chunk ends with any half.  A line   *)
(* is a piece of text, the mark of the end, or something else (a comment,  *)
(* a message without text).  Several parts in one message are one piece.   *)
(***************************************************************************)
EXTENDS Integers, SequencesExt

CONSTANTS
    Answers,    \* the answers asked for, in this order
    Restarts,   \* bound: the sessions after the first
    Bodies,     \* what the provider may send, as sequences of lines
    MaxQueue    \* bound: messages on their way before the backend goes on

Lines == {"text", "other", "done"}

ASSUME StreamAssumption ==
    /\ Answers = 1..Cardinality(Answers)
    /\ Restarts \in Nat /\ MaxQueue \in Nat \ {0} /\ Bodies \subseteq Seq(Lines)

VARIABLES
    capture,   \* the calls of capture_bilingual_answer
    current,   \* the session of the backend
    messages,  \* events and replies on their way to the window
    view       \* what the window shows of an answer

streamVars == <<capture, current, messages, view>>

NoCapture == [at |-> "none", session |-> 0, body |-> <<>>, bare |-> FALSE,
              got |-> 0, pieces |-> <<>>]

\* Session 0 is none: the window drops the pieces of every answer.  The text is
\* mixed when another answer was still to be shown as it was emptied for this one.
NoView == [session |-> 0, last |-> -1, text |-> <<>>, mixed |-> FALSE]

StreamInit ==
    /\ capture = [a \in Answers |-> NoCapture]
    /\ current = 1
    /\ messages = <<>>
    /\ view = [NoView EXCEPT !.session = 1]

InFlight(a) ==
    \/ capture[a].at \in {"streaming", "analyzing"}
    \/ \E m \in ToSet(messages) : m.of = a

\* The session whose pieces the window shows, and those of which it will be told
Awaited ==
    {view.session} \cup {m.session : m \in {n \in ToSet(messages) : n.what = "active"}}
OtherInFlight == \E a \in Answers : capture[a].session \in Awaited /\ InFlight(a)

HasRoom == Len(messages) < MaxQueue

-----------------------------------------------------------------------------
(* The backend *)

\* The numbers of the lines of text, up to the mark of the end.
TextLines(body, from, to) ==
    LET Read[i \in 0..to] ==
            IF i < from THEN <<>>
            ELSE IF body[i] = "text" /\ \A k \in from..(i - 1) : body[k] # "done"
                 THEN Append(Read[i - 1], i) ELSE Read[i - 1]
    IN  Read[to]

\* How many lines are complete with so many halves of them.
Complete(c, halves) ==
    IF c.bare /\ halves = 2 * Len(c.body) THEN Len(c.body) - 1 ELSE halves \div 2

\* A bug of Unread: the half line left over from a chunk is thrown away.
UnreadInChunk(c) == (c.got + 1) \div 2 + 1

\* The first line not read yet: pending keeps what there is of it.
Unread(c) == Complete(c, c.got) + 1

Message(what, a, index, line) ==
    [what |-> what, of |-> a, session |-> capture[a].session, index |-> index, line |-> line]

\* on_chunk numbers the pieces of an answer as they come.
Chunks(a, lines) ==
    LET first == Len(capture[a].pieces)
    IN  [i \in 1..Len(lines) |-> Message("chunk", a, first + i - 1, lines[i])]

\* A stream that has ended well, and had text, is closed by one more chunk.
LastChunk(a, pieces) ==
    IF pieces = <<>> THEN <<>> ELSE <<Message("final", a, Len(pieces), 0)>>

\* The lines up to one more are there, and perhaps there are no others.
ReadLines(a, halves, to, ended) ==
    LET c == capture[a]
        from == Unread(c)
        lines == TextLines(c.body, from, to)
        pieces == c.pieces \o lines
        over == ended \/ \E i \in from..to : c.body[i] = "done"
    IN  /\ messages' = messages \o Chunks(a, lines)
                                \o (IF over THEN LastChunk(a, pieces) ELSE <<>>)
        /\ capture' = [capture EXCEPT ![a].got = halves, ![a].pieces = pieces,
                                      ![a].at = IF over THEN "analyzing" ELSE @]
        /\ UNCHANGED <<current, view>>

ReceiveChunk(a) ==
    LET c == capture[a] IN
    /\ c.at = "streaming" /\ HasRoom
    /\ \E halves \in (c.got + 1)..(2 * Len(c.body)) :
         ReadLines(a, halves, Complete(c, halves), FALSE)

\* The body may end early; what is left of a whole line without a newline is
\* read, half a line is none of the messages known.
EndOfBody(a) ==
    LET c == capture[a] IN
    /\ c.at = "streaming" /\ HasRoom
    /\ ReadLines(a, c.got, (c.got \div 2), TRUE)

\* The request or a read fails: what was sent to the window stays there.
StreamFails(a) ==
    /\ capture[a].at = "streaming"
    /\ capture' = [capture EXCEPT ![a].at = "analyzing"]
    /\ UNCHANGED <<current, messages, view>>

Returns(a, sent) ==
    /\ capture' = [capture EXCEPT ![a].at = "ended"]
    /\ messages' = messages \o sent
    /\ UNCHANGED <<current, view>>

\* The card is sent as an event and returned as the reply.
AnswerReady(a) ==
    /\ capture[a].at = "analyzing" /\ HasRoom
    /\ Returns(a, <<Message("ready", a, 0, 0), Message("ready", a, 0, 0)>>)

\* There is nothing to answer, or the analysis fails.
AnswerRefused(a) ==
    /\ capture[a].at = "analyzing" \/ (capture[a].at = "streaming" /\ capture[a].got = 0)
    /\ Returns(a, <<Message("failed", a, 0, 0)>>)

\* A start names its session; what a connection says later names none.
SessionActive(s) ==
    [what |-> "active", of |-> 0, session |-> s, index |-> 0, line |-> 0]

-----------------------------------------------------------------------------
(* The window *)

\* By the button or the hotkey, which do not look at each other.
triggerHotkeyAnswer(a) ==
    /\ capture[a].at = "none" /\ \A b \in 1..(a - 1) : capture[b].at # "none"
    /\ \E body \in Bodies, bare \in BOOLEAN :
         /\ bare => body # <<>>
         /\ capture' = [capture EXCEPT ![a] =
              [NoCapture EXCEPT !.at = "streaming", !.session = current,
                                !.body = body, !.bare = bare]]
    /\ view' = [view EXCEPT !.text = <<>>, !.last = -1, !.mixed = OtherInFlight]
    /\ UNCHANGED <<current, messages>>

\* The window is emptied, of the session's name too; a session that still runs
\* is kept, and says no name again.
startSession ==
    /\ view' = [NoView EXCEPT !.mixed = view.mixed]
    /\ \/ /\ current <= Restarts
          /\ current' = current + 1
          /\ messages' = Append(messages, SessionActive(current'))
       \/ UNCHANGED <<current, messages>>
    /\ UNCHANGED capture

Piece(m) == [of |-> m.of, line |-> m.line]

handleAnswerChunk(m) ==
    IF m.session # view.session \/ (m.what = "chunk" /\ m.index <= view.last) THEN view
    ELSE [view EXCEPT !.last = m.index,
                      !.text = IF m.what = "chunk" THEN Append(@, Piece(m)) ELSE @]

\* The main text of the card takes the place of what was streamed.
Handled(m) ==
    CASE m.what \in {"chunk", "final"} -> handleAnswerChunk(m)
      [] m.what = "ready" -> [view EXCEPT !.text = <<Piece(m)>>]
      [] m.what = "active" -> [view EXCEPT !.session = m.session]
      [] m.what = "failed" -> view

HandleMessage ==
    /\ messages # <<>>
    /\ view' = Handled(Head(messages))
    /\ messages' = Tail(messages)
    /\ UNCHANGED <<capture, current>>

StreamNext ==
    \/ \E a \in Answers : \/ ReceiveChunk(a) \/ EndOfBody(a) \/ StreamFails(a)
                          \/ AnswerReady(a) \/ AnswerRefused(a)
                          \/ triggerHotkeyAnswer(a)
    \/ startSession \/ HandleMessage

StreamSpec == StreamInit /\ [][StreamNext]_streamVars
-----------------------------------------------------------------------------
(* The text of an answer that is shown while it is being written is what the
   provider has sent of it so far, however its lines were cut into chunks and
   whatever sessions ended in between: no piece is missing, doubled or out of
   place, and none is of another answer, before a card takes its place.  An answer
   asked for while the window may still show another may mix with it, but each
   keeps its order
   (stream_text_response, handleAnswerChunk). *)
StreamShownAsSent ==
    LET text == view.text
        a == text[1].of
    IN  /\ \A i, j \in DOMAIN text : i < j /\ text[i].of = text[j].of =>
                                         text[i].line < text[j].line
        /\ text # <<>> /\ text[1].line # 0 /\ ~view.mixed =>
             LET sent == TextLines(capture[a].body, 1, Len(capture[a].body))
             IN  /\ Len(text) <= Len(sent)
                 /\ text = [i \in DOMAIN text |-> [of |-> a, line |-> sent[i]]]
===============================================================================
