------------------------------- MODULE SseParser -------------------------------
(***************************************************************************)
(* The parser of the chat page's event stream (frontend/src/lib/sse.ts).   *)
(*                                                                         *)
(* A stream is a sequence of atoms: the characters the parser looks for    *)
(* ("\r", "\n", "blank" for " "), field names, words it only passes on.    *)
(* The network cuts it into chunks wherever it likes (Push) and may break  *)
(* off (Break).  A cut inside a field name or a word is no different from  *)
(* one before it: only complete frames are looked at.                      *)
(*                                                                         *)
(* External: sse-starlette's encoding of what backend/api/main.py yields,  *)
(* and the ping comments it sends in between.                              *)
(***************************************************************************)
EXTENDS Integers, Sequences

CONSTANTS
  Words,       \* atoms the parser only passes on
  Sendable,    \* events a server may send: a name and the lines of their data
  MaxEvents    \* BOUND: events and pings in one stream

Atoms == Words \cup {"\r", "\n", "blank", "event:", "data:", ":"}

\* sse-starlette breaks data into lines at every line ending; no name has a blank.
Line == Seq(Atoms \ {"\r", "\n"})
Name == Seq(Atoms \ {"\r", "\n", "blank"}) \ {<<>>}

ASSUME SseAssumption ==
  /\ MaxEvents \in Nat
  /\ Sendable # {} /\ Sendable \subseteq [event : Name, lines : Seq(Line)]

VARIABLES
  sent,      \* the events of the stream
  unread,    \* atoms that have not reached the page
  buffer,    \* what the parser keeps for the next chunk
  shown,     \* the events it has given to the page
  open       \* is the connection up?

vars == <<sent, unread, buffer, shown, open>>

CRLF == <<"\r", "\n">>
LF == <<"\n">>
Ping == [event |-> <<>>, lines |-> <<>>]

\* The first n of some texts, one after the other.
UpTo(texts, n) ==
  LET joined[k \in 0..n] == IF k = 0 THEN <<>> ELSE joined[k - 1] \o texts[k]
  IN joined[n]

Concat(texts) == UpTo(texts, Len(texts))

\* parts.join(sep)
Join(parts, sep) ==
  Concat([i \in DOMAIN parts |-> IF i = 1 THEN parts[i] ELSE sep \o parts[i]])

\* A comment, or the event's name and one field per line of its data.
FieldsOf(e) ==
  IF e = Ping THEN << <<":">> >>
  ELSE << <<"event:", "blank">> \o e.event >>
       \o [i \in DOMAIN e.lines |-> <<"data:", "blank">> \o e.lines[i]]

\* Each line of a frame is ended by CRLF, and so is the frame.
Encoded(e) ==
  Concat([i \in DOMAIN FieldsOf(e) |-> FieldsOf(e)[i] \o CRLF]) \o CRLF

Frames == [i \in DOMAIN sent |-> Encoded(sent[i])]

Init ==
  /\ \E n \in 0..MaxEvents : sent \in [1..n -> Sendable \cup {Ping}]
  /\ unread = Concat(Frames)
  /\ buffer = <<>> /\ shown = <<>> /\ open = TRUE

-------------------------------------------------------------------------------
\* text.split(sep), atom by atom: the parts that a sep has ended, and the rest.
Cut(parts, atom, sep) ==
  LET rest == Append(parts.rest, atom)
      n == Len(rest) - Len(sep)
  IN IF n >= 0 /\ SubSeq(rest, n + 1, Len(rest)) = sep
     THEN [complete |-> Append(parts.complete, SubSeq(rest, 1, n)), rest |-> <<>>]
     ELSE [complete |-> parts.complete, rest |-> rest]

Split(text, sep) ==
  LET cut[n \in 0..Len(text)] ==
        IF n = 0 THEN [complete |-> <<>>, rest |-> <<>>]
        ELSE Cut(cut[n - 1], text[n], sep)
  IN cut[Len(text)]

\* text.replace(/\r\n/g, "\n")
LfOnly(text) ==
  LET dropped(i) == text[i] = "\r" /\ i + 1 \in DOMAIN text /\ text[i + 1] = "\n"
  IN Concat([i \in DOMAIN text |-> IF dropped(i) THEN <<>> ELSE <<text[i]>>])

\* Mutant of Received: line endings are normalized chunk by chunk.
Received_ByChunk(chunk) == buffer \o LfOnly(chunk)

Received(chunk) == LfOnly(buffer \o chunk)

\* What follows the name in the lines of a frame that start with it.
Fields(frame, name) ==
  LET parts == Split(frame, LF)
      lines == Append(parts.complete, parts.rest)
      starts(line) == line # <<>> /\ line[1] = name
  IN Concat([i \in DOMAIN lines |->
               IF starts(lines[i]) THEN <<Tail(lines[i])>> ELSE <<>>])

\* text.trim()
Trim(text) ==
  LET inside == {i \in DOMAIN text :
                   /\ \E j \in DOMAIN text : j <= i /\ text[j] \notin {"blank", "\r"}
                   /\ \E j \in DOMAIN text : i <= j /\ text[j] \notin {"blank", "\r"}}
  IN Concat([i \in DOMAIN text |-> IF i \in inside THEN <<text[i]>> ELSE <<>>])

\* At most one blank after the colon is not part of the value.
Value(field) == IF field # <<>> /\ field[1] = "blank" THEN Tail(field) ELSE field

DataOf(frame) ==
  LET fields == Fields(frame, "data:")
  IN Join([i \in DOMAIN fields |-> Value(fields[i])], LF)

\* The event of a frame; one without a name is skipped.
EventOf(frame) ==
  LET names == Fields(frame, "event:")
  IN IF names = <<>> \/ Trim(names[1]) = <<>> THEN <<>>
     ELSE <<[event |-> Trim(names[1]), data |-> DataOf(frame)]>>

\* push(chunk): the complete frames are parsed, the rest waits.
push(chunk) ==
  LET frames == Split(Received(chunk), LF \o LF)
      complete == frames.complete
  IN /\ buffer' = frames.rest
     /\ shown' = shown \o Concat([i \in DOMAIN complete |-> EventOf(complete[i])])

Push ==
  /\ open
  /\ \E n \in DOMAIN unread :
       /\ push(SubSeq(unread, 1, n))
       /\ unread' = SubSeq(unread, n + 1, Len(unread))
  /\ UNCHANGED <<sent, open>>

Break ==
  /\ open
  /\ open' = FALSE
  /\ UNCHANGED <<sent, unread, buffer, shown>>

Next == Push \/ Break

Spec == Init /\ [][Next]_vars

-------------------------------------------------------------------------------
\* What the server meant by an event: its data with the line breaks.
Meant(e) ==
  IF e = Ping THEN <<>> ELSE <<[event |-> e.event, data |-> Join(e.lines, LF)]>>

\* However the network cuts the stream, also inside a CRLF, the page has been
\* given exactly the events whose frame has arrived to its end, each as it was
\* sent: no stray "\r", no blank or line lost, no ping, nothing early or twice.
EventsOut ==
  LET arrived == Len(Concat(Frames)) - Len(unread)
      meant == [i \in DOMAIN sent |-> Meant(sent[i])]
  IN \E n \in 0..Len(sent) :
       /\ Len(UpTo(Frames, n)) <= arrived
       /\ n < Len(sent) => arrived < Len(UpTo(Frames, n + 1))
       /\ shown = UpTo(meant, n)
===============================================================================
