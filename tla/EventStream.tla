----------------------------- MODULE EventStream ----------------------------
(***************************************************************************)
(* The framing of filterEventStream (proxy.ts): an SSE body is cut into    *)
(* events as it arrives, each one is filtered and passed on, and an event  *)
(* over the cap ends the stream.  The upstream decides the text, the       *)
(* transport how it is split into chunks.                                  *)
(*                                                                         *)
(* Of an event's content only this is kept: whether the filter must        *)
(* rewrite it, and how many bytes it takes.                                *)
(***************************************************************************)
EXTENDS Integers, Sequences, FiniteSets

CONSTANTS
    MaxLength, \* bound on the characters of a stream
    Cap        \* maxEventBytes

ASSUME EventStreamAssumption == MaxLength \in Nat /\ Cap \in Nat

VARIABLES
    text,          \* all the upstream will send
    arrived,       \* how many characters of it have arrived
    buffered,
    bufferedBytes,
    scanned,
    out,           \* what was enqueued: blocks and the terminators after them
    status         \* "open", "refused" (an event over the cap) or "flushed"

vars == <<text, arrived, buffered, bufferedBytes, scanned, out, status>>

\* "hidden" is a character of a payload that must be rewritten, and takes two
\* bytes; "shown" takes one.
Char  == {"shown", "hidden", "CR", "LF"}
Texts == UNION {[1..n -> Char] : n \in 0..MaxLength}

\* encoder.encode(s).length
Bytes(s) == Len(s) + Cardinality({k \in DOMAIN s : s[k] = "hidden"})

-----------------------------------------------------------------------------
(* LINE_END and EVENT_END: the length of the match at a position, or 0. *)

At(s, p) == IF p \in 1..Len(s) THEN s[p] ELSE "end"

LineEnd(s, p) ==
    CASE At(s, p) = "CR" -> IF At(s, p + 1) = "LF" THEN 2 ELSE 1
      [] At(s, p) = "LF" -> 1
      [] OTHER -> 0

EventEnd(s, p) ==
    LET first  == LineEnd(s, p)
        second == LineEnd(s, p + first)
    IN  IF first > 0 /\ second > 0 THEN first + second ELSE 0

\* Mutant of From: one character back.
FromOneBack(scan) == IF scan > 1 THEN scan ELSE 1

OVERLAP == 3

\* Where the search may start: a terminator of four characters may have been
\* missed for lack of its last one.
From(scan) == IF scan > OVERLAP THEN scan - OVERLAP + 1 ELSE 1

Matches(s, scan) == {p \in From(scan)..Len(s) : EventEnd(s, p) > 0}

-----------------------------------------------------------------------------
(* filterEvent and drain *)

\* An event that must be rewritten becomes a line of its own making.
filterEvent(block) ==
    IF \E k \in DOMAIN block : block[k] = "hidden" THEN <<"shown">> ELSE block

\* Mutant of Consumed: the terminator's bytes stay counted.
ConsumedBlock(s, at) == Bytes(SubSeq(s, 1, at - 1))

\* The bytes of the event at the head of the buffer and of its terminator.
Consumed(s, at) == Bytes(SubSeq(s, 1, at - 1 + EventEnd(s, at)))

\* One turn of drain's loop: it cuts the first event off, or returns, with an event over the cap
\* or without.
Turn(d) ==
    LET s     == d.buffered
        found == Matches(s, d.scanned)
        at    == CHOOSE p \in found : \A q \in found : p <= q
        after == at + EventEnd(s, at)
        block == SubSeq(s, 1, at - 1)
    IN  IF d.is # "draining" THEN d
        \* A trailing lone CR may be the first half of a CRLF still in flight.
        ELSE IF found = {} \/ (after > Len(s) /\ s[Len(s)] = "CR")
        THEN [d EXCEPT !.scanned = Len(s), !.is = IF d.bytes <= Cap THEN "open" ELSE "refused"]
        ELSE IF Bytes(block) > Cap THEN [d EXCEPT !.is = "refused"]
        ELSE [buffered |-> SubSeq(s, after, Len(s)),
              bytes    |-> d.bytes - Consumed(s, at),
              scanned  |-> 0,
              out      |-> Append(d.out, [block |-> block, end |-> SubSeq(s, at, after - 1)]),
              is       |-> "draining"]

\* Where the loop ends. An event takes two characters at least, so there are turns enough.
drain(d) ==
    LET turns[n \in 0..Len(d.buffered) + 1] == IF n = 0 THEN d ELSE Turn(turns[n - 1])
    IN  turns[Len(d.buffered) + 1]

-----------------------------------------------------------------------------
Init ==
    /\ text \in Texts
    /\ arrived = 0
    /\ buffered = <<>>
    /\ bufferedBytes = 0
    /\ scanned = 0
    /\ out = <<>>
    /\ status = "open"

\* A chunk of n characters.  Over the cap, the stream ends with a refusal.
transform(n) ==
    LET chunk == SubSeq(text, arrived + 1, arrived + n)
        d == drain([buffered |-> buffered \o chunk, bytes |-> bufferedBytes + Bytes(chunk),
                    scanned |-> scanned, out |-> out, is |-> "draining"])
        ok == d.is = "open"
    IN
    /\ status = "open"
    /\ arrived + n <= Len(text)
    /\ arrived' = arrived + n
    /\ buffered' = IF ok THEN d.buffered ELSE <<>>
    /\ bufferedBytes' = IF ok THEN d.bytes ELSE 0
    /\ scanned' = d.scanned
    /\ out' = d.out
    /\ status' = d.is
    /\ UNCHANGED text

\* The upstream has ended: what is left is filtered as it stands, and blank
\* lines alone are dropped.
flush ==
    LET blank == \A k \in DOMAIN buffered : buffered[k] \in {"CR", "LF"}
        over  == ~blank /\ bufferedBytes > Cap
    IN
    /\ status = "open"
    /\ arrived = Len(text)
    /\ status' = IF over THEN "refused" ELSE "flushed"
    /\ out' = IF blank \/ over THEN out ELSE Append(out, [block |-> buffered, end |-> <<>>])
    /\ UNCHANGED <<text, arrived, buffered, bufferedBytes, scanned>>

Next == flush \/ \E n \in 1..MaxLength : transform(n)

Spec == Init /\ [][Next]_vars

-----------------------------------------------------------------------------
(* The reference: the events a client dispatches, by the standard's own     *)
(* reading, one character at a time: lines, and a blank line that ends the  *)
(* event before it.                                                         *)

Parser == [events |-> <<>>, event |-> <<>>, line |-> <<>>, afterCR |-> FALSE]

Parse(p, c) ==
    IF c = "LF" /\ p.afterCR THEN [p EXCEPT !.afterCR = FALSE]
    ELSE IF c \notin {"CR", "LF"} THEN [p EXCEPT !.line = Append(@, c), !.afterCR = FALSE]
    ELSE LET ended == [p EXCEPT !.line = <<>>, !.afterCR = (c = "CR")]
         IN  IF p.line # <<>> THEN [ended EXCEPT !.event = Append(@, p.line)]
             ELSE IF p.event = <<>> THEN ended
             ELSE [ended EXCEPT !.event = <<>>, !.events = Append(@, p.event)]

\* Where the parser is after s, from where it was.
After(p, s) ==
    LET read[n \in 0..Len(s)] == IF n = 0 THEN p ELSE Parse(read[n - 1], s[n])
    IN  read[Len(s)]

Dispatched(s) == After(Parser, s).events

\* What the filter should make of an event.
Filtered(event) ==
    IF \E k \in DOMAIN event : \E m \in DOMAIN event[k] : event[k][m] = "hidden"
    THEN <<<<"shown">>>> ELSE event

Arrived == SubSeq(text, 1, arrived)

\* What was enqueued, as one text.
Written(blocks) ==
    LET w[n \in 0..Len(blocks)] ==
          IF n = 0 THEN <<>> ELSE w[n - 1] \o filterEvent(blocks[n].block) \o blocks[n].end
    IN  w[Len(blocks)]
Sent == Written(out)

Wanted == LET events == Dispatched(Arrived)
          IN  [k \in DOMAIN events |-> Filtered(events[k])]

\* Where the first event from p on ends, the end of the text where none does.
FirstEnd(s, p) ==
    LET ends == {q \in p..Len(s) : EventEnd(s, q) > 0}
    IN  IF ends = {} THEN Len(s) + 1 ELSE CHOOSE q \in ends : \A r \in ends : q <= r

\* Where the events of a text start: at its beginning, and after each one's end.
Follows(s, p) == IF FirstEnd(s, p) > Len(s) THEN p ELSE FirstEnd(s, p) + EventEnd(s, FirstEnd(s, p))
Starts(s) ==
    {p \in 1..Len(s) + 1 :
       \A S \in SUBSET (1..Len(s) + 1) : 1 \in S /\ (\A q \in S : Follows(s, q) \in S) => p \in S}

\* The event that starts there, without its end.
Block(s, p) == SubSeq(s, p, FirstEnd(s, p) - 1)

-----------------------------------------------------------------------------
(* Properties. *)

\* scanned never runs past the buffer, and the byte count that is carried from
\* chunk to chunk is the buffer's own.
TypeOK ==
    /\ text \in Texts
    /\ arrived \in 0..Len(text)
    /\ buffered \in Seq(Char)
    /\ bufferedBytes = Bytes(buffered)
    /\ status # "refused" => scanned \in 0..Len(buffered)
    /\ out \in Seq([block : Seq(Char), end : Seq(Char)])
    /\ status \in {"open", "refused", "flushed"}

\* However the transport splits the text, the client dispatches exactly the
\* events the upstream ended so far, each one filtered, in their order: no two
\* run together, none is cut, held back or read twice.  (An event whose last
\* character so far is a CR is still being read.)
EventsKept ==
    status # "refused" /\ (arrived > 0 => text[arrived] # "CR") => Dispatched(Sent) = Wanted

\* The same at the end of the stream, whatever character it ends with: the nine
\* combinations of line ends all end an event.
LastEventKept == status = "flushed" => Dispatched(Sent) = Wanted

\* What an open stream holds and passed on.
NothingOverCap ==
    status # "refused" =>
        /\ Bytes(buffered) <= Cap
        /\ \A k \in DOMAIN out : Bytes(out[k].block) <= Cap

\* What ends one.
RefusedNearCap ==
    status = "refused" => \E p \in Starts(text) : Bytes(Block(text, p)) + 3 > Cap

\* The cap decides, on every split: no event over it is held or passed on, and a stream is ended
\* only over an event whose bytes, with those of a terminator still incomplete, pass it: three
\* more at most (proxy.ts:945-996).
CapDecides == NothingOverCap /\ RefusedNearCap
=============================================================================
