---------------------------- MODULE EventReader ----------------------------
(***************************************************************************)
(* ssgodatabyip/ssgodatabyip.go: eventJSONReader, through which the JSON   *)
(* decoder of main reads a log.  Of every line it passes on what follows   *)
(* the first brace, in pieces of the size the decoder asks for; what does  *)
(* not fit waits in leftover, which is a part of the buffer of the         *)
(* bufio.Reader below it.                                                  *)
(*                                                                         *)
(* What the reader tells apart is the brace, the newline and everything    *)
(* else.  The decoder is not part of the repository: it asks for more      *)
(* until a Read returns an error, and then asks no more, unless the error  *)
(* came with bytes.  If those complete a value it forgets the error and,   *)
(* once it has looked at all of them, asks again.  Which bytes complete a  *)
(* value is left open here, so it may always ask again after such a Read.  *)
(***************************************************************************)
EXTENDS Integers, SequencesExt

CONSTANTS
    BufferSize,   \* of the bufio.Reader: 128*1024
    ReadSize,     \* the lengths of the buffers the decoder passes
    MaxText,      \* bound: how many bytes the log has
    nil

ASSUME ReaderAssumption ==
    /\ BufferSize \in Nat \ {0}
    /\ ReadSize \subseteq Nat \ {0}
    /\ MaxText \in Nat
    /\ nil \notin {"EOF", "full"}

Byte == {"{", "\n", "x"}

VARIABLES
    text,        \* the whole log
    unread,      \* what the bufio.Reader has not given out yet
    leftover,
    err,         \* r.err: the error to return once leftover is gone, or nil
    room,        \* len(p), in the call of Read in progress
    given,       \* n: how many bytes this call, or the last one, has put into p
    pc,          \* "idle" between two calls of Read, "brace" or "line"
    result,      \* the error the last Read has returned, or nil
    delivered    \* everything the decoder has been given

vars == <<text, unread, leftover, err, room, given, pc, result, delivered>>

Take(s, n) == SubSeq(s, 1, IF n < Len(s) THEN n ELSE Len(s))
Drop(s, n) == SubSeq(s, n + 1, Len(s))

-----------------------------------------------------------------------------
\* bufio.Reader.ReadSlice: up to and with the delimiter, or what there is and
\* why there is no more of it.
ReadSlice(delim) ==
    LET i == SelectInSeq(Take(unread, BufferSize), LAMBDA b : b = delim)
    IN  IF i > 0
            THEN [slice |-> Take(unread, i), err |-> nil]
            ELSE [slice |-> Take(unread, BufferSize),
                  err |-> IF Len(unread) < BufferSize THEN "EOF" ELSE "full"]

Init ==
    /\ text \in UNION {[1 .. n -> Byte] : n \in 0 .. MaxText}
    /\ unread = text
    /\ leftover = <<>>
    /\ err = nil
    /\ room = 0
    /\ given = 0
    /\ pc = "idle"
    /\ result = nil
    /\ delivered = <<>>

\* s is put into p, behind the first count bytes of it.
Deliver(s, count) ==
    /\ delivered' = delivered \o s
    /\ given' = count + Len(s)

\* The loop for len(p) > 0, once left bytes of p are not filled yet.
Continue(left) ==
    /\ room' = left
    /\ pc' = IF left > 0 THEN "brace" ELSE "idle"
    /\ result' = nil

ReturnError(e) ==
    /\ room' = 0
    /\ pc' = "idle"
    /\ result' = e

\* The decoder, after the last Read: an error without a byte is its end.
MayAsk == result = nil \/ given > 0

\* Seeded fault: the bytes copied to p stay in leftover.
ReadKeepsLeftover(size) ==
    /\ pc = "idle"
    /\ MayAsk
    /\ LET piece == Take(leftover, size)
       IN  /\ Deliver(piece, 0)
           /\ IF err = nil THEN Continue(size - Len(piece)) ELSE ReturnError(err)
    /\ UNCHANGED <<text, unread, leftover, err>>

\* Seeded fault: the loop is entered without looking at len(p).
ReadWithoutRoom(size) ==
    /\ pc = "idle"
    /\ MayAsk
    /\ LET piece == Take(leftover, size)
       IN  /\ Deliver(piece, 0)
           /\ leftover' = Drop(leftover, Len(piece))
           /\ IF err = nil
                  THEN room' = size - Len(piece) /\ pc' = "brace" /\ result' = nil
                  ELSE ReturnError(err)
    /\ UNCHANGED <<text, unread, err>>

\* The call of Read with len(p) = size, as far as its loop.
Read(size) ==
    /\ pc = "idle"
    /\ MayAsk
    /\ LET piece == Take(leftover, size)
       IN  /\ Deliver(piece, 0)
           /\ leftover' = Drop(leftover, Len(piece))
           /\ IF err = nil THEN Continue(size - Len(piece)) ELSE ReturnError(err)
    /\ UNCHANGED <<text, unread, err>>

\* Seeded fault: the end of the log is taken for the end of the call.
ReadBraceStays ==
    /\ pc = "brace"
    /\ LET got == ReadSlice("{")
       IN  /\ unread' = Drop(unread, Len(got.slice))
           /\ IF got.err # nil
                  THEN Continue(0) /\ UNCHANGED <<delivered, given>>
                  ELSE /\ Deliver(<<"{">>, given)
                       /\ room' = room - 1
                       /\ pc' = "line"
                       /\ UNCHANGED result
    /\ UNCHANGED <<text, leftover, err>>

ReadBrace ==
    /\ pc = "brace"
    /\ LET got == ReadSlice("{")
       IN  /\ unread' = Drop(unread, Len(got.slice))
           /\ IF got.err # nil
                  THEN ReturnError(got.err) /\ UNCHANGED <<delivered, given>>
                  ELSE /\ Deliver(<<"{">>, given)
                       /\ room' = room - 1
                       /\ pc' = "line"
                       /\ UNCHANGED result
    /\ UNCHANGED <<text, leftover, err>>

\* Seeded fault: what does not fit is not kept.
ReadLineDropsRest ==
    /\ pc = "line"
    /\ LET got == ReadSlice("\n")
           piece == Take(got.slice, room)
       IN  /\ unread' = Drop(unread, Len(got.slice))
           /\ Deliver(piece, given)
           /\ IF Len(piece) < Len(got.slice)
                  THEN Continue(0)
                  ELSE IF got.err = nil THEN Continue(room - Len(piece))
                                        ELSE ReturnError(got.err)
    /\ UNCHANGED <<text, leftover, err>>

ReadLine ==
    /\ pc = "line"
    /\ LET got == ReadSlice("\n")
           piece == Take(got.slice, room)
       IN  /\ unread' = Drop(unread, Len(got.slice))
           /\ Deliver(piece, given)
           /\ \/ /\ Len(piece) < Len(got.slice)
                 /\ leftover' = Drop(got.slice, Len(piece))
                 /\ err' = got.err
                 /\ Continue(0)
              \/ /\ Len(piece) = Len(got.slice)
                 /\ IF got.err = nil THEN Continue(room - Len(piece))
                                     ELSE ReturnError(got.err)
                 /\ UNCHANGED <<leftover, err>>
    /\ UNCHANGED text

Next == (\E size \in ReadSize : Read(size)) \/ ReadBrace \/ ReadLine

Spec == Init /\ [][Next]_vars

\* The decoder asks as long as it may, and Read runs to its end.
FairSpec == Spec /\ WF_vars(Next)

-----------------------------------------------------------------------------
(* What a log says, byte by byte: the JSON of its lines, how far the byte  *)
(* is from the last delimiter, and which of the two delimiters was ever    *)
(* too far away for the buffer.                                            *)

Unparsed == [on |-> FALSE, json |-> <<>>, run |-> 0, far |-> {}]

ParseByte(s, b) ==
    LET wanted == IF s.on THEN "\n" ELSE "{"
    IN  [on |-> IF b = wanted THEN ~s.on ELSE s.on,
         json |-> IF s.on \/ b = wanted THEN Append(s.json, b) ELSE s.json,
         run |-> IF b = wanted THEN 0 ELSE s.run + 1,
         far |-> IF b # wanted /\ s.run + 1 >= BufferSize THEN s.far \cup {wanted}
                                                           ELSE s.far]

Parse(log) == FoldLeft(ParseByte, Unparsed, log)

\* What the bufio.Reader has given out of the log.
Consumed == Take(text, Len(text) - Len(unread))

EndsInNewline(log) == log # <<>> => Last(log) = "\n"

-----------------------------------------------------------------------------
(* Properties.                                                             *)

TypeOK ==
    /\ text \in Seq(Byte) /\ unread \in Seq(Byte)
    /\ leftover \in Seq(Byte) /\ delivered \in Seq(Byte)
    /\ err \in {nil, "EOF", "full"} /\ result \in {nil, "EOF", "full"}
    /\ room \in Nat /\ given \in Nat
    /\ pc \in {"idle", "brace", "line"}
    /\ pc = "brace" => room > 0

\* "streams JSON values ..., discarding non-JSON data at the beginning of each
\* line" (ssgodatabyip.go:68-69): whatever sizes the decoder asks for, and also
\* when it goes on after an error, it gets the JSON of the lines in order, with
\* nothing between, doubled or skipped, up to the first line whose JSON is too
\* long for the buffer: the Read after that one may search the rest of the line
\* for a brace.
DeliversJSON ==
    "\n" \in Parse(Consumed).far \/ IsPrefix(delivered, Parse(text).json)

\* All of it, for a log whose last line is complete and which never keeps the
\* buffer waiting for a delimiter: no Read then returns another error than
\* io.EOF, and none returns that too early.
CompleteLogIsDelivered ==
    result # nil /\ EndsInNewline(text) /\ Parse(text).far = {} =>
        result = "EOF" /\ delivered = Parse(text).json

\* leftover is a part of the buffer that the next ReadSlice may fill anew, so
\* nothing may be read while bytes of it are still to be delivered.
LeftoverIsNotOverwritten == [][unread' # unread => leftover = <<>>]_vars

\* Every log comes to its end, an error without a byte: no Read leaves the
\* decoder asking for ever, however often it goes on after an error.
LogEnds == <>~MayAsk

\* "streams JSON values from the inner reader" (ssgodatabyip.go:68): io.EOF
\* says that there is no more, so by then everything has been delivered, also
\* when the last line has no newline.
EndOfLogIsDelivered == result = "EOF" => delivered = Parse(text).json
=============================================================================
