-------------------------------- MODULE Frame --------------------------------
(***************************************************************************)
(* src/frame.rs: LengthPrefixedCodec between one writer and one reader of  *)
(* a byte stream that holds a few bytes at a time.  A frame is a prefix of *)
(* PrefixDigits digits, most significant first, and a body of that length. *)
(* Either future may be dropped between two bytes, and the writer may      *)
(* close the stream at any time.                                           *)
(***************************************************************************)
EXTENDS Integers, Sequences

CONSTANTS Base, PrefixDigits,  \* in the code 256 and 4, as u32
          Bodies,              \* the bodies that are offered
          Limits,              \* the values of MaximumFrameLength
          Capacity,            \* bytes the stream holds
          FrameMax             \* bound on the frames that are offered

Byte == 0..(Base - 1)

ASSUME FrameAssumption ==
    /\ Base \in Nat \ {0} /\ PrefixDigits \in Nat \ {0}
    /\ Bodies \subseteq Seq(Byte) /\ Limits \subseteq Nat
    /\ Capacity \in Nat \ {0} /\ FrameMax \in Nat

VARIABLES limit,      \* the limits the writer's and the reader's codec were made with
          offered,    \* frames offered so far
          out,        \* bytes that write_all has still to write
          stream,     \* bytes written and not yet read
          open,       \* the writer has not closed the stream
          reader,     \* "idle", in read_exact of the "prefix" or "body", or "ended"
          length,     \* the length that a "body" read has been told
          got,        \* bytes of that read_exact
          sent,       \* bodies of which a byte has been written, or is to be
          received,   \* bodies that read_body returned
          cut,        \* a write was dropped with part of its frame written
          disturbed   \* "no", or what first took the stream out of step

writerVars == <<offered, out, open, sent, cut>>
readerVars == <<reader, length, got, received>>
frameVars == <<limit, stream, disturbed, writerVars, readerVars>>

FrameTypeOK ==
    /\ limit \in [writer : Limits, reader : Limits]
    /\ offered \in 0..FrameMax
    /\ out \in Seq(Byte) /\ stream \in Seq(Byte) /\ Len(stream) <= Capacity
    /\ open \in BOOLEAN /\ cut \in BOOLEAN
    /\ reader \in {"idle", "prefix", "body", "ended"}
    /\ length \in Nat /\ got \in Seq(Byte)
    /\ sent \in Seq(Bodies) /\ received \in Seq(Seq(Byte))
    /\ disturbed \in {"no", "refused", "dropped"}

FrameInit ==
    /\ limit \in [writer : Limits, reader : Limits]
    /\ offered = 0 /\ out = <<>> /\ stream = <<>> /\ open = TRUE
    /\ reader = "idle" /\ length = 0 /\ got = <<>>
    /\ sent = <<>> /\ received = <<>>
    /\ cut = FALSE /\ disturbed = "no"

\* The weight of the digit that k others follow.
Weight[k \in 0..PrefixDigits] == IF k = 0 THEN 1 ELSE Base * Weight[k - 1]

\* The prefix of a length, u32::to_be_bytes, and the length of a prefix.
Digits(n) == [i \in 1..PrefixDigits |-> (n \div Weight[PrefixDigits - i]) % Base]

Value(digits) ==
    LET upTo[i \in 0..PrefixDigits] == IF i = 0 THEN 0 ELSE upTo[i - 1] * Base + digits[i]
    IN  upTo[PrefixDigits]

Accepts(maximum, n) == n <= maximum
FrameOf(body) == Digits(Len(body)) \o body
Disturb(how) == disturbed' = IF disturbed = "no" THEN how ELSE disturbed

\* Mutant: the length is not checked against the width of the prefix.
BugUnchecked(body) == Accepts(limit.writer, Len(body))

\* The codec's limit first, then the width of the prefix.
Encodes(body) == Accepts(limit.writer, Len(body)) /\ Len(body) < Weight[PrefixDigits]

\* A body that does not encode is refused before a byte is written.  A frame that
\* follows a cut one is read as the rest of it.
WriteBody(body) ==
    /\ open /\ out = <<>> /\ offered < FrameMax
    /\ offered' = offered + 1
    /\ IF Encodes(body)
       THEN /\ out' = FrameOf(body) /\ sent' = Append(sent, body)
            /\ IF cut THEN Disturb("dropped") ELSE UNCHANGED disturbed
       ELSE UNCHANGED <<out, sent, disturbed>>
    /\ UNCHANGED <<limit, stream, open, cut, readerVars>>

\* Mutant: a frame waits until all of it fits.
BugWholeFrame ==
    /\ out # <<>> /\ Len(stream) + Len(out) <= Capacity
    /\ stream' = stream \o out /\ out' = <<>>
    /\ UNCHANGED <<limit, disturbed, offered, open, sent, cut, readerVars>>

\* write_all, a byte at a time as the stream has room.
WriteByte ==
    /\ out # <<>> /\ Len(stream) < Capacity
    /\ stream' = Append(stream, Head(out)) /\ out' = Tail(out)
    /\ UNCHANGED <<limit, disturbed, offered, open, sent, cut, readerVars>>

\* The write is abandoned: nothing of the frame is written yet, or it is cut.
DropWrite ==
    LET body == sent[Len(sent)]
    IN  /\ out # <<>>
        /\ out' = <<>>
        /\ IF out = FrameOf(body)
           THEN sent' = SubSeq(sent, 1, Len(sent) - 1) /\ UNCHANGED cut
           ELSE cut' = TRUE /\ UNCHANGED sent
        /\ UNCHANGED <<limit, stream, disturbed, offered, open, readerVars>>

CloseWriter ==
    /\ open /\ open' = FALSE
    /\ out' = <<>>
    /\ UNCHANGED <<limit, stream, disturbed, offered, sent, cut, readerVars>>

\* The bytes that the read_exact under way is for.
Wanted == IF reader = "prefix" THEN PrefixDigits ELSE length

ReadBody ==
    /\ reader = "idle"
    /\ reader' = "prefix" /\ got' = <<>>
    /\ UNCHANGED <<limit, stream, disturbed, writerVars, length, received>>

ReadByte ==
    /\ reader \in {"prefix", "body"} /\ Len(got) < Wanted /\ stream # <<>>
    /\ got' = Append(got, Head(stream)) /\ stream' = Tail(stream)
    /\ UNCHANGED <<limit, disturbed, writerVars, reader, length, received>>

\* Mutant: the prefix counts against the reader's limit.
BugCountsPrefix(n) == Accepts(limit.reader, n + PrefixDigits)

MayRead(n) == Accepts(limit.reader, n)

\* The prefix is complete: read that many bytes more, or refuse, with the prefix
\* consumed and the body left in the stream.
PrefixRead ==
    /\ reader = "prefix" /\ Len(got) = PrefixDigits
    /\ got' = <<>>
    /\ IF MayRead(Value(got))
       THEN reader' = "body" /\ length' = Value(got) /\ UNCHANGED disturbed
       ELSE reader' = "idle" /\ UNCHANGED length /\ Disturb("refused")
    /\ UNCHANGED <<limit, stream, writerVars, received>>

BodyRead ==
    /\ reader = "body" /\ Len(got) = length
    /\ received' = Append(received, got)
    /\ reader' = "idle" /\ got' = <<>> /\ length' = 0
    /\ UNCHANGED <<limit, stream, disturbed, writerVars>>

\* Mutant: a stream that ends inside a body yields the bytes there are.
BugShortBody ==
    /\ reader \in {"prefix", "body"} /\ Len(got) < Wanted /\ stream = <<>> /\ ~open
    /\ received' = IF reader = "body" THEN Append(received, got) ELSE received
    /\ reader' = "ended" /\ got' = <<>> /\ length' = 0
    /\ UNCHANGED <<limit, stream, disturbed, writerVars>>

\* The end of the stream inside either read_exact, also before the first byte.
EndOfStream ==
    /\ reader \in {"prefix", "body"} /\ Len(got) < Wanted /\ stream = <<>> /\ ~open
    /\ reader' = "ended" /\ got' = <<>> /\ length' = 0
    /\ UNCHANGED <<limit, stream, disturbed, writerVars, received>>

\* The read is abandoned with bytes consumed: its future is dropped, or the stream's
\* timeout fires.  Abandoned before its first byte it leaves no trace.
DropRead ==
    /\ reader = "body" \/ (reader = "prefix" /\ got # <<>>)
    /\ reader' = "idle" /\ got' = <<>> /\ length' = 0
    /\ Disturb("dropped")
    /\ UNCHANGED <<limit, stream, writerVars, received>>

FrameNext ==
    \/ \E body \in Bodies : WriteBody(body)
    \/ WriteByte \/ DropWrite \/ CloseWriter
    \/ ReadBody \/ ReadByte \/ PrefixRead \/ BodyRead \/ EndOfStream \/ DropRead

FrameSpec == FrameInit /\ [][FrameNext]_frameVars

\* Both ends go on; nobody has to offer a frame, to drop a call or to close.
FrameFairSpec ==
    /\ FrameSpec
    /\ WF_frameVars(WriteByte)
    /\ WF_frameVars(ReadBody \/ ReadByte \/ PrefixRead \/ BodyRead \/ EndOfStream)

------------------------------------------------------------------------------
\* As long as no length was refused, no read was dropped with bytes consumed and
\* nothing was written after a cut frame, the reader gets the bodies that were
\* sent, whole and in order, however the bytes come (encode_body, read_body).
BodiesInOrder ==
    disturbed = "no" =>
        Len(received) <= Len(sent) /\ \A i \in 1..Len(received) : received[i] = sent[i]

\* A body that is sent arrives unless a call is dropped or the writer closes: a
\* frame larger than the stream holds does not deadlock the two ends, and a reader
\* whose limit is no lower than the writer's never refuses (write_body, read_body,
\* validate_length).
EveryBodyArrives ==
    limit.writer <= limit.reader =>
        \A n \in 1..FrameMax :
            (Len(sent) >= n) ~> (\/ Len(received) >= n \/ Len(sent) < n
                                 \/ cut \/ disturbed = "dropped" \/ ~open)
==============================================================================
