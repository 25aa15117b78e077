---------------------------- MODULE WebTransport ----------------------------
(***************************************************************************)
(* The browser transport (web-transport.ts): a unary call is one fetch,    *)
(* whose body arrives in chunks of any size and is cut into frames as it   *)
(* arrives. A call ends with the answer, with a status, at its deadline,   *)
(* or when close() aborts it.                                              *)
(*                                                                         *)
(* GrpcWebFrameReader's loops are taken step by step: one action is one    *)
(* iteration of `read`, or what `push` does between two reads. The code    *)
(* does not yield in between. A step of another call, the timer or close() *)
(* may come in between here, which only sets flags that the loops do not   *)
(* read: it is as if it came before the chunk.                             *)
(***************************************************************************)
EXTENDS Naturals, Sequences, FiniteSets

CONSTANTS
    Calls,
    Bodies,          \* what a validator may send: bytes, and where frames start in them
    NoBody,
    Heads,           \* its HTTP status, grpc-status header and content type
    MaxAnswerBytes,  \* GRPC_WEB_MAX_ANSWER_BYTES
    MaxChunk         \* bound: the bytes of one chunk

\* FRAME_HEADER_LENGTH: a flag byte, and a length of four bytes.
HeaderLength == 5

\* DataView.getUint32(1) of a header.
LengthIn(head) == 16777216 * head[2] + 65536 * head[3] + 256 * head[4] + head[5]

\* The bytes of a body from position `from`, as a sequence.
Slice(bytes, from, n) == [j \in 1 .. n |-> bytes[from + j]]

\* The parts of the i-th frame of a body.
FlagOf(b, i) == b.bytes[b.starts[i] + 1]
LengthOf(b, i) == LengthIn(Slice(b.bytes, b.starts[i], HeaderLength))
EndOf(b, i) == b.starts[i] + HeaderLength + LengthOf(b, i)
PayloadOf(b, i) == Slice(b.bytes, b.starts[i] + HeaderLength, LengthOf(b, i))

\* Any bytes may be sent. Their frames follow one another from the first byte on;
\* the last one may be incomplete, and fewer bytes than a header may be left over.
WellFramed(b) ==
    /\ b.starts \in Seq(Nat)
    /\ Len(b.bytes) \in Nat
    /\ b.starts = <<>> => Len(b.bytes) < HeaderLength
    /\ \A i \in DOMAIN b.starts :
          /\ LengthOf(b, i) \in Nat
          /\ b.starts[i] + HeaderLength <= Len(b.bytes)
          /\ i = 1 => b.starts[i] = 0
          /\ \A j \in DOMAIN b.starts :
                /\ j = i + 1 => b.starts[j] = EndOf(b, i)
                /\ j > i => b.starts[j] >= EndOf(b, i)
          /\ i = Len(b.starts) => EndOf(b, i) + HeaderLength > Len(b.bytes)

ASSUME WebAssumption ==
    /\ MaxAnswerBytes \in Nat
    /\ MaxChunk \in Nat
    /\ NoBody \notin Bodies
    /\ \A b \in Bodies : WellFramed(b)

VARIABLES
    closed,    \* set by close()
    inFlight,  \* the calls whose abort controller close() aborts
    timedOut,  \* the calls whose timer fired
    aborted,   \* the calls whose fetch was aborted
    rejected,  \* history: the calls whose fetch, or a read of the body, rejected
    pc,        \* where each call is
    outcome,   \* how each call ended
    head,      \* the head of the response
    body,      \* the body that is being sent
    arrived,   \* how many of its bytes arrived
    chunks,    \* GrpcWebFrameReader.chunks: views of the body
    buffered,  \* GrpcWebFrameReader.buffered
    copy,      \* the locals of `read`
    header,    \* the header that `push` read
    data,      \* the messages taken
    trailers,  \* <<>>, or the grpc-status of the trailer frame, once it was taken
    taken      \* history: how many frames were taken

abortVars == <<closed, timedOut, aborted, rejected>>
endVars == <<inFlight, outcome>>
answerVars == <<head, body, arrived>>
readerVars == <<chunks, buffered, copy, header>>
takenVars == <<data, trailers, taken>>
vars == <<abortVars, endVars, pc, answerVars, readerVars, takenVars>>

\* "cutting" is the condition of push's loop; "peeking" at a header, "skipping" it
\* and taking the "payload" are the three reads of its body.
ReadSteps == {"peeking", "skipping", "payload"}
Steps == {"idle", "fetching", "reading", "cutting", "done"} \cup ReadSteps

\* COMPRESSED_FLAG and TRAILER_FLAG are bits of the flag byte.
IsCompressed(flag) == flag % 2 = 1
IsTrailer(flag) == (flag \div 128) % 2 = 1

\* The code of a gRPC-Web error.
Codes == {"OK", "CANCELLED", "UNKNOWN", "DEADLINE_EXCEEDED", "PERMISSION_DENIED",
          "RESOURCE_EXHAUSTED", "UNIMPLEMENTED", "INTERNAL", "UNAVAILABLE",
          "UNAUTHENTICATED"}

\* grpcStatusOf: the code of a grpc-status field that is absent, a number, or
\* not a number.
GrpcStatusOf(field) ==
    CASE field = "absent" -> "none"
      [] field = "malformed" -> "UNKNOWN"
      [] OTHER -> field

\* grpcStatusOfHttp
GrpcStatusOfHttp(http) ==
    CASE http = 400 -> "INTERNAL"
      [] http = 401 -> "UNAUTHENTICATED"
      [] http = 403 -> "PERMISSION_DENIED"
      [] http = 404 -> "UNIMPLEMENTED"
      [] http \in {429, 502, 503, 504} -> "UNAVAILABLE"
      [] OTHER -> "UNKNOWN"

\* parseGrpcWebTrailers: the grpc-status line of a trailer frame's payload, which
\* is here its first byte.
TrailerStatus(payload) == IF DOMAIN payload = {} THEN "absent" ELSE payload[1]

\* The locals of `read` when it starts: `count` bytes are to be copied.
StartOfRead(count) ==
    [count |-> count, copied |-> 0, index |-> 1, out |-> [j \in 1 .. count |-> 0]]

NoHead == [http |-> 200, status |-> "absent", grpcWeb |-> TRUE]

\* A chunk is a view of the body: the bytes after `from`, up to `to`.
View == [from : Nat, to : Nat]

TypeOK ==
    /\ closed \in BOOLEAN
    /\ inFlight \subseteq Calls
    /\ timedOut \subseteq Calls
    /\ aborted \subseteq Calls
    /\ rejected \subseteq Calls
    /\ pc \in [Calls -> Steps]
    /\ DOMAIN outcome = Calls
    /\ head \in [Calls -> Heads \cup {NoHead}]
    /\ body \in [Calls -> Bodies \cup {NoBody}]
    /\ arrived \in [Calls -> Nat]
    /\ chunks \in [Calls -> Seq(View)]
    /\ buffered \in [Calls -> Nat]
    /\ DOMAIN copy = Calls
    /\ \A c \in Calls :
          /\ copy[c].count \in Nat
          /\ copy[c].copied \in Nat
          /\ copy[c].index \in Nat \ {0}
          /\ copy[c].out = [j \in 1 .. copy[c].count |-> copy[c].out[j]]
    /\ DOMAIN header = Calls
    /\ DOMAIN data = Calls
    /\ DOMAIN trailers = Calls
    /\ taken \in [Calls -> Nat]

Init ==
    /\ closed = FALSE
    /\ inFlight = {}
    /\ timedOut = {}
    /\ aborted = {}
    /\ rejected = {}
    /\ pc = [c \in Calls |-> "idle"]
    /\ outcome = [c \in Calls |-> "pending"]
    /\ head = [c \in Calls |-> NoHead]
    /\ body = [c \in Calls |-> NoBody]
    /\ arrived = [c \in Calls |-> 0]
    /\ chunks = [c \in Calls |-> <<>>]
    /\ buffered = [c \in Calls |-> 0]
    /\ copy = [c \in Calls |-> StartOfRead(0)]
    /\ header = [c \in Calls |-> <<>>]
    /\ data = [c \in Calls |-> <<>>]
    /\ trailers = [c \in Calls |-> <<>>]
    /\ taken = [c \in Calls |-> 0]

\* A call leaves the transport: its timer is cleared and it is no longer in flight.
Ends(c, result) ==
    /\ pc' = [pc EXCEPT ![c] = "done"]
    /\ outcome' = [outcome EXCEPT ![c] = result]
    /\ inFlight' = inFlight \ {c}

Goto(c, step) ==
    /\ pc' = [pc EXCEPT ![c] = step]
    /\ UNCHANGED endVars

-----------------------------------------------------------------------------
(* GrpcWebFrameReader.                                                     *)

\* push: the next `n` bytes of the body arrived; an empty chunk is not kept.
Arrive(c, n) ==
    /\ pc[c] = "reading"
    /\ arrived[c] + n <= Len(body[c].bytes)
    /\ arrived' = [arrived EXCEPT ![c] = @ + n]
    /\ chunks' = IF n > 0
                 THEN [chunks EXCEPT ![c] =
                         Append(@, [from |-> arrived[c], to |-> arrived[c] + n])]
                 ELSE chunks
    /\ buffered' = [buffered EXCEPT ![c] = @ + n]
    /\ Goto(c, "cutting")
    /\ UNCHANGED <<abortVars, head, body, copy, header, takenVars>>

BeginRead(c, step, count) ==
    /\ Goto(c, step)
    /\ copy' = [copy EXCEPT ![c] = StartOfRead(count)]

\* The loop of push: it peeks at a header once one has arrived.
NextFrame(c) ==
    /\ pc[c] = "cutting"
    /\ IF buffered[c] < HeaderLength
       THEN Goto(c, "reading") /\ UNCHANGED copy
       ELSE BeginRead(c, "peeking", HeaderLength)
    /\ UNCHANGED <<abortVars, answerVars, chunks, buffered, header, takenVars>>

\* One iteration of read: what a chunk has of the bytes wanted is copied out. A
\* peek goes on to the next chunk; other reads drop what they copied.
Copy(c) ==
    LET r == copy[c]
        chunk == chunks[c][r.index]
        length == chunk.to - chunk.from
        n == IF r.count - r.copied < length THEN r.count - r.copied ELSE length
    IN
    /\ pc[c] \in ReadSteps
    /\ r.copied < r.count
    /\ copy' = [copy EXCEPT ![c] =
          [count |-> r.count,
           copied |-> r.copied + n,
           index |-> IF pc[c] = "peeking" THEN r.index + 1 ELSE r.index,
           out |-> [j \in 1 .. r.count |->
                      IF r.copied < j /\ j <= r.copied + n
                      THEN body[c].bytes[chunk.from + (j - r.copied)]
                      ELSE r.out[j]]]]
    /\ IF pc[c] = "peeking" THEN UNCHANGED chunks
       ELSE IF n = length THEN chunks' = [chunks EXCEPT ![c] = Tail(@)]
       ELSE chunks' = [chunks EXCEPT ![c] =
               [i \in 1 .. Len(chunks[c]) |->
                  IF i = 1 THEN [from |-> chunk.from + n, to |-> chunk.to] ELSE chunks[c][i]]]
    /\ UNCHANGED <<abortVars, endVars, pc, answerVars, buffered, header, takenVars>>

\* A `read` returned.
Copied(c) == copy[c].copied = copy[c].count

\* The header is known: its frame is over the limit, incomplete, or cut.
CheckHeader(c) ==
    /\ pc[c] = "peeking"
    /\ Copied(c)
    /\ LET length == LengthIn(copy[c].out) IN
          \/ /\ length > MaxAnswerBytes
             /\ Ends(c, "RESOURCE_EXHAUSTED")
             /\ UNCHANGED <<copy, header>>
          \/ /\ length <= MaxAnswerBytes
             /\ buffered[c] < HeaderLength + length
             /\ Goto(c, "reading")
             /\ UNCHANGED <<copy, header>>
          \/ /\ length <= MaxAnswerBytes
             /\ buffered[c] >= HeaderLength + length
             /\ header' = [header EXCEPT ![c] = copy[c].out]
             /\ BeginRead(c, "skipping", HeaderLength)
    /\ UNCHANGED <<abortVars, answerVars, chunks, buffered, takenVars>>

\* The header is dropped: its bytes are no longer counted.
SkipHeader(c) ==
    /\ pc[c] = "skipping"
    /\ Copied(c)
    /\ buffered' = [buffered EXCEPT ![c] = @ - HeaderLength]
    /\ BeginRead(c, "payload", LengthIn(header[c]))
    /\ UNCHANGED <<abortVars, answerVars, chunks, header, takenVars>>

\* Mutant of Accepted: an answer may hold any number of messages.
AnyFrame(c, flag) ==
    /\ trailers[c] = <<>>
    /\ ~IsCompressed(flag)

\* takeFrame: an answer holds one message and then its trailers.
Accepted(c, flag) ==
    /\ trailers[c] = <<>>
    /\ ~IsCompressed(flag)
    /\ IsTrailer(flag) \/ data[c] = <<>>

\* Mutant of TakeFrame: one frame is cut out of each chunk.
TakeOneFrame(c) ==
    LET flag == header[c][1]
        payload == copy[c].out
    IN
    /\ pc[c] = "payload"
    /\ Copied(c)
    /\ buffered' = [buffered EXCEPT ![c] = @ - copy[c].count]
    /\ IF Accepted(c, flag)
       THEN /\ IF IsTrailer(flag)
               THEN /\ trailers' = [trailers EXCEPT ![c] = <<TrailerStatus(payload)>>]
                    /\ UNCHANGED data
               ELSE /\ data' = [data EXCEPT ![c] = Append(@, payload)]
                    /\ UNCHANGED trailers
            /\ taken' = [taken EXCEPT ![c] = @ + 1]
            /\ Goto(c, "reading")
       ELSE Ends(c, "INTERNAL") /\ UNCHANGED takenVars
    /\ UNCHANGED <<abortVars, answerVars, chunks, copy, header>>

\* The frame is handed to takeFrame before the next header is read.
TakeFrame(c) ==
    LET flag == header[c][1]
        payload == copy[c].out
    IN
    /\ pc[c] = "payload"
    /\ Copied(c)
    /\ buffered' = [buffered EXCEPT ![c] = @ - copy[c].count]
    /\ IF Accepted(c, flag)
       THEN /\ IF IsTrailer(flag)
               THEN /\ trailers' = [trailers EXCEPT ![c] = <<TrailerStatus(payload)>>]
                    /\ UNCHANGED data
               ELSE /\ data' = [data EXCEPT ![c] = Append(@, payload)]
                    /\ UNCHANGED trailers
            /\ taken' = [taken EXCEPT ![c] = @ + 1]
            /\ Goto(c, "cutting")
       ELSE Ends(c, "INTERNAL") /\ UNCHANGED takenVars
    /\ UNCHANGED <<abortVars, answerVars, chunks, copy, header>>

-----------------------------------------------------------------------------
(* unary, and readUnaryAnswer.                                             *)

\* failure: what a rejected fetch or body read means.
Failure(c, typeError) ==
    IF c \in timedOut THEN "DEADLINE_EXCEEDED"
    ELSE IF closed THEN "CANCELLED"
    ELSE IF typeError THEN "UNAVAILABLE"
    ELSE "UNKNOWN"

\* A call is made, before or after its deadline.
Unary(c, late) ==
    /\ pc[c] = "idle"
    /\ IF closed THEN Ends(c, "closed")
       ELSE IF late THEN Ends(c, "DEADLINE_EXCEEDED")
       ELSE /\ pc' = [pc EXCEPT ![c] = "fetching"]
            /\ inFlight' = inFlight \cup {c}
            /\ UNCHANGED outcome
    /\ UNCHANGED <<abortVars, answerVars, readerVars, takenVars>>

\* What the response's head says of the call: its error, or none yet.
HeadError(h) ==
    LET fromHeaders == GrpcStatusOf(h.status) IN
    CASE h.http # 200 /\ fromHeaders = "none" -> GrpcStatusOfHttp(h.http)
      [] h.http # 200 /\ fromHeaders # "none" -> fromHeaders
      [] h.http = 200 /\ fromHeaders \notin {"none", "OK"} -> fromHeaders
      [] h.http = 200 /\ fromHeaders \in {"none", "OK"} /\ ~h.grpcWeb -> "UNKNOWN"
      [] OTHER -> "none"

\* fetch resolves with the response's head, and a body starts to arrive.
Respond(c, h, b) ==
    /\ pc[c] = "fetching"
    /\ head' = [head EXCEPT ![c] = h]
    /\ body' = [body EXCEPT ![c] = b]
    /\ IF HeadError(h) # "none" THEN Ends(c, HeadError(h)) ELSE Goto(c, "reading")
    /\ UNCHANGED <<abortVars, arrived, readerVars, takenVars>>

\* The body ended, whole or not: the status of the trailer frame, or else of the
\* headers.
BodyEnds(c) ==
    LET status == IF trailers[c] = <<>> THEN GrpcStatusOf(head[c].status)
                  ELSE GrpcStatusOf(trailers[c][1])
    IN
    /\ pc[c] = "reading"
    /\ Ends(c, IF status = "none" THEN "UNAVAILABLE"
               ELSE IF status # "OK" THEN status
               ELSE IF Len(data[c]) # 1 THEN "INTERNAL"
               ELSE "answer")
    /\ UNCHANGED <<abortVars, answerVars, readerVars, takenVars>>

\* fetch or the body's read rejects: with the browser's TypeError (also for a
\* redirect, which fetch never follows), with another error, or on an abort.
Reject(c, typeError) ==
    /\ pc[c] \in {"fetching", "reading"}
    /\ Ends(c, Failure(c, typeError))
    /\ rejected' = rejected \cup {c}
    /\ UNCHANGED <<closed, timedOut, aborted, answerVars, readerVars, takenVars>>

\* Mutant of TimeOut: the timer only sets its flag.
TimeOutWithoutAbort(c) ==
    /\ c \in inFlight
    /\ c \notin timedOut
    /\ timedOut' = timedOut \cup {c}
    /\ UNCHANGED <<closed, aborted, rejected, endVars, pc, answerVars, readerVars, takenVars>>

\* The timer of the call's deadline.
TimeOut(c) ==
    /\ c \in inFlight
    /\ c \notin timedOut
    /\ timedOut' = timedOut \cup {c}
    /\ aborted' = aborted \cup {c}
    /\ UNCHANGED <<closed, rejected, endVars, pc, answerVars, readerVars, takenVars>>

\* close() aborts every call in flight.
Close ==
    /\ ~closed
    /\ closed' = TRUE
    /\ aborted' = aborted \cup inFlight
    /\ UNCHANGED <<timedOut, rejected, endVars, pc, answerVars, readerVars, takenVars>>

\* The steps of push, which its call takes without yielding.
Cutting(c) ==
    NextFrame(c) \/ Copy(c) \/ CheckHeader(c) \/ SkipHeader(c) \/ TakeFrame(c)

CallNext(c) ==
    \/ \E late \in BOOLEAN : Unary(c, late)
    \/ \E h \in Heads, b \in Bodies : Respond(c, h, b)
    \/ \E n \in 0 .. MaxChunk : Arrive(c, n)
    \/ Cutting(c)
    \/ BodyEnds(c)
    \/ \E typeError \in BOOLEAN : Reject(c, typeError)
    \/ TimeOut(c)

Next == Close \/ \E c \in Calls : CallNext(c)

\* push runs to its end. An aborted fetch rejects at the next read of its body. A
\* validator may be silent for ever, and the timer of the deadline fires.
Fairness ==
    \A c \in Calls :
        /\ WF_vars(Cutting(c))
        /\ SF_vars(c \in aborted /\ \E typeError \in BOOLEAN : Reject(c, typeError))
        /\ WF_vars(TimeOut(c))

Spec == Init /\ [][Next]_vars
FairSpec == Spec /\ Fairness

-----------------------------------------------------------------------------
(* Properties.                                                             *)

\* What refuses the i-th frame of a body of which `end` bytes were sent, whatever
\* the chunks: its declared length, or its place after the frames before it.
Whole(b, end) == {i \in DOMAIN b.starts : EndOf(b, i) <= end}
RefusalOf(b, end, i) ==
    IF b.starts[i] + HeaderLength <= end /\ LengthOf(b, i) > MaxAnswerBytes
    THEN "RESOURCE_EXHAUSTED"
    ELSE IF /\ i \in Whole(b, end)
            /\ \/ \E j \in 1 .. i - 1 : IsTrailer(FlagOf(b, j))
               \/ IsCompressed(FlagOf(b, i))
               \/ /\ ~IsTrailer(FlagOf(b, i))
                  /\ \E j \in 1 .. i - 1 : ~IsTrailer(FlagOf(b, j))
    THEN "INTERNAL"
    ELSE "none"

\* The outcome that `end` bytes of a body give: the first refusal, else what the
\* status of the trailers, or of the headers, makes of the messages.
OutcomeByStatus(b, end, status) ==
    CASE status = "none" -> "UNAVAILABLE"
      [] status \notin {"none", "OK"} -> status
      [] status = "OK" /\ (\A i \in Whole(b, end) : IsTrailer(FlagOf(b, i))) -> "INTERNAL"
      [] OTHER -> "answer"
GivenBy(b, end, h, result) ==
    \/ \E i \in DOMAIN b.starts :
          /\ \A j \in 1 .. i - 1 : RefusalOf(b, end, j) = "none"
          /\ RefusalOf(b, end, i) # "none"
          /\ result = RefusalOf(b, end, i)
    \/ /\ \A i \in DOMAIN b.starts : RefusalOf(b, end, i) = "none"
       /\ \/ /\ \A i \in Whole(b, end) : ~IsTrailer(FlagOf(b, i))
             /\ result = OutcomeByStatus(b, end, GrpcStatusOf(h.status))
          \/ \E i \in Whole(b, end) :
                /\ IsTrailer(FlagOf(b, i))
                /\ result = OutcomeByStatus(b, end,
                               GrpcStatusOf(TrailerStatus(PayloadOf(b, i))))

\* The chunks a body arrives in never change a call's outcome: a frame, or its
\* header, split across chunks, several frames in one chunk, and empty chunks
\* give what the bytes alone decide, also when the connection ends early.
ChunksDoNotMatter ==
    \A c \in Calls :
        pc[c] = "done" /\ c \notin rejected /\ body[c] # NoBody /\ HeadError(head[c]) = "none"
          => GivenBy(body[c], arrived[c], head[c], outcome[c])

\* The positions of the body whose bytes a call keeps.
Kept(c) ==
    {p \in 1 .. arrived[c] :
        \E i \in DOMAIN chunks[c] : chunks[c][i].from < p /\ p <= chunks[c][i].to}

\* Whoever answers cannot make the page keep more than one message, the bytes of a
\* frame that is still incomplete, and the chunk that came last.
KeptBytesAreBounded ==
    \A c \in Calls :
        /\ Len(data[c]) <= 1
        /\ \A i \in DOMAIN data[c] : Len(data[c][i]) <= MaxAnswerBytes
        /\ Cardinality(Kept(c)) < HeaderLength + MaxAnswerBytes + MaxChunk

\* Every call ends, at its deadline when nothing else ends it.
CallsEnd == \A c \in Calls : c \in inFlight ~> pc[c] = "done"
=============================================================================
