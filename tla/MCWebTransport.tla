--------------------------- MODULE MCWebTransport ---------------------------
(* Small instances of WebTransport for TLC.                                *)
EXTENDS WebTransport, SequencesExt

CONSTANT c1

\* A body of frames, each with its flag and payload, the last of which may declare
\* more bytes than follow; `rest` is what is left over.
Frame(flag, payload) == [flag |-> flag, length |-> Len(payload), payload |-> payload]
Bytes(frame) == <<frame.flag, 0, 0, 0, frame.length>> \o frame.payload
BytesOf(frames) == FlattenSeq([i \in DOMAIN frames |-> Bytes(frames[i])])
Body(frames, rest) ==
    LET bytes == BytesOf(frames) \o rest IN
    [bytes |-> bytes,
     starts |-> [i \in DOMAIN frames |-> Len(BytesOf(SubSeq(frames, 1, i - 1)))]]

Message == Frame(0, <<"m">>)
Longest == Frame(0, <<"m", "m">>)
Empty == Frame(0, <<>>)
Ok == Frame(128, <<"OK">>)
\* A frame that declares more than the client takes.
TooLong == [flag |-> 0, length |-> 3, payload |-> <<"m", "m">>]

\* A complete answer; every way to break one; statuses of each kind.
AllBodies ==
    {Body(frames, <<>>) : frames \in
        {<<Message, Ok>>, <<Longest, Ok>>, <<>>, <<Ok>>, <<Empty, Ok>>, <<Message>>,
         <<Message, Empty, Ok>>, <<Message, Ok, Empty>>, <<Message, Message, Message, Message>>,
         <<Frame(1, <<"m">>), Ok>>, <<Message, Frame(129, <<"OK">>)>>, <<TooLong>>,
         <<Message, TooLong>>, <<Frame(128, <<"UNAVAILABLE">>)>>,
         <<Message, Frame(128, <<"malformed">>)>>, <<Message, Frame(128, <<>>)>>}}
    \cup {Body(<<Message, Ok>>, <<0, 0>>)}

Head0(http, status, grpcWeb) == [http |-> http, status |-> status, grpcWeb |-> grpcWeb]
AllHeads ==
    {Head0(200, "absent", TRUE), Head0(200, "OK", TRUE), Head0(200, "UNAVAILABLE", TRUE),
     Head0(200, "absent", FALSE), Head0(200, "malformed", TRUE)}
    \cup {Head0(http, "absent", FALSE) : http \in {400, 401, 403, 404, 429, 500, 503}}
    \cup {Head0(503, "OK", TRUE), Head0(403, "UNAVAILABLE", TRUE)}
=============================================================================
