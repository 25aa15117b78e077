-------------------------- MODULE WebTransportProofs --------------------------
(***************************************************************************)
(* For any calls, bodies, chunk sizes and limits: the outcome of a call    *)
(* does not depend on the chunks its answer arrives in, and the bytes that *)
(* it keeps are bounded.                                                   *)
(***************************************************************************)
EXTENDS WebTransport, FiniteSetTheorems, TLAPS

\* Where the frame after the first t frames of a body starts.
After(b, t) == IF t = 0 THEN 0 ELSE EndOf(b, t)
Base(c) == After(body[c], taken[c])

\* The frame that is being cut.
Frame(c) == taken[c] + 1

\* Where the i-th of some chunks begins; past the last one, what has not arrived.
PosIn(views, end, i) == IF i <= Len(views) THEN views[i].from ELSE end
Pos(c, i) == PosIn(chunks[c], arrived[c], i)

\* The chunks that are kept follow one another up to the last byte that arrived.
Contiguous(views, end) ==
    /\ \A i \in 1 .. Len(views) :
          /\ views[i].from < views[i].to
          /\ views[i].to <= end
          /\ views[i].to = PosIn(views, end, i + 1)
    /\ \A i, j \in 1 .. Len(views) : i < j => views[i].to <= views[j].from
ChunksInv(c) == Contiguous(chunks[c], arrived[c])

\* What was taken is the first frames of the body, none of which is refused.
TakenInv(c) ==
    LET b == body[c]
        t == taken[c]
    IN
    /\ t <= Len(b.starts)
    /\ \A j \in 1 .. t :
          /\ LengthOf(b, j) <= MaxAnswerBytes
          /\ ~IsCompressed(FlagOf(b, j))
          /\ IsTrailer(FlagOf(b, j)) => j = t
    /\ \A i, j \in 1 .. t : ~IsTrailer(FlagOf(b, i)) /\ ~IsTrailer(FlagOf(b, j)) => i = j
    /\ trailers[c] = <<>> => \A j \in 1 .. t : ~IsTrailer(FlagOf(b, j))
    /\ trailers[c] # <<>> =>
          /\ t > 0
          /\ IsTrailer(FlagOf(b, t))
          /\ trailers[c] = <<TrailerStatus(PayloadOf(b, t))>>
    /\ data[c] = <<>> <=> \A j \in 1 .. t : IsTrailer(FlagOf(b, j))

\* The steps of a call whose body is being read.
Active == {"reading", "cutting"} \cup ReadSteps

\* The reader, between two steps of the call or inside push.
ReaderInv(c) ==
    LET b == body[c]
        r == copy[c]
    IN
    /\ b \in Bodies
    /\ HeadError(head[c]) = "none"
    /\ Base(c) <= arrived[c]
    /\ arrived[c] <= Len(b.bytes)
    /\ arrived[c] < Base(c) + HeaderLength + MaxAnswerBytes + MaxChunk
    /\ pc[c] # "payload" => buffered[c] = arrived[c] - Base(c)
    /\ pc[c] \in {"reading", "cutting", "peeking"} => Pos(c, 1) = Base(c)
    /\ pc[c] = "reading" /\ Base(c) + HeaderLength <= arrived[c] =>
          LengthOf(b, Frame(c)) <= MaxAnswerBytes /\ EndOf(b, Frame(c)) > arrived[c]
    /\ pc[c] \in ReadSteps => r.copied <= r.count /\ Base(c) + HeaderLength <= arrived[c]
    /\ pc[c] \in {"peeking", "skipping"} => r.count = HeaderLength
    /\ pc[c] = "peeking" =>
          /\ r.copied < r.count => Pos(c, r.index) = Base(c) + r.copied
          /\ \A j \in 1 .. r.copied : r.out[j] = b.bytes[Base(c) + j]
    /\ pc[c] \in {"skipping", "payload"} =>
          /\ r.index = 1
          /\ header[c] = Slice(b.bytes, Base(c), HeaderLength)
          /\ LengthOf(b, Frame(c)) <= MaxAnswerBytes
          /\ EndOf(b, Frame(c)) <= arrived[c]
    /\ pc[c] = "skipping" => Pos(c, 1) = Base(c) + r.copied
    /\ pc[c] = "payload" =>
          /\ r.count = LengthOf(b, Frame(c))
          /\ buffered[c] = arrived[c] - Base(c) - HeaderLength
          /\ Pos(c, 1) = Base(c) + HeaderLength + r.copied
          /\ \A j \in 1 .. r.copied : r.out[j] = b.bytes[Base(c) + HeaderLength + j]

\* What a call keeps, at every step.
KeptInv(c) ==
    /\ \A i \in 1 .. Len(chunks[c]) :
          arrived[c] < chunks[c][i].from + HeaderLength + MaxAnswerBytes + MaxChunk
    /\ \/ data[c] = <<>>
       \/ \E p : data[c] = <<p>> /\ \E n \in 0 .. MaxAnswerBytes : p = [j \in 1 .. n |-> p[j]]

CallInv(c) ==
    /\ pc[c] \in {"idle", "fetching"} =>
          /\ body[c] = NoBody /\ arrived[c] = 0 /\ chunks[c] = <<>> /\ buffered[c] = 0
          /\ taken[c] = 0 /\ data[c] = <<>> /\ trailers[c] = <<>>
    /\ pc[c] \in Active => ChunksInv(c) /\ TakenInv(c) /\ ReaderInv(c)
    /\ KeptInv(c)
    /\ pc[c] = "done" /\ c \notin rejected /\ body[c] # NoBody /\ HeadError(head[c]) = "none"
          => GivenBy(body[c], arrived[c], head[c], outcome[c])

IInv == TypeOK /\ \A c \in Calls : CallInv(c)

-----------------------------------------------------------------------------
(* The frames of a body.                                                   *)

\* What WellFramed says of the i-th frame.
LEMMA FrameFacts ==
    ASSUME NEW b \in Bodies
    PROVE  /\ Len(b.starts) \in Nat
           /\ Len(b.bytes) \in Nat
           /\ \A i \in 1 .. Len(b.starts) :
                 /\ b.starts[i] \in Nat
                 /\ LengthOf(b, i) \in Nat
                 /\ EndOf(b, i) \in Nat
                 /\ EndOf(b, i) = b.starts[i] + HeaderLength + LengthOf(b, i)
                 /\ b.starts[i] + HeaderLength <= Len(b.bytes)
           /\ \A i, j \in 1 .. Len(b.starts) : i < j => EndOf(b, i) <= b.starts[j]
           /\ \A t \in 0 .. Len(b.starts) : After(b, t) \in Nat
<1>1. WellFramed(b)
  BY WebAssumption
<1>2. b.starts \in Seq(Nat) /\ Len(b.bytes) \in Nat
  BY <1>1 DEF WellFramed
<1>3. Len(b.starts) \in Nat /\ DOMAIN b.starts = 1 .. Len(b.starts)
  BY <1>2
<1>4. ASSUME NEW i \in 1 .. Len(b.starts)
      PROVE  /\ b.starts[i] \in Nat
             /\ LengthOf(b, i) \in Nat
             /\ EndOf(b, i) \in Nat
             /\ EndOf(b, i) = b.starts[i] + HeaderLength + LengthOf(b, i)
             /\ b.starts[i] + HeaderLength <= Len(b.bytes)
  <2>1. b.starts[i] \in Nat
    BY <1>2, <1>3
  <2>2. LengthOf(b, i) \in Nat /\ b.starts[i] + HeaderLength <= Len(b.bytes)
    BY <1>1, <1>3 DEF WellFramed
  <2> QED BY <2>1, <2>2 DEF EndOf, HeaderLength
<1>5. ASSUME NEW i \in 1 .. Len(b.starts), NEW j \in 1 .. Len(b.starts), i < j
      PROVE  EndOf(b, i) <= b.starts[j]
  <2>1. b.starts[j] >= EndOf(b, i)
    BY <1>1, <1>3, <1>5 DEF WellFramed
  <2> QED BY <1>4, <2>1
<1>6. \A t \in 0 .. Len(b.starts) : After(b, t) \in Nat
  BY <1>3, <1>4 DEF After
<1> QED BY <1>2, <1>3, <1>4, <1>5, <1>6

\* A header that was sent after t frames is that of the next frame.
LEMMA NextFrameIsThere ==
    ASSUME NEW b \in Bodies, NEW t \in 0 .. Len(b.starts),
           After(b, t) + HeaderLength <= Len(b.bytes)
    PROVE  /\ t + 1 \in 1 .. Len(b.starts)
           /\ b.starts[t + 1] = After(b, t)
           /\ EndOf(b, t + 1) = After(b, t) + HeaderLength + LengthOf(b, t + 1)
           /\ LengthOf(b, t + 1) = LengthIn(Slice(b.bytes, After(b, t), HeaderLength))
<1>1. WellFramed(b)
  BY WebAssumption
<1>2. Len(b.starts) \in Nat /\ DOMAIN b.starts = 1 .. Len(b.starts)
  BY <1>1 DEF WellFramed
<1>3. t # Len(b.starts)
  <2>1. CASE t = 0
    BY <1>1, <1>2, <2>1 DEF WellFramed, After, HeaderLength
  <2>2. CASE t # 0
    <3>1. EndOf(b, t) \in Nat /\ Len(b.bytes) \in Nat
      BY <1>2, <2>2, FrameFacts
    <3>2. t = Len(b.starts) => EndOf(b, t) + HeaderLength > Len(b.bytes)
      BY <1>1, <1>2, <2>2 DEF WellFramed
    <3> QED BY <2>2, <3>1, <3>2 DEF After, HeaderLength
  <2> QED BY <2>1, <2>2
<1>4. t + 1 \in 1 .. Len(b.starts)
  BY <1>2, <1>3
<1>5. b.starts[t + 1] = After(b, t)
  <2>1. CASE t = 0
    BY <1>1, <1>2, <1>4, <2>1 DEF WellFramed, After
  <2>2. CASE t # 0
    <3>1. t \in DOMAIN b.starts /\ t + 1 \in DOMAIN b.starts
      BY <1>2, <1>4, <2>2
    <3> QED BY <1>1, <2>2, <3>1 DEF WellFramed, After
  <2> QED BY <2>1, <2>2
<1> QED BY <1>4, <1>5, FrameFacts DEF LengthOf

\* The frames taken ended before the one that is being cut starts.
LEMMA EarlierFrames ==
    ASSUME NEW b \in Bodies, NEW t \in 0 .. Len(b.starts), NEW j \in 1 .. t
    PROVE  EndOf(b, j) <= After(b, t)
<1>1. j \in 1 .. Len(b.starts) /\ t \in 1 .. Len(b.starts) /\ t # 0 /\ Len(b.starts) \in Nat
  BY FrameFacts
<1>2. CASE j = t
  BY <1>1, <1>2, FrameFacts DEF After
<1>3. CASE j < t
  <2>1. EndOf(b, j) <= b.starts[t] /\ EndOf(b, j) \in Nat /\ b.starts[t] \in Nat
    BY <1>1, <1>3, FrameFacts
  <2>2. EndOf(b, t) = b.starts[t] + HeaderLength + LengthOf(b, t) /\ LengthOf(b, t) \in Nat
    BY <1>1, FrameFacts
  <2> QED BY <1>1, <2>1, <2>2 DEF After, HeaderLength
<1> QED BY <1>1, <1>2, <1>3

-----------------------------------------------------------------------------
(* What decides the outcome.                                               *)

\* No frame that was taken is refused.
LEMMA TakenAreNotRefused ==
    ASSUME NEW c \in Calls, TypeOK, body[c] \in Bodies, TakenInv(c),
           NEW j \in 1 .. taken[c]
    PROVE  RefusalOf(body[c], arrived[c], j) = "none"
<1>1. /\ taken[c] \in Nat /\ taken[c] <= Len(body[c].starts)
      /\ Len(body[c].starts) \in Nat
  BY FrameFacts DEF TypeOK, TakenInv
<1>2. j \in 1 .. Len(body[c].starts)
  BY <1>1
<1>3. ~(LengthOf(body[c], j) > MaxAnswerBytes)
  BY <1>2, FrameFacts, WebAssumption DEF TakenInv
<1>4. \A i \in 1 .. j - 1 : i \in 1 .. taken[c] /\ i # taken[c] /\ i # j
  BY <1>1
<1>5. ~ \E i \in 1 .. j - 1 : IsTrailer(FlagOf(body[c], i))
  BY <1>4 DEF TakenInv
<1>6. ~IsTrailer(FlagOf(body[c], j)) => ~ \E i \in 1 .. j - 1 : ~IsTrailer(FlagOf(body[c], i))
  BY <1>4 DEF TakenInv
<1>7. ~IsCompressed(FlagOf(body[c], j))
  BY DEF TakenInv
<1> QED BY <1>3, <1>5, <1>6, <1>7 DEF RefusalOf

\* The first frame that is refused decides.
LEMMA RefusedOutcome ==
    ASSUME NEW c \in Calls, TypeOK, body[c] \in Bodies, TakenInv(c), NEW result,
           Frame(c) \in 1 .. Len(body[c].starts), result # "none",
           RefusalOf(body[c], arrived[c], Frame(c)) = result
    PROVE  GivenBy(body[c], arrived[c], head[c], result)
<1>1. taken[c] \in Nat
  BY DEF TypeOK
<1>2. \A j \in 1 .. Frame(c) - 1 : RefusalOf(body[c], arrived[c], j) = "none"
  BY <1>1, TakenAreNotRefused DEF Frame
<1>3. Frame(c) \in DOMAIN body[c].starts
  BY WebAssumption DEF WellFramed
<1> QED BY <1>2, <1>3 DEF GivenBy

\* At the end of the body no frame was refused, and those that are whole were taken.
LEMMA NothingRefused ==
    ASSUME NEW c \in Calls, TypeOK, CallInv(c), pc[c] = "reading"
    PROVE  /\ \A i \in DOMAIN body[c].starts : RefusalOf(body[c], arrived[c], i) = "none"
           /\ Whole(body[c], arrived[c]) = 1 .. taken[c]
<1> DEFINE b == body[c]
           t == taken[c]
<1>1. TakenInv(c) /\ ReaderInv(c)
  BY DEF CallInv, Active
<1>2. /\ b \in Bodies /\ t \in 0 .. Len(b.starts) /\ t \in Nat /\ Len(b.starts) \in Nat
      /\ arrived[c] \in Nat /\ Base(c) \in Nat /\ Base(c) <= arrived[c]
      /\ arrived[c] <= Len(b.bytes) /\ Len(b.bytes) \in Nat
  BY <1>1, FrameFacts DEF TypeOK, TakenInv, ReaderInv, Base
<1>3. DOMAIN b.starts = 1 .. Len(b.starts)
  BY <1>2, WebAssumption DEF WellFramed
<1>4. ASSUME NEW i \in 1 .. Len(b.starts), i > t
      PROVE  /\ EndOf(b, i) > arrived[c]
             /\ ~(b.starts[i] + HeaderLength <= arrived[c] /\ LengthOf(b, i) > MaxAnswerBytes)
  <2>0. /\ b.starts[i] \in Nat /\ LengthOf(b, i) \in Nat
        /\ EndOf(b, i) = b.starts[i] + HeaderLength + LengthOf(b, i)
    BY <1>2, FrameFacts
  <2>1. t + 1 \in 1 .. Len(b.starts)
    BY <1>2, <1>4
  <2>2. /\ b.starts[t + 1] \in Nat /\ LengthOf(b, t + 1) \in Nat
        /\ EndOf(b, t + 1) = b.starts[t + 1] + HeaderLength + LengthOf(b, t + 1)
        /\ b.starts[t + 1] + HeaderLength <= Len(b.bytes)
    BY <1>2, <2>1, FrameFacts
  <2>3. b.starts[t + 1] = Base(c)
    <3>1. CASE t = 0
      BY <1>2, <1>3, <2>1, <3>1, WebAssumption DEF WellFramed, Base, After
    <3>2. CASE t # 0
      <4>1. t \in DOMAIN b.starts /\ t + 1 \in DOMAIN b.starts
        BY <1>2, <1>3, <2>1, <3>2
      <4> QED BY <1>2, <3>2, <4>1, WebAssumption DEF WellFramed, Base, After
    <3> QED BY <3>1, <3>2
  <2>4. Base(c) + HeaderLength <= arrived[c] =>
           LengthOf(b, t + 1) <= MaxAnswerBytes /\ EndOf(b, t + 1) > arrived[c]
    BY <1>1 DEF ReaderInv, Frame
  <2>5. EndOf(b, t + 1) > arrived[c]
    BY <1>2, <2>2, <2>3, <2>4 DEF HeaderLength
  <2>6. CASE i = t + 1
    BY <1>2, <2>2, <2>3, <2>4, <2>5, <2>6, WebAssumption DEF HeaderLength
  <2>7. CASE i > t + 1
    <3>1. EndOf(b, t + 1) <= b.starts[i]
      BY <1>2, <2>1, <2>7, FrameFacts
    <3>2. EndOf(b, t + 1) \in Nat
      BY <1>2, <2>1, FrameFacts
    <3>3. b.starts[i] > arrived[c]
      BY <1>2, <2>0, <2>5, <3>1, <3>2
    <3> HIDE DEF b
    <3> QED BY <1>2, <2>0, <3>3 DEF HeaderLength
  <2> QED BY <1>2, <1>4, <2>6, <2>7
<1>5. \A i \in 1 .. t : EndOf(b, i) <= arrived[c]
  <2> SUFFICES ASSUME NEW i \in 1 .. t PROVE EndOf(b, i) <= arrived[c]
    OBVIOUS
  <2>1. EndOf(b, i) <= Base(c)
    BY <1>2, EarlierFrames DEF Base
  <2>2. EndOf(b, i) \in Nat
    BY <1>2, FrameFacts, SMTT(30)
  <2> QED BY <1>2, <2>1, <2>2
<1>6. Whole(b, arrived[c]) = 1 .. t
  <2>1. \A i \in 1 .. Len(b.starts) : EndOf(b, i) <= arrived[c] <=> i \in 1 .. t
    <3>1. \A i \in 1 .. Len(b.starts) : i \in 1 .. t \/ i > t
      BY <1>2
    <3>2. \A i \in 1 .. t : ~(i > t)
      BY <1>2
    <3>3. ASSUME NEW i \in 1 .. Len(b.starts), i > t PROVE ~(EndOf(b, i) <= arrived[c])
      <4>1. EndOf(b, i) > arrived[c] /\ EndOf(b, i) \in Nat
        BY <1>2, <1>4, <3>3, FrameFacts, SMTT(30)
      <4> QED BY <1>2, <4>1
    <3> QED BY <1>5, <3>1, <3>2, <3>3
  <2>2. 1 .. t \subseteq 1 .. Len(b.starts)
    BY <1>2
  <2> QED BY <1>3, <2>1, <2>2 DEF Whole
<1>7. ASSUME NEW i \in 1 .. Len(b.starts), i > t PROVE RefusalOf(b, arrived[c], i) = "none"
  BY <1>2, <1>4, <1>6, <1>7 DEF RefusalOf
<1>8. \A i \in 1 .. t : RefusalOf(b, arrived[c], i) = "none"
  BY <1>1, <1>2, TakenAreNotRefused
<1>9. \A i \in 1 .. Len(b.starts) : i \in 1 .. t \/ i > t
  BY <1>2
<1> QED BY <1>3, <1>6, <1>7, <1>8, <1>9

-----------------------------------------------------------------------------
(* The chunks that are kept.                                               *)

\* A chunk that arrives is kept after the others.
LEMMA AppendChunk ==
    ASSUME NEW views \in Seq(View), NEW end \in Nat, NEW n \in Nat, n > 0,
           Contiguous(views, end)
    PROVE  /\ Append(views, [from |-> end, to |-> end + n]) \in Seq(View)
           /\ Contiguous(Append(views, [from |-> end, to |-> end + n]), end + n)
           /\ PosIn(Append(views, [from |-> end, to |-> end + n]), end + n, 1)
                = PosIn(views, end, 1)
<1> DEFINE new == [from |-> end, to |-> end + n]
           more == Append(views, new)
<1>1. new \in View /\ new.from = end /\ new.to = end + n
  BY DEF View
<1>2. /\ more \in Seq(View) /\ Len(more) = Len(views) + 1 /\ Len(views) \in Nat
      /\ more[Len(views) + 1] = new
      /\ \A i \in 1 .. Len(views) : more[i] = views[i]
  BY <1>1
<1>3. \A i \in 1 .. Len(views) : views[i].from \in Nat /\ views[i].to \in Nat
  <2>1. \A i \in 1 .. Len(views) : views[i] \in View
    OBVIOUS
  <2> QED BY <2>1 DEF View
<1> HIDE DEF more, new
<1>4. ASSUME NEW i \in 1 .. Len(views) PROVE PosIn(more, end + n, i + 1) = PosIn(views, end, i + 1)
  <2>1. CASE i = Len(views)
    BY <1>1, <1>2, <2>1 DEF PosIn
  <2>2. CASE i < Len(views)
    BY <1>2, <2>2 DEF PosIn
  <2> QED BY <1>2, <2>1, <2>2
<1>5. ASSUME NEW i \in 1 .. Len(more)
      PROVE  /\ more[i].from < more[i].to
             /\ more[i].to <= end + n
             /\ more[i].to = PosIn(more, end + n, i + 1)
  <2>1. CASE i = Len(views) + 1
    BY <1>1, <1>2, <2>1 DEF PosIn
  <2>2. CASE i \in 1 .. Len(views)
    BY <1>2, <1>3, <1>4, <2>2, SMTT(30) DEF Contiguous
  <2> QED BY <1>2, <2>1, <2>2
<1>6. ASSUME NEW i \in 1 .. Len(more), NEW j \in 1 .. Len(more), i < j
      PROVE  more[i].to <= more[j].from
  <2>0. i \in 1 .. Len(views)
    BY <1>2, <1>6
  <2>1. CASE j = Len(views) + 1
    BY <1>1, <1>2, <2>0, <2>1 DEF Contiguous
  <2>2. CASE j \in 1 .. Len(views)
    BY <1>2, <1>6, <2>0, <2>2 DEF Contiguous
  <2> QED BY <1>2, <2>1, <2>2
<1>7. PosIn(more, end + n, 1) = PosIn(views, end, 1)
  <2>1. CASE Len(views) = 0
    BY <1>1, <1>2, <2>1 DEF PosIn
  <2>2. CASE Len(views) # 0
    BY <1>2, <2>2 DEF PosIn
  <2> QED BY <2>1, <2>2
<1>8. Contiguous(more, end + n)
  BY <1>5, <1>6 DEF Contiguous
<1> QED BY <1>2, <1>7, <1>8 DEF more, new

\* A chunk that was copied out is dropped.
LEMMA DropChunk ==
    ASSUME NEW views \in Seq(View), NEW end \in Nat, Len(views) > 0, Contiguous(views, end)
    PROVE  /\ Tail(views) \in Seq(View)
           /\ Contiguous(Tail(views), end)
           /\ PosIn(Tail(views), end, 1) = views[1].to
<1> DEFINE rest == Tail(views)
<1>1. /\ rest \in Seq(View) /\ Len(rest) = Len(views) - 1 /\ Len(views) \in Nat
      /\ \A i \in 1 .. Len(rest) : rest[i] = views[i + 1]
  OBVIOUS
<1> HIDE DEF rest
<1>2. \A i \in 0 .. Len(rest) : PosIn(rest, end, i + 1) = PosIn(views, end, i + 2)
  BY <1>1 DEF PosIn
<1>3. \A i \in 1 .. Len(rest) : i + 1 \in 1 .. Len(views)
  BY <1>1
<1>4. ASSUME NEW i \in 1 .. Len(rest)
      PROVE  /\ rest[i].from < rest[i].to
             /\ rest[i].to <= end
             /\ rest[i].to = PosIn(rest, end, i + 1)
  <2>1. views[i + 1].to = PosIn(views, end, (i + 1) + 1)
    BY <1>3 DEF Contiguous
  <2>2. (i + 1) + 1 = i + 2 /\ i \in 0 .. Len(rest)
    BY <1>1
  <2> QED BY <1>1, <1>2, <1>3, <2>1, <2>2 DEF Contiguous
<1>5. ASSUME NEW i \in 1 .. Len(rest), NEW j \in 1 .. Len(rest), i < j
      PROVE  rest[i].to <= rest[j].from
  <2>1. i + 1 < j + 1
    BY <1>5
  <2> QED BY <1>1, <1>3, <2>1 DEF Contiguous
<1>6. PosIn(rest, end, 1) = views[1].to
  <2>1. views[1].to = PosIn(views, end, 1 + 1)
    BY <1>1 DEF Contiguous
  <2> QED BY <1>1, <2>1 DEF PosIn
<1>7. Contiguous(rest, end)
  BY <1>4, <1>5 DEF Contiguous
<1> QED BY <1>1, <1>6, <1>7 DEF rest

\* The rest of a chunk of which some bytes were copied out is kept.
LEMMA ShrinkChunk ==
    ASSUME NEW views \in Seq(View), NEW end \in Nat, NEW n \in Nat, Len(views) > 0,
           Contiguous(views, end), views[1].from + n < views[1].to,
           NEW rest,
           rest = [i \in 1 .. Len(views) |->
                     IF i = 1 THEN [from |-> views[1].from + n, to |-> views[1].to] ELSE views[i]]
    PROVE  /\ rest \in Seq(View)
           /\ Contiguous(rest, end)
           /\ PosIn(rest, end, 1) = views[1].from + n
<1>1. Len(views) \in Nat /\ \A i \in 1 .. Len(views) : views[i] \in View
  OBVIOUS
<1>2. \A i \in 1 .. Len(views) : views[i].from \in Nat /\ views[i].to \in Nat
  BY <1>1 DEF View
<1>3. [from |-> views[1].from + n, to |-> views[1].to] \in View
  BY <1>1, <1>2 DEF View
<1>4. rest \in [1 .. Len(views) -> View]
  BY <1>1, <1>3
<1>5. rest \in Seq(View) /\ Len(rest) = Len(views)
  BY <1>1, <1>4
<1>6. \A i \in 1 .. Len(views) :
         /\ rest[i].to = views[i].to
         /\ rest[i].from = IF i = 1 THEN views[1].from + n ELSE views[i].from
  OBVIOUS
<1>7. \A i \in 1 .. Len(views) : PosIn(rest, end, i + 1) = PosIn(views, end, i + 1)
  BY <1>1, <1>5, <1>6 DEF PosIn
<1>8. ASSUME NEW i \in 1 .. Len(rest)
      PROVE  /\ rest[i].from < rest[i].to
             /\ rest[i].to <= end
             /\ rest[i].to = PosIn(rest, end, i + 1)
  BY <1>5, <1>6, <1>7 DEF Contiguous
<1>9. ASSUME NEW i \in 1 .. Len(rest), NEW j \in 1 .. Len(rest), i < j
      PROVE  rest[i].to <= rest[j].from
  <2>1. j # 1
    BY <1>1, <1>5, <1>9
  <2> QED BY <1>5, <1>6, <1>9, <2>1 DEF Contiguous
<1>10. Contiguous(rest, end)
  BY <1>8, <1>9 DEF Contiguous
<1>11. PosIn(rest, end, 1) = views[1].from + n
  BY <1>1, <1>5, <1>6 DEF PosIn
<1> QED BY <1>5, <1>10, <1>11

\* No chunk begins before the first one.
LEMMA FirstIsLowest ==
    ASSUME NEW views \in Seq(View), NEW end \in Nat, Contiguous(views, end),
           NEW i \in 1 .. Len(views)
    PROVE  PosIn(views, end, 1) <= views[i].from
<1>1. Len(views) \in Nat /\ views[1] \in View /\ views[i] \in View
  OBVIOUS
<1>2. PosIn(views, end, 1) = views[1].from
  BY <1>1 DEF PosIn
<1>3. CASE i = 1
  BY <1>1, <1>2, <1>3 DEF View
<1>4. CASE i > 1
  <2>1. 1 \in 1 .. Len(views) /\ 1 < i
    BY <1>1, <1>4
  <2>2. views[1].from < views[1].to /\ views[1].to <= views[i].from
    BY <2>1 DEF Contiguous
  <2>3. views[1].from \in Nat /\ views[1].to \in Nat /\ views[i].from \in Nat
    BY <1>1 DEF View
  <2> QED BY <1>2, <2>2, <2>3
<1> QED BY <1>1, <1>3, <1>4

-----------------------------------------------------------------------------
(* One call's steps leave the others alone.                                *)

\* A step leaves call d alone.
Untouched(d) ==
    /\ pc'[d] = pc[d] /\ outcome'[d] = outcome[d] /\ head'[d] = head[d] /\ body'[d] = body[d]
    /\ arrived'[d] = arrived[d] /\ chunks'[d] = chunks[d] /\ buffered'[d] = buffered[d]
    /\ copy'[d] = copy[d] /\ header'[d] = header[d]
    /\ data'[d] = data[d] /\ trailers'[d] = trailers[d] /\ taken'[d] = taken[d]
    /\ d \in rejected' <=> d \in rejected

\* A call's step leaves every other call alone.
LEMMA OtherCalls ==
    ASSUME TypeOK, NEW c \in Calls, NEW d \in Calls, c # d, CallNext(c)
    PROVE  Untouched(d)
<1> USE DEF TypeOK, Untouched, Ends, Goto, BeginRead, abortVars, endVars, answerVars,
            readerVars, takenVars
<1>1. ASSUME NEW late \in BOOLEAN, Unary(c, late) PROVE Untouched(d)
  BY <1>1 DEF Unary
<1>2. ASSUME NEW h \in Heads, NEW b \in Bodies, Respond(c, h, b) PROVE Untouched(d)
  BY <1>2 DEF Respond
<1>3. ASSUME NEW n \in 0 .. MaxChunk, Arrive(c, n) PROVE Untouched(d)
  BY <1>3 DEF Arrive
<1>4. CASE NextFrame(c)
  BY <1>4 DEF NextFrame
<1>5. CASE Copy(c)
  BY <1>5 DEF Copy
<1>6. CASE CheckHeader(c)
  BY <1>6 DEF CheckHeader
<1>7. CASE SkipHeader(c)
  BY <1>7 DEF SkipHeader
<1>8. CASE TakeFrame(c)
  BY <1>8 DEF TakeFrame
<1>9. CASE BodyEnds(c)
  BY <1>9 DEF BodyEnds
<1>10. ASSUME NEW typeError \in BOOLEAN, Reject(c, typeError) PROVE Untouched(d)
  BY <1>10 DEF Reject
<1>11. CASE TimeOut(c)
  BY <1>11 DEF TimeOut
<1> QED BY <1>1, <1>2, <1>3, <1>4, <1>5, <1>6, <1>7, <1>8, <1>9, <1>10, <1>11
        DEF CallNext, Cutting

\* A call that a step leaves alone keeps its invariant.
LEMMA Stays ==
    ASSUME NEW d \in Calls, CallInv(d), Untouched(d)
    PROVE  CallInv(d)'
<1>1. ChunksInv(d) => ChunksInv(d)'
  BY DEF Untouched, ChunksInv
<1>2. TakenInv(d) => TakenInv(d)'
  BY DEF Untouched, TakenInv
<1>3. ReaderInv(d) => ReaderInv(d)'
  BY DEF Untouched, ReaderInv, Base, Frame, Pos
<1>4. KeptInv(d) => KeptInv(d)'
  BY DEF Untouched, KeptInv
<1> QED BY <1>1, <1>2, <1>3, <1>4 DEF Untouched, CallInv

\* A call that ended, with nothing else changed but what a frame left buffered.
LEMMA EndedStep ==
    ASSUME NEW c \in Calls, CallInv(c), pc'[c] = "done",
           chunks'[c] = chunks[c], arrived'[c] = arrived[c], data'[c] = data[c],
           \/ c \in rejected'
           \/ body'[c] = NoBody
           \/ HeadError(head'[c]) # "none"
           \/ GivenBy(body'[c], arrived'[c], head'[c], outcome'[c])
    PROVE  CallInv(c)'
<1>1. KeptInv(c)'
  BY DEF KeptInv, CallInv
<1> QED BY <1>1 DEF CallInv, Active, ReadSteps

-----------------------------------------------------------------------------
(* A call's own steps.                                                     *)

\* unary starts the call, or refuses it before it is sent.
LEMMA UnaryStep ==
    ASSUME TypeOK, NEW c \in Calls, CallInv(c), NEW late \in BOOLEAN, Unary(c, late)
    PROVE  TypeOK' /\ CallInv(c)'
<1> USE DEF Ends, Goto, abortVars, endVars, answerVars, readerVars, takenVars
<1>1. TypeOK'
  BY DEF TypeOK, Unary, Steps
<1>2. /\ pc[c] = "idle" /\ pc'[c] \in {"fetching", "done"}
      /\ UNCHANGED <<abortVars, answerVars, readerVars, takenVars>>
  BY DEF TypeOK, Unary
<1> SUFFICES CallInv(c)'
  BY <1>1
<1>3. CASE pc'[c] = "fetching"
  <2>1. KeptInv(c)'
    BY <1>2 DEF CallInv, KeptInv
  <2> QED BY <1>2, <1>3, <2>1 DEF CallInv, Active, ReadSteps
<1>4. CASE pc'[c] = "done"
  BY <1>2, <1>4, EndedStep DEF CallInv
<1> QED BY <1>2, <1>3, <1>4

\* The head of the response ends the call, or its body starts at its first byte.
LEMMA RespondStep ==
    ASSUME TypeOK, NEW c \in Calls, CallInv(c), NEW h \in Heads, NEW b \in Bodies,
           Respond(c, h, b)
    PROVE  TypeOK' /\ CallInv(c)'
<1> USE DEF Ends, Goto, abortVars, endVars, answerVars, readerVars, takenVars
<1>1. TypeOK'
  BY DEF TypeOK, Respond, Steps
<1>2. /\ pc[c] = "fetching" /\ head'[c] = h /\ body'[c] = b
      /\ UNCHANGED <<abortVars, arrived, readerVars, takenVars>>
      /\ \/ pc'[c] = "done" /\ HeadError(h) # "none"
         \/ pc'[c] = "reading" /\ HeadError(h) = "none"
  BY DEF TypeOK, Respond
<1> SUFFICES CallInv(c)'
  BY <1>1
<1>3. CASE pc'[c] = "done"
  BY <1>2, <1>3, EndedStep
<1>4. CASE pc'[c] = "reading"
  <2>1. /\ arrived'[c] = 0 /\ chunks'[c] = <<>> /\ buffered'[c] = 0 /\ taken'[c] = 0
        /\ data'[c] = <<>> /\ trailers'[c] = <<>>
    BY <1>2 DEF CallInv
  <2>2. Base(c)' = 0
    BY <2>1 DEF Base, After
  <2>3. ChunksInv(c)'
    BY <2>1 DEF ChunksInv, Contiguous
  <2>4. Len(b.starts) \in Nat /\ Len(b.bytes) \in Nat
    BY FrameFacts
  <2>5. TakenInv(c)'
    BY <1>2, <2>1, <2>4 DEF TakenInv
  <2>6. Pos(c, 1)' = 0
    BY <2>1 DEF Pos, PosIn
  <2>7. ReaderInv(c)'
    BY <1>2, <1>4, <2>1, <2>2, <2>4, <2>6, WebAssumption DEF ReaderInv, ReadSteps, HeaderLength
  <2>8. KeptInv(c)'
    BY <1>2, <2>1 DEF KeptInv
  <2> QED BY <1>4, <2>3, <2>5, <2>7, <2>8 DEF CallInv
<1> QED BY <1>2, <1>3, <1>4

\* At the end of the body the frames taken decide.
LEMMA BodyEndsStep ==
    ASSUME TypeOK, NEW c \in Calls, CallInv(c), BodyEnds(c)
    PROVE  TypeOK' /\ CallInv(c)'
<1> USE DEF Ends, abortVars, endVars, answerVars, readerVars, takenVars
<1>1. TypeOK'
  BY DEF TypeOK, BodyEnds, Steps
<1> DEFINE status == IF trailers[c] = <<>> THEN GrpcStatusOf(head[c].status)
                     ELSE GrpcStatusOf(trailers[c][1])
           result == IF status = "none" THEN "UNAVAILABLE"
                     ELSE IF status # "OK" THEN status
                     ELSE IF Len(data[c]) # 1 THEN "INTERNAL"
                     ELSE "answer"
<1>2. /\ pc[c] = "reading" /\ pc'[c] = "done" /\ outcome'[c] = result
      /\ UNCHANGED <<abortVars, answerVars, readerVars, takenVars>>
  BY DEF TypeOK, BodyEnds
<1>3. TakenInv(c) /\ ReaderInv(c) /\ KeptInv(c)
  BY <1>2 DEF CallInv, Active
<1>4. /\ \A i \in DOMAIN body[c].starts : RefusalOf(body[c], arrived[c], i) = "none"
      /\ Whole(body[c], arrived[c]) = 1 .. taken[c]
  BY <1>2, NothingRefused
<1>5. Len(data[c]) # 1 <=> \A i \in 1 .. taken[c] : IsTrailer(FlagOf(body[c], i))
  <2>1. CASE data[c] = <<>>
    BY <1>3, <2>1 DEF TakenInv
  <2>2. ASSUME NEW p, data[c] = <<p>> PROVE Len(data[c]) = 1 /\ data[c] # <<>>
    BY <2>2
  <2> QED BY <1>3, <2>1, <2>2 DEF TakenInv, KeptInv
<1>6. result = OutcomeByStatus(body[c], arrived[c], status)
  <2> HIDE DEF status
  <2> QED BY <1>4, <1>5 DEF OutcomeByStatus
<1> HIDE DEF result
<1>7. GivenBy(body[c], arrived[c], head[c], result)
  <2>1. CASE trailers[c] = <<>>
    BY <1>3, <1>4, <1>6, <2>1 DEF GivenBy, TakenInv
  <2>2. CASE trailers[c] # <<>>
    <3>1. /\ taken[c] \in 1 .. taken[c] /\ IsTrailer(FlagOf(body[c], taken[c]))
          /\ trailers[c] = <<TrailerStatus(PayloadOf(body[c], taken[c]))>>
      BY <1>3, <2>2 DEF TakenInv, TypeOK
    <3>2. status = GrpcStatusOf(TrailerStatus(PayloadOf(body[c], taken[c])))
      BY <2>2, <3>1
    <3> HIDE DEF status
    <3> QED BY <1>4, <1>6, <3>1, <3>2 DEF GivenBy
  <2> QED BY <2>1, <2>2
<1>8. CallInv(c)'
  BY <1>2, <1>7, EndedStep
<1> QED BY <1>1, <1>8

\* A rejected fetch or read ends the call, whatever arrived.
LEMMA RejectStep ==
    ASSUME TypeOK, NEW c \in Calls, CallInv(c), NEW typeError \in BOOLEAN, Reject(c, typeError)
    PROVE  TypeOK' /\ CallInv(c)'
<1> USE DEF Ends, endVars, answerVars, readerVars, takenVars
<1>1. TypeOK'
  BY DEF TypeOK, Reject, Steps
<1>2. /\ pc'[c] = "done" /\ c \in rejected'
      /\ UNCHANGED <<answerVars, readerVars, takenVars>>
  BY DEF TypeOK, Reject
<1>3. CallInv(c)'
  BY <1>2, EndedStep
<1> QED BY <1>1, <1>3

\* The timer touches nothing of what arrived.
LEMMA TimeOutStep ==
    ASSUME TypeOK, NEW c \in Calls, CallInv(c), TimeOut(c)
    PROVE  TypeOK' /\ CallInv(c)'
<1> USE DEF endVars, answerVars, readerVars, takenVars, TimeOut
<1>1. TypeOK'
  BY DEF TypeOK
<1>2. Untouched(c)
  BY DEF Untouched
<1> QED BY <1>1, <1>2, Stays

\* The reader's state, at every step that may look at it.
LEMMA ReaderFacts ==
    ASSUME TypeOK, NEW c \in Calls, CallInv(c), pc[c] \in Active
    PROVE  /\ ChunksInv(c) /\ TakenInv(c) /\ ReaderInv(c) /\ KeptInv(c)
           /\ body[c] \in Bodies
           /\ chunks[c] \in Seq(View)
           /\ taken[c] \in Nat /\ taken[c] \in 0 .. Len(body[c].starts)
           /\ Base(c) \in Nat /\ arrived[c] \in Nat /\ Len(body[c].bytes) \in Nat
           /\ MaxAnswerBytes \in Nat /\ MaxChunk \in Nat
           /\ Base(c) + HeaderLength <= arrived[c] =>
                 /\ Frame(c) \in 1 .. Len(body[c].starts)
                 /\ body[c].starts[Frame(c)] = Base(c)
                 /\ LengthOf(body[c], Frame(c)) \in Nat
                 /\ EndOf(body[c], Frame(c))
                      = Base(c) + HeaderLength + LengthOf(body[c], Frame(c))
                 /\ LengthOf(body[c], Frame(c))
                      = LengthIn(Slice(body[c].bytes, Base(c), HeaderLength))
<1>1. ChunksInv(c) /\ TakenInv(c) /\ ReaderInv(c) /\ KeptInv(c)
  BY DEF CallInv
<1>2. body[c] \in Bodies /\ arrived[c] <= Len(body[c].bytes)
  BY <1>1 DEF ReaderInv
<1>3. taken[c] \in Nat /\ arrived[c] \in Nat /\ chunks[c] \in Seq(View)
  BY DEF TypeOK
<1>4. Len(body[c].starts) \in Nat /\ Len(body[c].bytes) \in Nat
  BY <1>2, FrameFacts
<1>5. taken[c] \in 0 .. Len(body[c].starts)
  BY <1>1, <1>3, <1>4 DEF TakenInv
<1>6. Base(c) \in Nat
  BY <1>2, <1>5, FrameFacts DEF Base
<1>7. ASSUME Base(c) + HeaderLength <= arrived[c]
      PROVE  /\ Frame(c) \in 1 .. Len(body[c].starts)
             /\ body[c].starts[Frame(c)] = Base(c)
             /\ LengthOf(body[c], Frame(c)) \in Nat
             /\ EndOf(body[c], Frame(c))
                  = Base(c) + HeaderLength + LengthOf(body[c], Frame(c))
             /\ LengthOf(body[c], Frame(c))
                  = LengthIn(Slice(body[c].bytes, Base(c), HeaderLength))
  <2>1. After(body[c], taken[c]) + HeaderLength <= Len(body[c].bytes)
    BY <1>2, <1>3, <1>4, <1>6, <1>7 DEF Base, HeaderLength
  <2>2. Frame(c) \in 1 .. Len(body[c].starts)
    BY <1>2, <1>5, <2>1, NextFrameIsThere DEF Frame
  <2>3. LengthOf(body[c], Frame(c)) \in Nat
    BY <1>2, <2>2, FrameFacts
  <2> QED BY <1>2, <1>5, <2>1, <2>2, <2>3, NextFrameIsThere DEF Frame, Base
<1> QED BY <1>1, <1>2, <1>3, <1>4, <1>5, <1>6, <1>7, WebAssumption

\* What is kept is bounded when it starts at the frame that is being cut.
LEMMA KeptFrom ==
    ASSUME NEW views \in Seq(View), NEW end \in Nat, Contiguous(views, end),
           NEW base \in Nat,
           base <= PosIn(views, end, 1), end < base + HeaderLength + MaxAnswerBytes + MaxChunk
    PROVE  \A i \in 1 .. Len(views) : end < views[i].from + HeaderLength + MaxAnswerBytes + MaxChunk
<1> SUFFICES ASSUME NEW i \in 1 .. Len(views)
             PROVE  end < views[i].from + HeaderLength + MaxAnswerBytes + MaxChunk
  OBVIOUS
<1>1. PosIn(views, end, 1) <= views[i].from
  BY FirstIsLowest
<1>2. views[i] \in View /\ views[1] \in View /\ Len(views) \in Nat
  OBVIOUS
<1>3. views[i].from \in Nat /\ PosIn(views, end, 1) \in Nat
  BY <1>2 DEF View, PosIn
<1> QED BY <1>1, <1>3, WebAssumption DEF HeaderLength

\* push keeps a chunk that arrived. What was kept before was an incomplete frame.
LEMMA ArriveStep ==
    ASSUME TypeOK, NEW c \in Calls, CallInv(c), NEW n \in 0 .. MaxChunk, Arrive(c, n)
    PROVE  TypeOK' /\ CallInv(c)'
<1> USE DEF Goto, abortVars, endVars, takenVars
<1>1. /\ pc[c] = "reading" /\ pc'[c] = "cutting"
      /\ arrived[c] + n <= Len(body[c].bytes) /\ arrived'[c] = arrived[c] + n
      /\ chunks'[c] = IF n > 0 THEN Append(chunks[c], [from |-> arrived[c], to |-> arrived[c] + n])
                      ELSE chunks[c]
      /\ buffered'[c] = buffered[c] + n
      /\ UNCHANGED <<abortVars, endVars, head, body, copy, header, takenVars>>
  BY DEF TypeOK, Arrive
<1>2. pc[c] \in Active /\ n \in Nat
  BY <1>1, WebAssumption DEF Active
<1> DEFINE b == body[c]
<1>3. /\ ChunksInv(c) /\ TakenInv(c) /\ ReaderInv(c) /\ KeptInv(c)
      /\ b \in Bodies /\ chunks[c] \in Seq(View)
      /\ Base(c) \in Nat /\ arrived[c] \in Nat /\ Len(b.bytes) \in Nat
      /\ MaxAnswerBytes \in Nat /\ MaxChunk \in Nat
      /\ Base(c) + HeaderLength <= arrived[c] =>
            /\ LengthOf(b, Frame(c)) \in Nat
            /\ EndOf(b, Frame(c)) = Base(c) + HeaderLength + LengthOf(b, Frame(c))
  BY <1>2, ReaderFacts
<1>4. /\ chunks'[c] \in Seq(View)
      /\ Contiguous(chunks'[c], arrived'[c])
      /\ PosIn(chunks'[c], arrived'[c], 1) = Base(c)
  <2>1. Contiguous(chunks[c], arrived[c]) /\ PosIn(chunks[c], arrived[c], 1) = Base(c)
    BY <1>1, <1>3 DEF ChunksInv, ReaderInv, Pos
  <2>2. CASE n > 0
    BY <1>1, <1>2, <1>3, <2>1, <2>2, AppendChunk
  <2>3. CASE n = 0
    BY <1>1, <1>3, <2>1, <2>3
  <2> QED BY <1>2, <2>2, <2>3
<1>5. TypeOK'
  <2>1. chunks' \in [Calls -> Seq(View)]
    <3>1. \A d \in Calls : chunks'[d] = chunks[d] \/ d = c
      BY DEF TypeOK, Arrive
    <3>2. chunks' = [d \in Calls |-> chunks'[d]]
      BY DEF TypeOK, Arrive
    <3> QED BY <1>4, <3>1, <3>2 DEF TypeOK
  <2>2. arrived' \in [Calls -> Nat] /\ buffered' \in [Calls -> Nat]
    BY <1>2 DEF TypeOK, Arrive
  <2>3. pc' \in [Calls -> Steps]
    BY DEF TypeOK, Arrive, Steps
  <2> QED BY <1>1, <2>1, <2>2, <2>3 DEF TypeOK
<1>6. Base(c)' = Base(c) /\ Frame(c)' = Frame(c)
  BY <1>1 DEF Base, Frame
<1>7. TakenInv(c)'
  BY <1>1, <1>3 DEF TakenInv
<1>8. arrived[c] < Base(c) + HeaderLength + MaxAnswerBytes
  <2>1. CASE Base(c) + HeaderLength <= arrived[c]
    <3>1. LengthOf(b, Frame(c)) <= MaxAnswerBytes /\ EndOf(b, Frame(c)) > arrived[c]
      BY <1>1, <1>3, <2>1 DEF ReaderInv
    <3> HIDE DEF b
    <3> QED BY <1>3, <2>1, <3>1 DEF HeaderLength
  <2>2. CASE Base(c) + HeaderLength > arrived[c]
    BY <1>3, <2>2 DEF HeaderLength
  <2> QED BY <1>3, <2>1, <2>2 DEF HeaderLength
<1>9. arrived'[c] < Base(c) + HeaderLength + MaxAnswerBytes + MaxChunk
  BY <1>1, <1>3, <1>8 DEF HeaderLength
<1>10. ReaderInv(c)'
  <2>0. Base(c) <= arrived[c] /\ buffered[c] = arrived[c] - Base(c)
    BY <1>1, <1>3 DEF ReaderInv
  <2>1. Base(c) <= arrived'[c] /\ buffered'[c] = arrived'[c] - Base(c)
    BY <1>1, <1>2, <1>3, <2>0
  <2>2. Pos(c, 1)' = Base(c)
    BY <1>4 DEF Pos
  <2>3. HeadError(head'[c]) = "none"
    BY <1>1, <1>3 DEF ReaderInv
  <2> QED BY <1>1, <1>3, <1>6, <1>9, <2>1, <2>2, <2>3 DEF ReaderInv, ReadSteps
<1>11. KeptInv(c)'
  <2>1. arrived'[c] \in Nat /\ Base(c) <= PosIn(chunks'[c], arrived'[c], 1)
    BY <1>1, <1>2, <1>3, <1>4
  <2>2. \A i \in 1 .. Len(chunks'[c]) :
           arrived'[c] < chunks'[c][i].from + HeaderLength + MaxAnswerBytes + MaxChunk
    BY <1>3, <1>4, <1>9, <2>1, KeptFrom
  <2> QED BY <1>1, <1>3, <2>2 DEF KeptInv
<1> QED BY <1>1, <1>4, <1>5, <1>7, <1>10, <1>11 DEF CallInv, ChunksInv

\* A step of push that takes no bytes and no frame.
LEMMA SameAnswer ==
    ASSUME NEW c \in Calls, UNCHANGED <<answerVars, chunks, takenVars>>
    PROVE  /\ ChunksInv(c) => ChunksInv(c)'
           /\ TakenInv(c) => TakenInv(c)'
           /\ KeptInv(c) => KeptInv(c)'
           /\ Base(c)' = Base(c)
           /\ Frame(c)' = Frame(c)
           /\ Pos(c, 1)' = Pos(c, 1)
           /\ arrived'[c] = arrived[c] /\ body'[c] = body[c] /\ head'[c] = head[c]
<1> USE DEF answerVars, takenVars
<1>1. ChunksInv(c) => ChunksInv(c)'
  BY DEF ChunksInv
<1>2. TakenInv(c) => TakenInv(c)'
  BY DEF TakenInv
<1>3. KeptInv(c) => KeptInv(c)'
  BY DEF KeptInv
<1> QED BY <1>1, <1>2, <1>3 DEF Base, Frame, Pos

\* A read that starts has the types of a read.
LEMMA StartedRead ==
    ASSUME TypeOK, NEW c \in Calls, NEW count \in Nat,
           copy' = [copy EXCEPT ![c] = StartOfRead(count)]
    PROVE  /\ DOMAIN copy' = Calls
           /\ \A d \in Calls :
                 /\ copy'[d].count \in Nat
                 /\ copy'[d].copied \in Nat
                 /\ copy'[d].index \in Nat \ {0}
                 /\ copy'[d].out = [j \in 1 .. copy'[d].count |-> copy'[d].out[j]]
           /\ copy'[c].count = count /\ copy'[c].copied = 0 /\ copy'[c].index = 1
<1>1. /\ StartOfRead(count).count = count
      /\ StartOfRead(count).copied = 0
      /\ StartOfRead(count).index = 1
      /\ StartOfRead(count).out
           = [j \in 1 .. StartOfRead(count).count |-> StartOfRead(count).out[j]]
  BY DEF StartOfRead
<1>2. /\ DOMAIN copy' = Calls /\ copy'[c] = StartOfRead(count)
      /\ \A d \in Calls : copy'[d] = copy[d] \/ copy'[d] = StartOfRead(count)
  BY DEF TypeOK
<1>3. ASSUME NEW d \in Calls
      PROVE  /\ copy'[d].count \in Nat
             /\ copy'[d].copied \in Nat
             /\ copy'[d].index \in Nat \ {0}
             /\ copy'[d].out = [j \in 1 .. copy'[d].count |-> copy'[d].out[j]]
  <2>1. CASE copy'[d] = copy[d]
    BY <2>1 DEF TypeOK
  <2>2. CASE copy'[d] = StartOfRead(count)
    BY <1>1, <2>2
  <2> QED BY <1>2, <2>1, <2>2
<1> QED BY <1>1, <1>2, <1>3

\* The loop of push goes on while a header is buffered.
LEMMA NextFrameStep ==
    ASSUME TypeOK, NEW c \in Calls, CallInv(c), NextFrame(c)
    PROVE  TypeOK' /\ CallInv(c)'
<1>1. /\ pc[c] = "cutting"
      /\ \/ buffered[c] < HeaderLength /\ pc'[c] = "reading"
         \/ /\ ~(buffered[c] < HeaderLength) /\ pc'[c] = "peeking"
            /\ copy'[c] = StartOfRead(HeaderLength)
      /\ buffered'[c] = buffered[c]
      /\ UNCHANGED <<abortVars, answerVars, chunks, header, takenVars>>
  BY DEF TypeOK, NextFrame, BeginRead, Goto
<1>2. TypeOK'
  <2>1. /\ DOMAIN copy' = Calls
        /\ \A d \in Calls :
              /\ copy'[d].count \in Nat
              /\ copy'[d].copied \in Nat
              /\ copy'[d].index \in Nat \ {0}
              /\ copy'[d].out = [j \in 1 .. copy'[d].count |-> copy'[d].out[j]]
    <3>1. CASE UNCHANGED copy
      BY <3>1 DEF TypeOK
    <3>2. CASE copy' = [copy EXCEPT ![c] = StartOfRead(HeaderLength)]
      BY <3>2, StartedRead DEF HeaderLength
    <3> QED BY <3>1, <3>2 DEF NextFrame, BeginRead
  <2>2. pc' \in [Calls -> Steps]
    BY ZenonT(60) DEF TypeOK, NextFrame, BeginRead, Goto, Steps, ReadSteps
  <2>3. UNCHANGED <<abortVars, endVars, answerVars, chunks, buffered, header, takenVars>>
    BY DEF NextFrame, BeginRead, Goto
  <2> QED BY <2>1, <2>2, <2>3 DEF TypeOK, abortVars, endVars, answerVars, takenVars
<1>3. /\ ChunksInv(c) /\ TakenInv(c) /\ ReaderInv(c) /\ KeptInv(c)
      /\ Base(c) \in Nat /\ arrived[c] \in Nat
  BY <1>1, ReaderFacts DEF Active
<1>4. /\ ChunksInv(c)' /\ TakenInv(c)' /\ KeptInv(c)'
      /\ Base(c)' = Base(c) /\ Frame(c)' = Frame(c) /\ Pos(c, 1)' = Pos(c, 1)
      /\ arrived'[c] = arrived[c] /\ body'[c] = body[c] /\ head'[c] = head[c]
  BY <1>1, <1>3, SameAnswer
<1>5. Base(c) <= arrived[c] /\ buffered[c] = arrived[c] - Base(c) /\ Pos(c, 1) = Base(c)
  BY <1>1, <1>3 DEF ReaderInv
<1>6. ReaderInv(c)'
  <2>1. CASE pc'[c] = "reading"
    <3>1. ~(Base(c) + HeaderLength <= arrived[c])
      BY <1>1, <1>3, <1>5, <2>1 DEF HeaderLength
    <3> QED BY <1>1, <1>3, <1>4, <1>5, <2>1, <3>1 DEF ReaderInv, ReadSteps
  <2>2. CASE pc'[c] = "peeking"
    <3>1. Base(c) + HeaderLength <= arrived[c]
      BY <1>1, <1>3, <1>5, <2>2 DEF HeaderLength
    <3>2. /\ copy'[c].count = HeaderLength /\ copy'[c].copied = 0 /\ copy'[c].index = 1
      BY <1>1, <2>2 DEF StartOfRead
    <3>3. /\ copy'[c].copied <= copy'[c].count
          /\ Pos(c, copy[c].index)' = Base(c)' + copy'[c].copied
          /\ \A j \in 1 .. copy'[c].copied : copy'[c].out[j] = body'[c].bytes[Base(c)' + j]
      <4>1. Pos(c, copy[c].index)' = Pos(c, 1)'
        BY <3>2 DEF Pos
      <4> QED BY <1>3, <1>4, <1>5, <3>2, <4>1 DEF HeaderLength
    <3> QED BY <1>1, <1>3, <1>4, <1>5, <2>2, <3>1, <3>2, <3>3 DEF ReaderInv, ReadSteps
  <2> QED BY <1>1, <2>1, <2>2
<1> QED BY <1>1, <1>2, <1>4, <1>6 DEF CallInv, Active, ReadSteps

\* A read has a chunk to copy from, which begins at the next byte that it wants.
LEMMA CopyFacts ==
    ASSUME TypeOK, NEW c \in Calls, CallInv(c), pc[c] \in ReadSteps,
           copy[c].copied < copy[c].count, NEW start,
           start = IF pc[c] = "payload" THEN Base(c) + HeaderLength ELSE Base(c)
    PROVE  /\ copy[c].index \in 1 .. Len(chunks[c])
           /\ chunks[c][copy[c].index].from = start + copy[c].copied
           /\ chunks[c][copy[c].index].from < chunks[c][copy[c].index].to
           /\ chunks[c][copy[c].index].to \in Nat
           /\ chunks[c][copy[c].index].to = Pos(c, copy[c].index + 1)
           /\ start \in Nat
<1> DEFINE r == copy[c]
<1>1. /\ ChunksInv(c) /\ TakenInv(c) /\ ReaderInv(c)
      /\ chunks[c] \in Seq(View) /\ Len(chunks[c]) \in Nat
      /\ Base(c) \in Nat /\ arrived[c] \in Nat
      /\ Base(c) + HeaderLength <= arrived[c] =>
            /\ LengthOf(body[c], Frame(c)) \in Nat
            /\ EndOf(body[c], Frame(c))
                 = Base(c) + HeaderLength + LengthOf(body[c], Frame(c))
  BY ReaderFacts DEF Active
<1>2. r.count \in Nat /\ r.copied \in Nat /\ r.index \in Nat \ {0}
  BY DEF TypeOK
<1>3. Pos(c, r.index) = start + r.copied
  BY <1>1 DEF ReaderInv, ReadSteps
<1>4. start + r.count <= arrived[c] /\ start \in Nat
  <2>1. CASE pc[c] = "payload"
    BY <1>1, <2>1 DEF ReaderInv, ReadSteps, HeaderLength
  <2>2. CASE pc[c] \in {"peeking", "skipping"}
    BY <1>1, <2>2 DEF ReaderInv, ReadSteps, HeaderLength
  <2> QED BY <2>1, <2>2 DEF ReadSteps
<1>5. start + r.copied < arrived[c]
  <2> HIDE DEF r
  <2>1. r.copied < r.count
    BY DEF r
  <2> QED BY <1>1, <1>2, <1>4, <2>1
<1>6. r.index \in 1 .. Len(chunks[c])
  BY <1>1, <1>2, <1>3, <1>5 DEF Pos, PosIn
<1>7. chunks[c][r.index].from = start + r.copied
  BY <1>3, <1>6 DEF Pos, PosIn
<1>8. /\ chunks[c][r.index].from < chunks[c][r.index].to
      /\ chunks[c][r.index].to = Pos(c, r.index + 1)
  BY <1>1, <1>6 DEF ChunksInv, Contiguous, Pos
<1>9. chunks[c][r.index].to \in Nat
  <2>1. chunks[c][r.index] \in View
    BY <1>1, <1>6
  <2> QED BY <2>1 DEF View
<1> QED BY <1>4, <1>6, <1>7, <1>8, <1>9

\* One iteration of read copies the next bytes of the body, and drops no other.
LEMMA CopyStep ==
    ASSUME TypeOK, NEW c \in Calls, CallInv(c), Copy(c)
    PROVE  TypeOK' /\ CallInv(c)'
<1> DEFINE r == copy[c]
           s == copy'[c]
           chunk == chunks[c][r.index]
           length == chunk.to - chunk.from
           n == IF r.count - r.copied < length THEN r.count - r.copied ELSE length
           start == IF pc[c] = "payload" THEN Base(c) + HeaderLength ELSE Base(c)
<1>1. /\ pc[c] \in ReadSteps /\ r.copied < r.count
      /\ UNCHANGED <<abortVars, endVars, pc, answerVars, buffered, header, takenVars>>
  BY DEF Copy
<1>2. /\ s.count = r.count
      /\ s.copied = r.copied + n
      /\ s.index = IF pc[c] = "peeking" THEN r.index + 1 ELSE r.index
      /\ s.out = [j \in 1 .. r.count |->
                    IF r.copied < j /\ j <= r.copied + n
                    THEN body[c].bytes[chunk.from + (j - r.copied)]
                    ELSE r.out[j]]
  BY DEF TypeOK, Copy
<1>3. chunks'[c] = IF pc[c] = "peeking" THEN chunks[c]
                   ELSE IF n = length THEN Tail(chunks[c])
                   ELSE [i \in 1 .. Len(chunks[c]) |->
                           IF i = 1 THEN [from |-> chunk.from + n, to |-> chunk.to]
                           ELSE chunks[c][i]]
  BY DEF TypeOK, Copy
<1>4. /\ ChunksInv(c) /\ TakenInv(c) /\ ReaderInv(c) /\ KeptInv(c)
      /\ chunks[c] \in Seq(View)
      /\ Base(c) \in Nat /\ arrived[c] \in Nat
  BY <1>1, ReaderFacts DEF Active
<1>5. /\ r.index \in 1 .. Len(chunks[c])
      /\ chunk.from = start + r.copied
      /\ chunk.from < chunk.to
      /\ chunk.to \in Nat
      /\ chunk.to = Pos(c, r.index + 1)
      /\ start \in Nat
  BY <1>1, CopyFacts
<1>6. r.count \in Nat /\ r.copied \in Nat /\ r.index \in Nat \ {0}
  BY DEF TypeOK
<1>7. /\ n \in Nat /\ n > 0 /\ n <= length /\ r.copied + n <= r.count
      /\ chunk.from \in Nat /\ length \in Nat
      /\ chunk.from + length = chunk.to
      /\ r.copied + n < r.count => n = length
  <2> HIDE DEF r, start, chunk
  <2>1. r.copied < r.count
    BY <1>1
  <2>2. chunk.from \in Nat
    BY <1>5, <1>6
  <2>3. /\ length \in Nat /\ length > 0 /\ chunk.from + length = chunk.to
    BY <1>5, <2>2
  <2> HIDE DEF length
  <2>4. CASE r.count - r.copied < length
    <3>1. n = r.count - r.copied
      BY <2>4
    <3> HIDE DEF n
    <3> QED BY <1>6, <2>1, <2>2, <2>3, <2>4, <3>1
  <2>5. CASE ~(r.count - r.copied < length)
    <3>1. n = length
      BY <2>5
    <3> HIDE DEF n
    <3> QED BY <1>6, <2>1, <2>2, <2>3, <2>5, <3>1
  <2> QED BY <2>4, <2>5
<1>8. s.count \in Nat /\ s.copied \in Nat /\ s.index \in Nat \ {0}
  <2>1. s.count = r.count /\ s.copied = r.copied + n /\ s.index \in {r.index, r.index + 1}
    BY <1>2
  <2> HIDE DEF n, s, r
  <2> QED BY <1>6, <1>7, <2>1
<1>9. \A j \in 1 .. s.copied : s.out[j] = IF j <= r.copied THEN r.out[j]
                                         ELSE body[c].bytes[start + j]
  <2> SUFFICES ASSUME NEW j \in 1 .. s.copied
               PROVE  s.out[j] = IF j <= r.copied THEN r.out[j]
                                 ELSE body[c].bytes[start + j]
    OBVIOUS
  <2> HIDE DEF n, start, chunk
  <2>1. j \in 1 .. r.count /\ j <= r.copied + n
    BY <1>2, <1>6, <1>7
  <2>2. chunk.from + (j - r.copied) = start + j
    BY <1>5, <1>6, <2>1
  <2> QED BY <1>2, <1>6, <2>1, <2>2
<1>10. /\ chunks'[c] \in Seq(View)
       /\ Contiguous(chunks'[c], arrived[c])
       /\ pc[c] = "peeking" => chunks'[c] = chunks[c]
       /\ pc[c] # "peeking" => PosIn(chunks'[c], arrived[c], 1) = start + s.copied
  <2>1. CASE pc[c] = "peeking"
    BY <1>3, <1>4, <2>1 DEF ChunksInv
  <2>2. CASE pc[c] # "peeking"
    <3>1. r.index = 1 /\ Len(chunks[c]) > 0 /\ Contiguous(chunks[c], arrived[c])
      BY <1>1, <1>4, <1>5, <2>2 DEF ReaderInv, ReadSteps, ChunksInv
    <3>2. chunk = chunks[c][1]
      BY <3>1
    <3>3. start + s.copied = chunk.from + n
      <4> HIDE DEF n, start, chunk
      <4> QED BY <1>2, <1>5, <1>6, <1>7
    <3>4. CASE n = length
      <4>1. chunks'[c] = Tail(chunks[c])
        BY <1>3, <2>2, <3>4
      <4>2. chunk.from + n = chunk.to
        BY <1>7, <3>4
      <4> HIDE DEF n, start, chunk
      <4> QED BY <1>4, <2>2, <3>1, <3>2, <3>3, <4>1, <4>2, DropChunk
    <3>5. CASE n # length
      <4>1. chunks'[c] = [i \in 1 .. Len(chunks[c]) |->
                            IF i = 1
                            THEN [from |-> chunks[c][1].from + n, to |-> chunks[c][1].to]
                            ELSE chunks[c][i]]
        BY <1>3, <2>2, <3>2, <3>5
      <4>2. chunks[c][1].from + n < chunks[c][1].to
        <5>1. chunk.from + n < chunk.to
          <6> HIDE DEF n, chunk
          <6> QED BY <1>5, <1>7, <3>5
        <5> QED BY <3>2, <5>1
      <4> HIDE DEF n, start, chunk
      <4>3. /\ chunks'[c] \in Seq(View) /\ Contiguous(chunks'[c], arrived[c])
            /\ PosIn(chunks'[c], arrived[c], 1) = chunks[c][1].from + n
        BY <1>4, <1>7, <3>1, <4>1, <4>2, ShrinkChunk, SMTT(30)
      <4> QED BY <2>2, <3>2, <3>3, <4>3
    <3> QED BY <3>4, <3>5
  <2> QED BY <2>1, <2>2
<1> HIDE DEF n, chunk
<1>11. TypeOK'
  <2>1. chunks' \in [Calls -> Seq(View)]
    <3>1. DOMAIN chunks' = Calls /\ chunks' = [d \in Calls |-> chunks'[d]]
      BY DEF TypeOK, Copy
    <3>2. \A d \in Calls : d # c => chunks'[d] = chunks[d]
      BY DEF TypeOK, Copy
    <3> QED BY <1>10, <3>1, <3>2 DEF TypeOK
  <2>2. DOMAIN copy' = Calls /\ \A d \in Calls : d # c => copy'[d] = copy[d]
    BY DEF TypeOK, Copy
  <2>3. s.out = [j \in 1 .. s.count |-> s.out[j]]
    BY <1>2
  <2>4. \A d \in Calls :
          /\ copy'[d].count \in Nat
          /\ copy'[d].copied \in Nat
          /\ copy'[d].index \in Nat \ {0}
          /\ copy'[d].out = [j \in 1 .. copy'[d].count |-> copy'[d].out[j]]
    <3>1. \A d \in Calls : d # c =>
            /\ copy'[d].count \in Nat
            /\ copy'[d].copied \in Nat
            /\ copy'[d].index \in Nat \ {0}
            /\ copy'[d].out = [j \in 1 .. copy'[d].count |-> copy'[d].out[j]]
      BY <2>2 DEF TypeOK
    <3> QED BY <1>8, <2>3, <3>1
  <2> QED BY <1>1, <2>1, <2>2, <2>4 DEF TypeOK, abortVars, endVars, answerVars, takenVars
<1>12. /\ Base(c)' = Base(c) /\ Frame(c)' = Frame(c) /\ arrived'[c] = arrived[c]
       /\ body'[c] = body[c] /\ head'[c] = head[c] /\ pc'[c] = pc[c]
       /\ buffered'[c] = buffered[c] /\ header'[c] = header[c]
  BY <1>1 DEF Base, Frame, answerVars, takenVars
<1>13. TakenInv(c)'
  BY <1>1, <1>4 DEF TakenInv, answerVars, takenVars
<1>14. ReaderInv(c)'
  <2>1. s.copied <= s.count
    BY <1>2, <1>7
  <2>2. CASE pc[c] = "peeking"
    <3>1. s.copied < s.count => Pos(c, copy[c].index)' = Base(c) + s.copied
      <4> SUFFICES ASSUME s.copied < s.count
                   PROVE  Pos(c, copy[c].index)' = Base(c) + s.copied
        OBVIOUS
      <4>1. n = length
        BY <1>2, <1>7
      <4>2. Pos(c, copy[c].index)' = Pos(c, r.index + 1)
        BY <1>2, <1>10, <1>12, <2>2 DEF Pos
      <4>3. start = Base(c)
        BY <2>2
      <4> HIDE DEF start, r, s, length
      <4> QED BY <1>2, <1>5, <1>6, <1>7, <4>1, <4>2, <4>3
    <3>2. \A j \in 1 .. s.copied : s.out[j] = body[c].bytes[Base(c) + j]
      <4>1. \A j \in 1 .. r.copied : r.out[j] = body[c].bytes[Base(c) + j]
        BY <1>4, <2>2 DEF ReaderInv
      <4> QED BY <1>6, <1>8, <1>9, <2>2, <4>1
    <3>3. Pos(c, 1)' = Pos(c, 1)
      BY <1>10, <1>12, <2>2 DEF Pos
    <3> HIDE DEF start
    <3> QED BY <1>2, <1>4, <1>12, <2>1, <2>2, <3>1, <3>2, <3>3 DEF ReaderInv, ReadSteps
  <2>3. CASE pc[c] = "skipping"
    <3>1. Pos(c, 1)' = Base(c) + s.copied
      BY <1>10, <1>12, <2>3 DEF Pos
    <3> HIDE DEF start
    <3> QED BY <1>2, <1>4, <1>12, <2>1, <2>3, <3>1 DEF ReaderInv, ReadSteps
  <2>4. CASE pc[c] = "payload"
    <3>1. Pos(c, 1)' = Base(c) + HeaderLength + s.copied
      BY <1>10, <1>12, <2>4 DEF Pos
    <3>2. \A j \in 1 .. s.copied : s.out[j] = body[c].bytes[Base(c) + HeaderLength + j]
      <4>1. \A j \in 1 .. r.copied : r.out[j] = body[c].bytes[Base(c) + HeaderLength + j]
        BY <1>4, <2>4 DEF ReaderInv
      <4> QED BY <1>6, <1>8, <1>9, <2>4, <4>1
    <3> HIDE DEF start
    <3> QED BY <1>2, <1>4, <1>12, <2>1, <2>4, <3>1, <3>2 DEF ReaderInv, ReadSteps
  <2> QED BY <1>1, <2>2, <2>3, <2>4 DEF ReadSteps
<1>15. KeptInv(c)'
  <2>1. CASE pc[c] = "peeking"
    BY <1>1, <1>4, <1>10, <1>12, <2>1 DEF KeptInv, takenVars
  <2>2. CASE pc[c] # "peeking"
    <3>1. Base(c) <= PosIn(chunks'[c], arrived[c], 1)
      BY <1>4, <1>8, <1>10, <2>2 DEF HeaderLength
    <3>2. arrived[c] < Base(c) + HeaderLength + MaxAnswerBytes + MaxChunk
      BY <1>4 DEF ReaderInv
    <3>3. \A i \in 1 .. Len(chunks'[c]) :
             arrived[c] < chunks'[c][i].from + HeaderLength + MaxAnswerBytes + MaxChunk
      BY <1>4, <1>10, <3>1, <3>2, KeptFrom
    <3> QED BY <1>1, <1>4, <1>12, <3>3 DEF KeptInv, takenVars
  <2> QED BY <2>1, <2>2
<1> QED BY <1>1, <1>10, <1>11, <1>12, <1>13, <1>14, <1>15
        DEF CallInv, ChunksInv, Active, ReadSteps

\* What a peek read is the header of the frame that is being cut.
LEMMA PeekedHeader ==
    ASSUME TypeOK, NEW c \in Calls, CallInv(c), pc[c] = "peeking", Copied(c)
    PROVE  copy[c].out = Slice(body[c].bytes, Base(c), HeaderLength)
<1>1. ReaderInv(c)
  BY ReaderFacts DEF Active, ReadSteps
<1>2. /\ copy[c].count = HeaderLength /\ copy[c].copied = HeaderLength
      /\ \A j \in 1 .. HeaderLength : copy[c].out[j] = body[c].bytes[Base(c) + j]
  BY <1>1 DEF ReaderInv, Copied
<1>3. copy[c].out = [j \in 1 .. HeaderLength |-> copy[c].out[j]]
  BY <1>2 DEF TypeOK
<1> QED BY <1>2, <1>3 DEF Slice

\* A header over the limit decides the outcome; an incomplete frame waits for more.
LEMMA CheckHeaderStep ==
    ASSUME TypeOK, NEW c \in Calls, CallInv(c), CheckHeader(c)
    PROVE  TypeOK' /\ CallInv(c)'
<1> DEFINE b == body[c]
           length == LengthIn(copy[c].out)
<1>1. /\ pc[c] = "peeking" /\ Copied(c)
      /\ UNCHANGED <<abortVars, answerVars, chunks, buffered, takenVars>>
  BY DEF CheckHeader
<1>2. /\ ChunksInv(c) /\ TakenInv(c) /\ ReaderInv(c) /\ KeptInv(c)
      /\ b \in Bodies /\ Base(c) \in Nat /\ arrived[c] \in Nat /\ MaxAnswerBytes \in Nat
      /\ Base(c) + HeaderLength <= arrived[c] =>
            /\ Frame(c) \in 1 .. Len(b.starts)
            /\ b.starts[Frame(c)] = Base(c)
            /\ LengthOf(b, Frame(c)) \in Nat
            /\ EndOf(b, Frame(c)) = Base(c) + HeaderLength + LengthOf(b, Frame(c))
            /\ LengthOf(b, Frame(c)) = LengthIn(Slice(b.bytes, Base(c), HeaderLength))
  BY <1>1, ReaderFacts DEF Active, ReadSteps
<1>3. /\ Base(c) + HeaderLength <= arrived[c]
      /\ buffered[c] = arrived[c] - Base(c) /\ Pos(c, 1) = Base(c)
  BY <1>1, <1>2 DEF ReaderInv, ReadSteps
<1>4. copy[c].out = Slice(b.bytes, Base(c), HeaderLength) /\ length = LengthOf(b, Frame(c))
  BY <1>1, <1>2, <1>3, PeekedHeader
<1>5. /\ ChunksInv(c)' /\ TakenInv(c)' /\ KeptInv(c)'
      /\ Base(c)' = Base(c) /\ Frame(c)' = Frame(c) /\ Pos(c, 1)' = Pos(c, 1)
      /\ arrived'[c] = arrived[c] /\ body'[c] = body[c] /\ head'[c] = head[c]
  BY <1>1, <1>2, SameAnswer
<1>6. buffered'[c] = buffered[c]
  BY <1>1
<1>7. CASE length > MaxAnswerBytes /\ Ends(c, "RESOURCE_EXHAUSTED") /\ UNCHANGED <<copy, header>>
  <2>1. TypeOK'
    BY <1>1, <1>7 DEF TypeOK, Ends, Steps, abortVars, answerVars, takenVars
  <2>2. pc'[c] = "done" /\ outcome'[c] = "RESOURCE_EXHAUSTED"
    BY <1>7 DEF Ends, TypeOK
  <2>3. RefusalOf(b, arrived[c], Frame(c)) = "RESOURCE_EXHAUSTED"
    BY <1>2, <1>3, <1>4, <1>7 DEF RefusalOf
  <2>4. GivenBy(b, arrived[c], head[c], "RESOURCE_EXHAUSTED")
    BY <1>2, <1>3, <2>3, RefusedOutcome
  <2>5. CallInv(c)'
    BY <1>1, <1>5, <2>2, <2>4, EndedStep DEF answerVars, takenVars
  <2> QED BY <2>1, <2>5
<1>8. CASE /\ length <= MaxAnswerBytes /\ buffered[c] < HeaderLength + length
           /\ Goto(c, "reading") /\ UNCHANGED <<copy, header>>
  <2>1. TypeOK'
    BY <1>1, <1>8 DEF TypeOK, Goto, Steps, abortVars, endVars, answerVars, takenVars
  <2>2. pc'[c] = "reading"
    BY <1>8 DEF Goto, TypeOK
  <2>3. LengthOf(b, Frame(c)) <= MaxAnswerBytes /\ EndOf(b, Frame(c)) > arrived[c]
    BY <1>2, <1>3, <1>4, <1>8 DEF HeaderLength
  <2>4. ReaderInv(c)'
    BY <1>2, <1>3, <1>5, <1>6, <2>2, <2>3 DEF ReaderInv, ReadSteps
  <2> QED BY <1>5, <2>1, <2>2, <2>4 DEF CallInv
<1>9. CASE /\ length <= MaxAnswerBytes /\ buffered[c] >= HeaderLength + length
           /\ header' = [header EXCEPT ![c] = copy[c].out]
           /\ BeginRead(c, "skipping", HeaderLength)
  <2>0. HeaderLength \in Nat
    BY DEF HeaderLength
  <2>1. /\ DOMAIN copy' = Calls
        /\ \A d \in Calls :
              /\ copy'[d].count \in Nat
              /\ copy'[d].copied \in Nat
              /\ copy'[d].index \in Nat \ {0}
              /\ copy'[d].out = [j \in 1 .. copy'[d].count |-> copy'[d].out[j]]
        /\ copy'[c].count = HeaderLength /\ copy'[c].copied = 0 /\ copy'[c].index = 1
    BY <1>9, <2>0, StartedRead DEF BeginRead
  <2>2. /\ pc' \in [Calls -> Steps] /\ pc'[c] = "skipping"
        /\ DOMAIN header' = Calls /\ header'[c] = copy[c].out /\ UNCHANGED endVars
    BY <1>9 DEF TypeOK, BeginRead, Goto, Steps, ReadSteps
  <2>3. TypeOK'
    BY <1>1, <2>1, <2>2 DEF TypeOK, abortVars, endVars, answerVars, takenVars
  <2>4. LengthOf(b, Frame(c)) <= MaxAnswerBytes /\ EndOf(b, Frame(c)) <= arrived[c]
    BY <1>2, <1>3, <1>4, <1>9 DEF HeaderLength
  <2>5. Pos(c, 1)' = Base(c) + copy'[c].copied /\ copy'[c].copied <= copy'[c].count
    BY <1>2, <1>3, <1>5, <2>0, <2>1
  <2>6. ReaderInv(c)'
    BY <1>2, <1>3, <1>4, <1>5, <1>6, <2>1, <2>2, <2>4, <2>5 DEF ReaderInv, ReadSteps
  <2> QED BY <1>5, <2>2, <2>3, <2>6 DEF CallInv
<1> QED BY <1>7, <1>8, <1>9 DEF CheckHeader

\* Dropping the header leaves the payload first.
LEMMA SkipHeaderStep ==
    ASSUME TypeOK, NEW c \in Calls, CallInv(c), SkipHeader(c)
    PROVE  TypeOK' /\ CallInv(c)'
<1> DEFINE b == body[c]
           length == LengthOf(b, Frame(c))
<1>1. /\ pc[c] = "skipping" /\ Copied(c)
      /\ UNCHANGED <<abortVars, answerVars, chunks, header, takenVars>>
  BY DEF SkipHeader
<1>2. /\ ChunksInv(c) /\ TakenInv(c) /\ ReaderInv(c) /\ KeptInv(c)
      /\ b \in Bodies /\ Base(c) \in Nat /\ arrived[c] \in Nat
      /\ Base(c) + HeaderLength <= arrived[c] =>
            /\ length \in Nat
            /\ EndOf(b, Frame(c)) = Base(c) + HeaderLength + length
            /\ length = LengthIn(Slice(b.bytes, Base(c), HeaderLength))
  BY <1>1, ReaderFacts DEF Active, ReadSteps
<1>3. /\ Base(c) + HeaderLength <= arrived[c]
      /\ buffered[c] = arrived[c] - Base(c) /\ Pos(c, 1) = Base(c) + copy[c].copied
      /\ copy[c].count = HeaderLength
      /\ header[c] = Slice(b.bytes, Base(c), HeaderLength)
      /\ length <= MaxAnswerBytes /\ EndOf(b, Frame(c)) <= arrived[c]
  BY <1>1, <1>2 DEF ReaderInv, ReadSteps
<1>4. LengthIn(header[c]) = length /\ length \in Nat
  BY <1>2, <1>3
<1>5. /\ ChunksInv(c)' /\ TakenInv(c)' /\ KeptInv(c)'
      /\ Base(c)' = Base(c) /\ Frame(c)' = Frame(c) /\ Pos(c, 1)' = Pos(c, 1)
      /\ arrived'[c] = arrived[c] /\ body'[c] = body[c] /\ head'[c] = head[c]
  BY <1>1, <1>2, SameAnswer
<1>6. /\ DOMAIN copy' = Calls
      /\ \A d \in Calls :
            /\ copy'[d].count \in Nat
            /\ copy'[d].copied \in Nat
            /\ copy'[d].index \in Nat \ {0}
            /\ copy'[d].out = [j \in 1 .. copy'[d].count |-> copy'[d].out[j]]
      /\ copy'[c].count = length /\ copy'[c].copied = 0 /\ copy'[c].index = 1
  <2> HIDE DEF length
  <2> QED BY <1>4, StartedRead DEF SkipHeader, BeginRead
<1>7. /\ pc' \in [Calls -> Steps] /\ pc'[c] = "payload" /\ UNCHANGED endVars
  BY DEF SkipHeader, TypeOK, BeginRead, Goto, Steps, ReadSteps
<1>8. buffered'[c] = arrived[c] - Base(c) - HeaderLength /\ buffered'[c] \in Nat
  BY <1>2, <1>3 DEF SkipHeader, TypeOK, HeaderLength
<1>9. buffered' \in [Calls -> Nat]
  <2>1. buffered' = [buffered EXCEPT ![c] = buffered'[c]]
    BY DEF SkipHeader, TypeOK
  <2> QED BY <1>8, <2>1 DEF TypeOK
<1>10. TypeOK'
  BY <1>1, <1>6, <1>7, <1>9 DEF TypeOK, abortVars, endVars, answerVars, takenVars
<1>11. Pos(c, 1)' = Base(c) + HeaderLength + copy'[c].copied /\ copy'[c].copied <= copy'[c].count
  BY <1>1, <1>2, <1>3, <1>4, <1>5, <1>6 DEF Copied, HeaderLength
<1>12. ReaderInv(c)'
  BY <1>1, <1>2, <1>3, <1>5, <1>6, <1>7, <1>8, <1>11 DEF ReaderInv, ReadSteps
<1> QED BY <1>5, <1>7, <1>10, <1>12 DEF CallInv

\* What the last read of a frame read: its payload, after its flag was peeked at.
LEMMA ReadFrame ==
    ASSUME TypeOK, NEW c \in Calls, CallInv(c), pc[c] = "payload", Copied(c)
    PROVE  /\ header[c][1] = FlagOf(body[c], Frame(c))
           /\ copy[c].out = PayloadOf(body[c], Frame(c))
<1>1. /\ ReaderInv(c) /\ Base(c) \in Nat /\ arrived[c] \in Nat
      /\ Base(c) + HeaderLength <= arrived[c] =>
            /\ body[c].starts[Frame(c)] = Base(c)
            /\ LengthOf(body[c], Frame(c)) \in Nat
  BY ReaderFacts DEF Active, ReadSteps
<1>2. /\ Base(c) + HeaderLength <= arrived[c]
      /\ copy[c].count = LengthOf(body[c], Frame(c))
      /\ header[c] = Slice(body[c].bytes, Base(c), HeaderLength)
      /\ \A j \in 1 .. copy[c].copied : copy[c].out[j] = body[c].bytes[Base(c) + HeaderLength + j]
  BY <1>1 DEF ReaderInv, ReadSteps
<1>3. header[c][1] = FlagOf(body[c], Frame(c))
  BY <1>1, <1>2 DEF Slice, FlagOf, HeaderLength
<1>4. copy[c].copied = LengthOf(body[c], Frame(c))
  BY <1>2 DEF Copied
<1>5. copy[c].out = [j \in 1 .. LengthOf(body[c], Frame(c)) |-> copy[c].out[j]]
  BY <1>2 DEF TypeOK
<1>6. copy[c].out = PayloadOf(body[c], Frame(c))
  BY <1>1, <1>2, <1>4, <1>5 DEF PayloadOf, Slice
<1> QED BY <1>3, <1>6

\* takeFrame takes the frame that follows the ones taken, or refuses it.
LEMMA TakeFrameStep ==
    ASSUME TypeOK, NEW c \in Calls, CallInv(c), TakeFrame(c)
    PROVE  TypeOK' /\ CallInv(c)'
<1> DEFINE b == body[c]
           t == taken[c]
           length == LengthOf(b, Frame(c))
           flag == header[c][1]
           payload == copy[c].out
<1>1. /\ pc[c] = "payload" /\ Copied(c)
      /\ buffered' = [buffered EXCEPT ![c] = @ - copy[c].count]
      /\ UNCHANGED <<abortVars, answerVars, chunks, copy, header>>
  BY DEF TakeFrame
<1>2. /\ ChunksInv(c) /\ TakenInv(c) /\ ReaderInv(c) /\ KeptInv(c)
      /\ b \in Bodies /\ Base(c) \in Nat /\ arrived[c] \in Nat /\ t \in Nat
      /\ MaxAnswerBytes \in Nat /\ MaxChunk \in Nat
      /\ Base(c) + HeaderLength <= arrived[c] =>
            /\ Frame(c) \in 1 .. Len(b.starts)
            /\ length \in Nat
            /\ EndOf(b, Frame(c)) = Base(c) + HeaderLength + length
  BY <1>1, ReaderFacts DEF Active, ReadSteps
<1>3. /\ Base(c) + HeaderLength <= arrived[c]
      /\ copy[c].count = length
      /\ buffered[c] = arrived[c] - Base(c) - HeaderLength
      /\ Pos(c, 1) = Base(c) + HeaderLength + copy[c].copied
      /\ length <= MaxAnswerBytes /\ EndOf(b, Frame(c)) <= arrived[c]
      /\ arrived[c] < Base(c) + HeaderLength + MaxAnswerBytes + MaxChunk
      /\ arrived[c] <= Len(b.bytes) /\ HeadError(head[c]) = "none"
  BY <1>1, <1>2 DEF ReaderInv, ReadSteps
<1>4. flag = FlagOf(b, Frame(c)) /\ payload = PayloadOf(b, Frame(c))
  BY <1>1, ReadFrame
<1>5. buffered'[c] = arrived[c] - EndOf(b, Frame(c)) /\ buffered'[c] \in Nat
  <2>1. buffered'[c] = buffered[c] - length
    BY <1>1, <1>3 DEF TypeOK
  <2> HIDE DEF b, length
  <2>2. /\ arrived[c] \in Nat /\ Base(c) \in Nat /\ length \in Nat
        /\ EndOf(b, Frame(c)) = Base(c) + HeaderLength + length
        /\ EndOf(b, Frame(c)) <= arrived[c]
        /\ buffered[c] = arrived[c] - Base(c) - HeaderLength
    BY <1>2, <1>3
  <2> QED BY <2>1, <2>2 DEF HeaderLength
<1>6. buffered' \in [Calls -> Nat]
  <2>1. buffered' = [buffered EXCEPT ![c] = buffered'[c]]
    BY <1>1 DEF TypeOK
  <2> QED BY <1>5, <2>1 DEF TypeOK
<1>7. CASE /\ Accepted(c, flag)
           /\ taken' = [taken EXCEPT ![c] = @ + 1]
           /\ Goto(c, "cutting")
           /\ IF IsTrailer(flag)
              THEN /\ trailers' = [trailers EXCEPT ![c] = <<TrailerStatus(payload)>>]
                   /\ UNCHANGED data
              ELSE /\ data' = [data EXCEPT ![c] = Append(@, payload)]
                   /\ UNCHANGED trailers
  <2>1. TypeOK'
    <3>1. pc' \in [Calls -> Steps] /\ taken' \in [Calls -> Nat] /\ UNCHANGED endVars
      BY <1>7 DEF TypeOK, Goto, Steps
    <3>2. DOMAIN data' = Calls /\ DOMAIN trailers' = Calls
      BY <1>7 DEF TypeOK
    <3> QED BY <1>1, <1>6, <3>1, <3>2 DEF TypeOK, abortVars, endVars, answerVars
  <2>2. /\ pc'[c] = "cutting" /\ taken'[c] = t + 1 /\ t + 1 = Frame(c)
        /\ body'[c] = b /\ arrived'[c] = arrived[c] /\ head'[c] = head[c]
        /\ chunks'[c] = chunks[c]
    BY <1>1, <1>7 DEF TypeOK, Goto, Frame, answerVars
  <2>3. IF IsTrailer(flag)
        THEN trailers'[c] = <<TrailerStatus(payload)>> /\ data'[c] = data[c]
        ELSE data'[c] = Append(data[c], payload) /\ trailers'[c] = trailers[c]
    BY <1>7 DEF TypeOK
  <2>4. /\ trailers[c] = <<>> /\ ~IsCompressed(flag)
        /\ IsTrailer(flag) \/ data[c] = <<>>
    BY <1>7 DEF Accepted
  <2>5. ~IsTrailer(flag) => data'[c] = <<payload>> /\ data'[c] # <<>>
    BY <2>3, <2>4
  <2>6. TakenInv(c)'
    <3> DEFINE trailer(j) == IsTrailer(FlagOf(b, j))
    <3>1. \A j \in 1 .. t + 1 : j \in 1 .. t \/ j = t + 1
      BY <1>2
    <3>2. t + 1 \in 1 .. t + 1 /\ \A j \in 1 .. t : j \in 1 .. t + 1
      BY <1>2
    <3>3. /\ \A j \in 1 .. t :
               LengthOf(b, j) <= MaxAnswerBytes /\ ~IsCompressed(FlagOf(b, j)) /\ ~trailer(j)
          /\ \A i, j \in 1 .. t : i = j
          /\ data[c] = <<>> <=> \A j \in 1 .. t : trailer(j)
      BY <1>2, <2>4 DEF TakenInv
    <3>4. /\ LengthOf(b, t + 1) <= MaxAnswerBytes /\ ~IsCompressed(FlagOf(b, t + 1))
          /\ IsTrailer(flag) <=> trailer(t + 1)
          /\ payload = PayloadOf(b, t + 1)
          /\ t + 1 <= Len(b.starts) /\ t + 1 > 0
      BY <1>2, <1>3, <1>4, <2>2, <2>4
    <3> HIDE DEF b, t, trailer, payload, flag
    <3>5. \A j \in 1 .. t + 1 :
            /\ LengthOf(b, j) <= MaxAnswerBytes /\ ~IsCompressed(FlagOf(b, j))
            /\ trailer(j) => j = t + 1
      BY <3>1, <3>3, <3>4
    <3>6. \A i, j \in 1 .. t + 1 : ~trailer(i) /\ ~trailer(j) => i = j
      BY <2>4, <3>1, <3>3, <3>4
    <3>7. /\ trailers'[c] = <<>> => \A j \in 1 .. t + 1 : ~trailer(j)
          /\ trailers'[c] # <<>> =>
                trailer(t + 1) /\ trailers'[c] = <<TrailerStatus(PayloadOf(b, t + 1))>>
      <4>1. CASE IsTrailer(flag)
        <5>1. trailers'[c] = <<TrailerStatus(PayloadOf(b, t + 1))>> /\ trailers'[c] # <<>>
          BY <2>3, <3>4, <4>1
        <5> QED BY <3>4, <4>1, <5>1
      <4>2. CASE ~IsTrailer(flag)
        BY <2>3, <2>4, <3>1, <3>3, <3>4, <4>2
      <4> QED BY <4>1, <4>2
    <3>8. data'[c] = <<>> <=> \A j \in 1 .. t + 1 : trailer(j)
      BY <2>3, <2>5, <3>1, <3>2, <3>3, <3>4
    <3> QED BY <2>2, <3>4, <3>5, <3>6, <3>7, <3>8 DEF TakenInv, trailer
  <2>7. KeptInv(c)'
    <3>1. CASE IsTrailer(flag)
      BY <1>2, <2>2, <2>3, <3>1 DEF KeptInv
    <3>2. CASE ~IsTrailer(flag)
      <4>1. payload = [j \in 1 .. length |-> payload[j]]
        BY <1>3 DEF TypeOK
      <4>2. length \in 0 .. MaxAnswerBytes
        BY <1>2, <1>3
      <4> HIDE DEF length, payload
      <4> QED BY <1>2, <2>2, <2>5, <3>2, <4>1, <4>2 DEF KeptInv
    <3> QED BY <3>1, <3>2
  <2>8. Base(c)' = EndOf(b, Frame(c))
    BY <1>2, <2>2 DEF Base, After
  <2>9. Pos(c, 1)' = EndOf(b, Frame(c))
    <3>1. Pos(c, 1)' = Pos(c, 1)
      BY <2>2 DEF Pos
    <3>2. Pos(c, 1) = Base(c) + HeaderLength + length
      BY <1>1, <1>3 DEF Copied
    <3> QED BY <1>2, <1>3, <3>1, <3>2
  <2>10. EndOf(b, Frame(c)) <= arrived[c]
         /\ arrived[c] < EndOf(b, Frame(c)) + HeaderLength + MaxAnswerBytes + MaxChunk
    <3> HIDE DEF b, length
    <3> QED BY <1>2, <1>3 DEF HeaderLength
  <2>11. ReaderInv(c)'
    BY <1>2, <1>3, <1>5, <2>2, <2>8, <2>9, <2>10 DEF ReaderInv, ReadSteps
  <2>12. ChunksInv(c)'
    BY <1>2, <2>2 DEF ChunksInv
  <2> QED BY <2>1, <2>2, <2>6, <2>7, <2>11, <2>12 DEF CallInv
<1>8. CASE ~Accepted(c, flag) /\ Ends(c, "INTERNAL") /\ UNCHANGED takenVars
  <2>1. TypeOK'
    BY <1>1, <1>6, <1>8 DEF TypeOK, Ends, Steps, abortVars, answerVars, takenVars
  <2>2. pc'[c] = "done" /\ outcome'[c] = "INTERNAL"
    BY <1>8 DEF Ends, TypeOK
  <2>3. /\ Frame(c) \in Whole(b, arrived[c])
        /\ ~(b.starts[Frame(c)] + HeaderLength <= arrived[c] /\ length > MaxAnswerBytes)
    <3>1. Frame(c) \in DOMAIN b.starts
      BY <1>2, <1>3, WebAssumption DEF WellFramed
    <3> QED BY <1>2, <1>3, <3>1 DEF Whole
  <2>4. \/ \E j \in 1 .. Frame(c) - 1 : IsTrailer(FlagOf(b, j))
        \/ IsCompressed(FlagOf(b, Frame(c)))
        \/ /\ ~IsTrailer(FlagOf(b, Frame(c)))
           /\ \E j \in 1 .. Frame(c) - 1 : ~IsTrailer(FlagOf(b, j))
    <3>1. Frame(c) - 1 = t
      BY <1>2 DEF Frame
    <3>2. CASE trailers[c] # <<>>
      <4>1. t \in 1 .. t /\ IsTrailer(FlagOf(b, t))
        BY <1>2, <3>2 DEF TakenInv
      <4> QED BY <3>1, <4>1
    <3>3. CASE IsCompressed(flag)
      BY <1>4, <3>3
    <3>4. CASE ~IsTrailer(flag) /\ data[c] # <<>>
      <4>1. \E j \in 1 .. t : ~IsTrailer(FlagOf(b, j))
        BY <1>2, <3>4 DEF TakenInv
      <4> QED BY <1>4, <3>1, <3>4, <4>1
    <3> QED BY <1>8, <3>2, <3>3, <3>4 DEF Accepted
  <2>5. RefusalOf(b, arrived[c], Frame(c)) = "INTERNAL"
    BY <2>3, <2>4 DEF RefusalOf
  <2>6. GivenBy(b, arrived[c], head[c], "INTERNAL")
    BY <1>2, <1>3, <2>5, RefusedOutcome
  <2>7. CallInv(c)'
    BY <1>1, <1>8, <2>2, <2>6, EndedStep DEF answerVars, takenVars
  <2> QED BY <2>1, <2>7
<1> QED BY <1>7, <1>8 DEF TakeFrame

-----------------------------------------------------------------------------
(* The invariant.                                                          *)

\* Before the first call nothing has arrived.
LEMMA InvInit == Init => IInv
<1> SUFFICES ASSUME Init PROVE IInv
  OBVIOUS
<1>1. TypeOK
  <2>1. \A c \in Calls : copy[c] = StartOfRead(0)
    BY DEF Init
  <2>2. \A c \in Calls :
          /\ copy[c].count \in Nat
          /\ copy[c].copied \in Nat
          /\ copy[c].index \in Nat \ {0}
          /\ copy[c].out = [j \in 1 .. copy[c].count |-> copy[c].out[j]]
    BY <2>1 DEF StartOfRead
  <2>3. /\ chunks \in [Calls -> Seq(View)] /\ head \in [Calls -> Heads \cup {NoHead}]
        /\ body \in [Calls -> Bodies \cup {NoBody}]
    BY DEF Init
  <2>4. pc \in [Calls -> Steps]
    BY DEF Init, Steps
  <2>5. /\ arrived \in [Calls -> Nat] /\ buffered \in [Calls -> Nat] /\ taken \in [Calls -> Nat]
        /\ DOMAIN outcome = Calls /\ DOMAIN copy = Calls /\ DOMAIN header = Calls
        /\ DOMAIN data = Calls /\ DOMAIN trailers = Calls
    BY DEF Init
  <2> QED BY <2>2, <2>3, <2>4, <2>5 DEF Init, TypeOK
<1>2. ASSUME NEW c \in Calls PROVE CallInv(c)
  <2>1. /\ pc[c] = "idle" /\ body[c] = NoBody /\ arrived[c] = 0 /\ chunks[c] = <<>>
        /\ buffered[c] = 0 /\ taken[c] = 0 /\ data[c] = <<>> /\ trailers[c] = <<>>
    BY DEF Init
  <2>2. KeptInv(c)
    BY <2>1 DEF KeptInv
  <2> QED BY <2>1, <2>2 DEF CallInv, Active, ReadSteps
<1> QED BY <1>1, <1>2 DEF IInv

\* A call's own step keeps its invariant.
LEMMA OwnStep ==
    ASSUME TypeOK, NEW c \in Calls, CallInv(c), CallNext(c)
    PROVE  TypeOK' /\ CallInv(c)'
<1>1. ASSUME NEW late \in BOOLEAN, Unary(c, late) PROVE TypeOK' /\ CallInv(c)'
  BY <1>1, UnaryStep
<1>2. ASSUME NEW h \in Heads, NEW b \in Bodies, Respond(c, h, b) PROVE TypeOK' /\ CallInv(c)'
  BY <1>2, RespondStep
<1>3. ASSUME NEW n \in 0 .. MaxChunk, Arrive(c, n) PROVE TypeOK' /\ CallInv(c)'
  BY <1>3, ArriveStep
<1>4. CASE Cutting(c)
  BY <1>4, NextFrameStep, CopyStep, CheckHeaderStep, SkipHeaderStep, TakeFrameStep DEF Cutting
<1>5. CASE BodyEnds(c)
  BY <1>5, BodyEndsStep
<1>6. ASSUME NEW typeError \in BOOLEAN, Reject(c, typeError) PROVE TypeOK' /\ CallInv(c)'
  BY <1>6, RejectStep
<1>7. CASE TimeOut(c)
  BY <1>7, TimeOutStep
<1> QED BY <1>1, <1>2, <1>3, <1>4, <1>5, <1>6, <1>7 DEF CallNext

\* Every step keeps the invariant.
LEMMA InvStep == IInv /\ [Next]_vars => IInv'
<1> SUFFICES ASSUME IInv, [Next]_vars PROVE IInv'
  OBVIOUS
<1>1. TypeOK /\ \A c \in Calls : CallInv(c)
  BY DEF IInv
<1>2. ASSUME NEW c \in Calls, CallNext(c) PROVE IInv'
  <2>1. TypeOK' /\ CallInv(c)'
    BY <1>1, <1>2, OwnStep
  <2>2. ASSUME NEW d \in Calls, d # c PROVE CallInv(d)'
    BY <1>1, <1>2, <2>2, OtherCalls, Stays
  <2> QED BY <2>1, <2>2 DEF IInv
<1>3. CASE Close
  <2>1. TypeOK'
    BY <1>1, <1>3 DEF Close, TypeOK, endVars, answerVars, readerVars, takenVars
  <2>2. ASSUME NEW d \in Calls PROVE CallInv(d)'
    <3>1. Untouched(d)
      BY <1>3 DEF Close, Untouched, endVars, answerVars, readerVars, takenVars
    <3> QED BY <1>1, <3>1, Stays
  <2> QED BY <2>1, <2>2 DEF IInv
<1>4. CASE UNCHANGED vars
  <2>1. TypeOK'
    BY <1>1, <1>4 DEF TypeOK, vars, abortVars, endVars, answerVars, readerVars, takenVars
  <2>2. ASSUME NEW d \in Calls PROVE CallInv(d)'
    <3>1. Untouched(d)
      BY <1>4 DEF Untouched, vars, abortVars, endVars, answerVars, readerVars, takenVars
    <3> QED BY <1>1, <3>1, Stays
  <2> QED BY <2>1, <2>2 DEF IInv
<1> QED BY <1>2, <1>3, <1>4 DEF Next

\* `read` asks for this.chunks[index] only where there is such a chunk.
ReadsHaveAChunk ==
    \A c \in Calls :
        pc[c] \in ReadSteps /\ copy[c].copied < copy[c].count =>
            copy[c].index \in 1 .. Len(chunks[c])

\* The invariant holds for any calls, bodies, chunk sizes and limits.
THEOREM Invariance == Spec => []IInv
<1> QED BY InvInit, InvStep, PTL DEF Spec

\* The transport's variables keep their types.
THEOREM TypeCorrect == Spec => []TypeOK
<1>1. IInv => TypeOK
  BY DEF IInv
<1> QED BY <1>1, Invariance, PTL

\* read (web-transport.ts) never runs past the chunks it has, so that it never reads
\* the length of an undefined one: push only reads what `buffered` counts.
THEOREM ReadsStayInside == Spec => []ReadsHaveAChunk
<1>1. IInv => ReadsHaveAChunk
  <2> SUFFICES ASSUME IInv, NEW c \in Calls, pc[c] \in ReadSteps, copy[c].copied < copy[c].count
               PROVE  copy[c].index \in 1 .. Len(chunks[c])
    BY DEF ReadsHaveAChunk
  <2> QED BY CopyFacts DEF IInv
<1> QED BY <1>1, Invariance, PTL

\* Whatever chunks an answer arrives in, push and takeFrame (web-transport.ts) give
\* the outcome that its bytes alone decide.
THEOREM ChunksNeverMatter == Spec => []ChunksDoNotMatter
<1>1. IInv => ChunksDoNotMatter
  BY DEF IInv, CallInv, ChunksDoNotMatter
<1> QED BY <1>1, Invariance, PTL

\* What push and takeFrame keep of an answer is one message of at most
\* GRPC_WEB_MAX_ANSWER_BYTES, one incomplete frame and one chunk, whoever answers.
THEOREM KeptBytesStayBounded == Spec => []KeptBytesAreBounded
<1>1. ASSUME IInv, NEW c \in Calls
      PROVE  /\ Len(data[c]) <= 1
             /\ \A i \in DOMAIN data[c] : Len(data[c][i]) <= MaxAnswerBytes
  <2>1. KeptInv(c)
    BY <1>1 DEF IInv, CallInv
  <2>2. CASE data[c] = <<>>
    BY <2>2
  <2>3. ASSUME NEW p, data[c] = <<p>>, NEW n \in 0 .. MaxAnswerBytes,
               p = [j \in 1 .. n |-> p[j]]
        PROVE  /\ Len(data[c]) <= 1
               /\ \A i \in DOMAIN data[c] : Len(data[c][i]) <= MaxAnswerBytes
    <3> DEFINE S == {p[j] : j \in 1 .. n}
    <3>1. n \in Nat /\ n <= MaxAnswerBytes
      BY WebAssumption
    <3>2. p \in [1 .. n -> S]
      <4>1. \A j \in 1 .. n : p[j] \in S
        OBVIOUS
      <4> HIDE DEF S
      <4> QED BY <2>3, <4>1
    <3> HIDE DEF S
    <3>3. p \in Seq(S)
      BY <3>1, <3>2
    <3>4. DOMAIN p = 1 .. n
      BY <3>2
    <3>5. Len(p) = n
      BY <3>1, <3>3, <3>4
    <3>6. Len(data[c]) = 1 /\ \A i \in DOMAIN data[c] : data[c][i] = p
      <4>1. DOMAIN <<p>> = {1} /\ Len(<<p>>) = 1 /\ <<p>>[1] = p
        OBVIOUS
      <4> QED BY <2>3, <4>1
    <3> QED BY <3>1, <3>5, <3>6
  <2> QED BY <2>1, <2>2, <2>3 DEF KeptInv
<1>2. ASSUME IInv, NEW c \in Calls
      PROVE  Cardinality(Kept(c)) < HeaderLength + MaxAnswerBytes + MaxChunk
  <2> DEFINE limit == HeaderLength + MaxAnswerBytes + MaxChunk
             low == IF arrived[c] < limit THEN 1 ELSE arrived[c] - limit + 2
  <2>1. arrived[c] \in Nat /\ limit \in Nat /\ limit > 0 /\ chunks[c] \in Seq(View) /\ KeptInv(c)
    BY <1>2, WebAssumption DEF IInv, CallInv, TypeOK, HeaderLength
  <2>2. ASSUME NEW p \in Kept(c) PROVE p \in low .. arrived[c]
    <3>1. PICK i \in DOMAIN chunks[c] : chunks[c][i].from < p /\ p <= chunks[c][i].to
      BY <2>2 DEF Kept
    <3>2. p \in 1 .. arrived[c]
      BY <2>2 DEF Kept
    <3>3. i \in 1 .. Len(chunks[c]) /\ chunks[c][i] \in View
      BY <2>1, <3>1
    <3>4. chunks[c][i].from \in Nat
      BY <3>3 DEF View
    <3>5. arrived[c] < chunks[c][i].from + limit
      BY <2>1, <3>3, <3>4, WebAssumption, SMTT(30) DEF KeptInv, HeaderLength
    <3> HIDE DEF limit, low
    <3>6. CASE arrived[c] < limit
      BY <3>2, <3>6 DEF low
    <3>7. CASE ~(arrived[c] < limit)
      <4>1. low = arrived[c] - limit + 2
        BY <3>7 DEF low
      <4>2. p \in Nat /\ p <= arrived[c] /\ chunks[c][i].from + 1 <= p
        BY <2>1, <3>1, <3>2, <3>4
      <4> QED BY <2>1, <3>4, <3>5, <4>1, <4>2, SMTT(30)
    <3> QED BY <3>6, <3>7
  <2>3. low \in Int /\ low \in Nat
    <3> HIDE DEF limit
    <3> QED BY <2>1
  <2>4. /\ IsFiniteSet(low .. arrived[c])
        /\ Cardinality(low .. arrived[c])
             = IF low > arrived[c] THEN 0 ELSE arrived[c] - low + 1
    <3> HIDE DEF low, limit
    <3>1. low \in Int /\ arrived[c] \in Int
      BY <2>1, <2>3
    <3> QED BY <3>1, FS_Interval, Zenon
  <2>5. Cardinality(Kept(c)) <= Cardinality(low .. arrived[c]) /\ Cardinality(Kept(c)) \in Nat
    <3> HIDE DEF low
    <3>1. Kept(c) \subseteq low .. arrived[c]
      BY <2>2
    <3> QED BY <2>4, <3>1, FS_Subset, FS_CardinalityType
  <2>6. Cardinality(low .. arrived[c]) < limit
    <3> HIDE DEF limit
    <3> QED BY <2>1, <2>4
  <2> HIDE DEF low, limit
  <2>7. Cardinality(low .. arrived[c]) \in Nat
    BY <2>4, FS_CardinalityType
  <2>8. Cardinality(Kept(c)) < limit
    BY <2>1, <2>5, <2>6, <2>7
  <2> QED BY <2>8 DEF limit
<1>3. IInv => KeptBytesAreBounded
  BY <1>1, <1>2 DEF KeptBytesAreBounded
<1> QED BY <1>3, Invariance, PTL

===============================================================================
