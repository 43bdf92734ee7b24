--------------------------- MODULE ServiceProofs ---------------------------
(***************************************************************************)
(* What the server owes the requests it has accepted, for every value of   *)
(* the constants: a reader is always told (StreamInv); the blocks reserved *)
(* are always enough (RoomInv); nobody active is left out of a batch       *)
(* (AdvanceInv); when the loop raises or the server shuts down nothing is  *)
(* lost and nobody still there is cut off (LifespanInv); and a reader that *)
(* gets to the end of its stream has all of it (SessionInv).               *)
(***************************************************************************)
EXTENDS BatchLoopProofs, ServerLifespan, MeteredLoop, SseClient

(* The requests the server has accepted and not finished.                  *)
Served == waiting \cup active

Stream == [queue : Seq(Token \cup {END}), held : Seq(Token), cancelled : BOOLEAN]

Ended(queue) == queue # <<>> /\ queue[Len(queue)] = END

(* What ties a request's stream to where its reader and the request stand. *)
(* Only a served request's queue grows, and _END is not yet in it; a       *)
(* reader is in its subscribe() for as long as the stream is there; only a *)
(* reader that has left has cancelled it.                                  *)
StreamOk(r) ==
    /\ r \in DOMAIN streams => streams[r] \in Stream
    /\ r \in Served =>
          /\ consumer[r] \in {"starting", "reading", "leaving", "gone"}
          /\ r \in DOMAIN streams => streams[r].queue \in Seq(Token)
    /\ consumer[r] \in {"starting", "reading", "leaving"} => r \in DOMAIN streams
    /\ consumer[r] \in {"starting", "reading"} /\ r \notin Served => Ended(streams[r].queue)
    /\ r \in DOMAIN streams => (streams[r].cancelled => consumer[r] = "leaving")
    /\ consumer[r] \in {"leaving", "gone"} => r \in Streaming

StreamInv ==
    /\ consumer \in [Requests -> ConsumerStates]
    /\ DOMAIN streams \subseteq Requests
    /\ streams = [r \in DOMAIN streams |-> streams[r]]
    /\ \A r \in Requests : StreamOk(r)

(* Replacing fields of a stream.                                           *)
LEMMA StreamRead ==
    ASSUME NEW s \in Stream, NEW queue \in Seq(Token \cup {END}),
           NEW t, t = [s EXCEPT !.queue = queue]
    PROVE  t \in Stream /\ t.queue = queue /\ t.cancelled = s.cancelled
BY DEF Stream

LEMMA StreamHeld ==
    ASSUME NEW s \in Stream, NEW held \in Seq(Token), NEW t, t = [s EXCEPT !.held = held]
    PROVE  t \in Stream /\ t.queue = s.queue /\ t.cancelled = s.cancelled
BY DEF Stream

LEMMA StreamFlushed ==
    ASSUME NEW s \in Stream, NEW queue \in Seq(Token \cup {END}), NEW held \in Seq(Token)
    PROVE  /\ [s EXCEPT !.queue = queue, !.held = held] \in Stream
           /\ [s EXCEPT !.queue = queue, !.held = held].queue = queue
           /\ [s EXCEPT !.queue = queue, !.held = held].cancelled = s.cancelled
BY DEF Stream

LEMMA StreamCancelled ==
    ASSUME NEW s \in Stream, NEW queue \in Seq(Token \cup {END})
    PROVE  /\ [s EXCEPT !.queue = queue, !.cancelled = TRUE] \in Stream
           /\ [s EXCEPT !.queue = queue, !.cancelled = TRUE].queue = queue
BY DEF Stream

LEMMA StreamInitInv == Init => StreamInv
<1> SUFFICES ASSUME Init PROVE StreamInv
    OBVIOUS
<1>1. Served = {} /\ streams = [r \in {} |-> <<>>] /\ consumer = [r \in Requests |-> "none"]
    BY DEF Init, StreamInit, Served, active
<1>2. DOMAIN streams = {}
    BY <1>1
<1>3. \A r \in Requests : StreamOk(r)
    BY <1>1, <1>2 DEF StreamOk
<1> QED BY <1>1, <1>2, <1>3 DEF StreamInv, ConsumerStates

(* A step that concerns the stream of one request only.                    *)
LEMMA StreamLocal ==
    ASSUME StreamInv, NEW r \in Requests,
           consumer' \in [Requests -> ConsumerStates],
           streams' = [q \in DOMAIN streams' |-> streams'[q]],
           DOMAIN streams' \subseteq Requests,
           \A q \in Requests \ {r} :
              /\ consumer'[q] = consumer[q]
              /\ q \in DOMAIN streams' <=> q \in DOMAIN streams
              /\ q \in DOMAIN streams => streams'[q] = streams[q]
              /\ q \in Served' <=> q \in Served,
           StreamOk(r)'
    PROVE  StreamInv'
<1>1. ASSUME NEW q \in Requests, q # r
      PROVE  StreamOk(q)'
    <2>1. StreamOk(q)
        BY DEF StreamInv
    <2> QED BY <1>1, <2>1 DEF StreamOk
<1> QED BY <1>1 DEF StreamInv

LEMMA StreamUnchanged ==
    ASSUME StreamInv, UNCHANGED <<streams, consumer>>, Served' = Served
    PROVE  StreamInv'
BY DEF StreamInv, StreamOk

(* Appending to a sequence of tokens, with and without the sentinel.       *)
LEMMA ClosedQueue ==
    ASSUME NEW queue \in Seq(Token \cup {END}), NEW held \in Seq(Token)
    PROVE  /\ queue \o Append(held, END) \in Seq(Token \cup {END})
           /\ Ended(queue \o Append(held, END))
<1>1. Append(held, END) \in Seq(Token \cup {END}) /\ Len(Append(held, END)) = Len(held) + 1
    OBVIOUS
<1>2. Append(held, END)[Len(held) + 1] = END
    OBVIOUS
<1> DEFINE tail == Append(held, END)
           all == queue \o tail
<1>3. /\ all \in Seq(Token \cup {END}) /\ Len(all) = Len(queue) + Len(held) + 1
      /\ all[Len(queue) + (Len(held) + 1)] = tail[Len(held) + 1]
    <2>1. tail \in Seq(Token \cup {END}) /\ Len(tail) = Len(held) + 1 /\ Len(held) \in Nat
        BY <1>1
    <2> HIDE DEF tail
    <2> QED BY <2>1
<1> QED BY <1>2, <1>3 DEF Ended

LEMMA PushedQueue ==
    ASSUME NEW queue \in Seq(Token), NEW held \in Seq(Token), NEW token \in Token
    PROVE  /\ queue \o Append(held, token) \in Seq(Token)
           /\ Append(held, token) \in Seq(Token)
OBVIOUS

(* Reading text leaves the sentinel where it is.                           *)
LEMMA ReadQueue ==
    ASSUME NEW queue \in Seq(Token \cup {END}), queue # <<>>
    PROVE  /\ Tail(queue) \in Seq(Token \cup {END})
           /\ queue \in Seq(Token) => Tail(queue) \in Seq(Token)
           /\ Ended(queue) /\ Head(queue) # END => Ended(Tail(queue))
<1>1. /\ Len(queue) \in Nat /\ Len(queue) > 0 /\ Tail(queue) \in Seq(Token \cup {END})
      /\ Len(Tail(queue)) = Len(queue) - 1 /\ Head(queue) = queue[1]
      /\ \A i \in 1..(Len(queue) - 1) : Tail(queue)[i] = queue[i + 1]
    OBVIOUS
<1>2. queue \in Seq(Token) => Tail(queue) \in Seq(Token)
    OBVIOUS
<1>3. ASSUME Ended(queue), Head(queue) # END
      PROVE  Ended(Tail(queue))
    <2>1. queue[Len(queue)] = END /\ queue[1] # END
        BY <1>1, <1>3 DEF Ended
    <2>2. Len(queue) > 1
        BY <1>1, <2>1
    <2>3. Tail(queue)[Len(queue) - 1] = queue[Len(queue)]
        <3>1. Len(queue) - 1 \in 1..(Len(queue) - 1) /\ (Len(queue) - 1) + 1 = Len(queue)
            BY <1>1, <2>2
        <3> QED BY <1>1, <3>1
    <2>4. Tail(queue) # <<>>
        <3>1. Len(Tail(queue)) # 0 /\ Len(<<>>) = 0
            BY <1>1, <2>2
        <3> QED BY <3>1
    <2> QED BY <1>1, <2>1, <2>3, <2>4 DEF Ended
<1> QED BY <1>1, <1>2, <1>3
-----------------------------------------------------------------------------
(* The three methods the loop calls on a served request's stream.          *)
LEMMA StreamCreate ==
    ASSUME StreamInv, NEW r \in Requests, create(r), r \notin Served,
           consumer' = [consumer EXCEPT ![r] = IF r \in Streaming THEN "starting" ELSE "reading"],
           Served' = Served \cup {r}
    PROVE  StreamInv'
<1> DEFINE fresh == [queue |-> <<>>, held |-> <<>>, cancelled |-> FALSE]
<1>1. /\ DOMAIN streams' = DOMAIN streams \cup {r}
      /\ streams'[r] = fresh
      /\ \A q \in DOMAIN streams \ {r} : streams'[q] = streams[q]
      /\ streams' = [q \in DOMAIN streams' |-> streams'[q]]
    BY DEF create, With
<1>2. /\ consumer' \in [Requests -> ConsumerStates]
      /\ consumer'[r] \in {"starting", "reading"}
      /\ \A q \in Requests \ {r} : consumer'[q] = consumer[q]
    BY DEF StreamInv, ConsumerStates
<1>3. fresh \in Stream /\ fresh.queue \in Seq(Token) /\ fresh.cancelled = FALSE
    BY DEF Stream
<1>4. StreamOk(r)'
    BY <1>1, <1>2, <1>3 DEF StreamOk
<1> QED BY <1>1, <1>2, <1>4, StreamLocal DEF StreamInv

LEMMA StreamPush ==
    ASSUME StreamInv, NEW r \in Served, NEW token \in Token, push_token(r, token),
           UNCHANGED consumer, Served' = Served, r \in Requests
    PROVE  StreamInv'
<1>1. CASE r \notin DOMAIN streams
    BY <1>1, StreamUnchanged DEF push_token
<1>2. CASE r \in DOMAIN streams
    <2>1. StreamOk(r)
        BY DEF StreamInv
    <2> DEFINE s == streams[r]
    <2>2. /\ s \in Stream /\ s.queue \in Seq(Token) /\ s.held \in Seq(Token)
          /\ s.cancelled => consumer[r] = "leaving"
        BY <1>2, <2>1 DEF StreamOk, Stream
    <2>3. /\ s.queue \o Append(s.held, token) \in Seq(Token)
          /\ Append(s.held, token) \in Seq(Token)
        BY <2>2, PushedQueue
    <2>4. /\ DOMAIN streams' = DOMAIN streams
          /\ \A q \in DOMAIN streams \ {r} : streams'[q] = streams[q]
          /\ streams' = [q \in DOMAIN streams' |-> streams'[q]]
          /\ \/ streams'[r] = [s EXCEPT !.queue = @ \o Append(s.held, token), !.held = <<>>]
             \/ streams'[r] = [s EXCEPT !.held = Append(@, token)]
        BY <1>2 DEF push_token, StreamInv
    <2>5. streams'[r] \in Stream /\ streams'[r].queue \in Seq(Token)
          /\ streams'[r].cancelled = s.cancelled
        <3> DEFINE all == s.queue \o Append(s.held, token)
                   more == Append(s.held, token)
        <3>1. s \in Stream
            BY <2>2
        <3>2. <<>> \in Seq(Token)
            OBVIOUS
        <3>3. all \in Seq(Token \cup {END}) /\ all \in Seq(Token)
            BY <2>3
        <3>4. more \in Seq(Token)
            BY <2>3
        <3>5. \/ streams'[r] = [s EXCEPT !.queue = all, !.held = <<>>]
              \/ streams'[r] = [s EXCEPT !.held = more]
            BY <2>4, Zenon
        <3>6. s.queue \in Seq(Token)
            BY <2>2
        <3> HIDE DEF s, all, more
        <3>7. CASE streams'[r] = [s EXCEPT !.queue = all, !.held = <<>>]
            <4>1. /\ [s EXCEPT !.queue = all, !.held = <<>>] \in Stream
                  /\ [s EXCEPT !.queue = all, !.held = <<>>].queue = all
                  /\ [s EXCEPT !.queue = all, !.held = <<>>].cancelled = s.cancelled
                BY <3>1, <3>2, <3>3, StreamFlushed, Zenon
            <4> QED BY <3>3, <3>7, <4>1, Zenon
        <3>8. CASE streams'[r] = [s EXCEPT !.held = more]
            BY <3>1, <3>4, <3>6, <3>8, StreamHeld
        <3> QED BY <3>5, <3>7, <3>8, Zenon
    <2>6. StreamOk(r)'
        BY <1>2, <2>1, <2>2, <2>4, <2>5 DEF StreamOk
    <2> QED BY <2>4, <2>6, StreamLocal DEF StreamInv
<1> QED BY <1>1, <1>2

LEMMA StreamClose ==
    ASSUME StreamInv, NEW r \in Served, r \in Requests, close(r),
           UNCHANGED consumer, Served' = Served \ {r}
    PROVE  StreamInv'
<1>1. StreamOk(r)
    BY DEF StreamInv
<1>2. CASE r \notin DOMAIN streams
    <2>1. UNCHANGED streams
        BY <1>2 DEF close
    <2>2. StreamOk(r)'
        BY <1>1, <1>2, <2>1 DEF StreamOk
    <2> QED BY <2>1, <2>2, StreamLocal DEF StreamInv
<1>3. CASE r \in DOMAIN streams
    <2> DEFINE s == streams[r]
               all == s.queue \o Append(s.held, END)
    <2>1. s \in Stream /\ s.queue \in Seq(Token \cup {END}) /\ s.held \in Seq(Token)
        BY <1>1, <1>3 DEF StreamOk, Stream
    <2>2. all \in Seq(Token \cup {END}) /\ Ended(all)
        BY <2>1, ClosedQueue
    <2>3. /\ DOMAIN streams' = DOMAIN streams
          /\ \A q \in DOMAIN streams \ {r} : streams'[q] = streams[q]
          /\ streams' = [q \in DOMAIN streams' |-> streams'[q]]
          /\ streams'[r] = [s EXCEPT !.queue = all, !.held = <<>>]
        BY <1>3 DEF close, StreamInv
    <2> HIDE DEF all
    <2>4. streams'[r] \in Stream /\ streams'[r].queue = all /\ streams'[r].cancelled = s.cancelled
        <3>1. s \in Stream
            BY <2>1
        <3>2. <<>> \in Seq(Token)
            OBVIOUS
        <3>3. all \in Seq(Token \cup {END})
            BY <2>2
        <3>4. streams'[r] = [s EXCEPT !.queue = all, !.held = <<>>]
            BY <2>3, Zenon
        <3> HIDE DEF s
        <3>5. /\ [s EXCEPT !.queue = all, !.held = <<>>] \in Stream
              /\ [s EXCEPT !.queue = all, !.held = <<>>].queue = all
              /\ [s EXCEPT !.queue = all, !.held = <<>>].cancelled = s.cancelled
            BY <3>1, <3>2, <3>3, StreamFlushed, Zenon
        <3> QED BY <3>4, <3>5, Zenon
    <2>5. StreamOk(r)'
        BY <1>1, <1>3, <2>2, <2>3, <2>4 DEF StreamOk
    <2> QED BY <2>3, <2>5, StreamLocal DEF StreamInv
<1> QED BY <1>2, <1>3
(* A step that changes or forgets the stream of r and moves its reader.    *)
LEMMA StreamForget ==
    ASSUME StreamInv, NEW r \in Requests, NEW now \in ConsumerStates,
           streams' = Without(streams, r), consumer' = [consumer EXCEPT ![r] = now],
           Served' = Served,
           now \notin {"starting", "reading", "leaving"},
           r \in Served => now = "gone",
           now = "gone" => r \in Streaming
    PROVE  StreamInv'
<1>1. /\ DOMAIN streams' = DOMAIN streams \ {r}
      /\ \A q \in DOMAIN streams' : streams'[q] = streams[q]
      /\ streams' = [q \in DOMAIN streams' |-> streams'[q]]
    BY DEF Without
<1>2. /\ consumer' \in [Requests -> ConsumerStates]
      /\ consumer'[r] = now
      /\ \A q \in Requests \ {r} : consumer'[q] = consumer[q]
    BY DEF StreamInv
<1>3. StreamOk(r)'
    BY <1>1, <1>2 DEF StreamOk
<1> QED BY <1>1, <1>2, <1>3, StreamLocal DEF StreamInv

(* The reader of a stream and its client.                                  *)
LEMMA StreamConsumer ==
    ASSUME StreamInv, NEW r \in Requests, ConsumerStep(r) \/ ClientStep(r), Served' = Served
    PROVE  StreamInv'
<1>1. StreamOk(r) /\ consumer \in [Requests -> ConsumerStates]
    BY DEF StreamInv
<1>2. CASE Start(r)
    <2>1. /\ UNCHANGED streams /\ consumer[r] = "starting"
          /\ consumer' = [consumer EXCEPT ![r] = "reading"]
        BY <1>2 DEF Start
    <2>2. /\ consumer' \in [Requests -> ConsumerStates] /\ consumer'[r] = "reading"
          /\ \A q \in Requests \ {r} : consumer'[q] = consumer[q]
        BY <1>1, <2>1 DEF ConsumerStates
    <2>3. StreamOk(r)'
        BY <1>1, <2>1, <2>2 DEF StreamOk
    <2> QED BY <2>1, <2>2, <2>3, StreamLocal DEF StreamInv
<1>3. CASE ReceiveText(r) \/ SeeDisconnect(r)
    <2> DEFINE s == streams[r]
               rest == Tail(s.queue)
    <2>1. /\ consumer[r] = "reading" /\ r \in DOMAIN streams
          /\ s \in Stream /\ s.queue \in Seq(Token \cup {END})
          /\ s.queue # <<>> /\ Head(s.queue) # END
          /\ s.cancelled = FALSE
        BY <1>1, <1>3 DEF ReceiveText, SeeDisconnect, StreamOk, Stream
    <2>2. /\ rest \in Seq(Token \cup {END})
          /\ s.queue \in Seq(Token) => rest \in Seq(Token)
          /\ Ended(s.queue) => Ended(rest)
        BY <2>1, ReadQueue
    <2>3. CASE ReceiveText(r)
        <3>1. /\ DOMAIN streams' = DOMAIN streams
              /\ \A q \in DOMAIN streams \ {r} : streams'[q] = streams[q]
              /\ streams' = [q \in DOMAIN streams' |-> streams'[q]]
              /\ streams'[r] = [s EXCEPT !.queue = rest]
              /\ UNCHANGED consumer
            BY <2>1, <2>3 DEF ReceiveText, StreamInv
        <3>2. streams'[r] \in Stream /\ streams'[r].queue = rest /\ streams'[r].cancelled = FALSE
            <4>1. s \in Stream /\ rest \in Seq(Token \cup {END})
                BY <2>1, <2>2
            <4>2. streams'[r] = [s EXCEPT !.queue = rest] /\ s.cancelled = FALSE
                BY <2>1, <3>1
            <4> HIDE DEF s, rest
            <4> QED BY <4>1, <4>2, StreamRead
        <3>3. StreamOk(r)'
            BY <1>1, <2>1, <2>2, <3>1, <3>2 DEF StreamOk
        <3> QED BY <1>1, <3>1, <3>3, StreamLocal DEF StreamInv
    <2>4. CASE SeeDisconnect(r)
        <3>1. /\ DOMAIN streams' = DOMAIN streams
              /\ \A q \in DOMAIN streams \ {r} : streams'[q] = streams[q]
              /\ streams' = [q \in DOMAIN streams' |-> streams'[q]]
              /\ r \in Streaming
            BY <2>1, <2>4 DEF SeeDisconnect, StreamInv
        <3>2. streams'[r] \in Stream /\ streams'[r].queue = rest
            <4>1. s \in Stream
                BY <2>1
            <4>2. rest \in Seq(Token \cup {END})
                BY <2>2
            <4>3. streams'[r] = [s EXCEPT !.queue = rest, !.cancelled = TRUE]
                BY <2>1, <2>4 DEF SeeDisconnect, StreamInv
            <4> HIDE DEF s, rest
            <4>4. /\ [s EXCEPT !.queue = rest, !.cancelled = TRUE] \in Stream
                  /\ [s EXCEPT !.queue = rest, !.cancelled = TRUE].queue = rest
                BY <4>1, <4>2, StreamCancelled, Zenon
            <4> QED BY <4>3, <4>4, Zenon
        <3>3. /\ consumer' \in [Requests -> ConsumerStates] /\ consumer'[r] = "leaving"
              /\ \A q \in Requests \ {r} : consumer'[q] = consumer[q]
            BY <1>1, <2>4 DEF SeeDisconnect, ConsumerStates
        <3>4. StreamOk(r)'
            BY <1>1, <2>1, <2>2, <3>1, <3>2, <3>3 DEF StreamOk
        <3> QED BY <1>1, <3>1, <3>3, <3>4, StreamLocal DEF StreamInv
    <2> QED BY <1>3, <2>3, <2>4
<1>4. CASE ReceiveEnd(r)
    <2>1. /\ consumer[r] = "reading" /\ r \in DOMAIN streams
          /\ streams[r].queue # <<>> /\ Head(streams[r].queue) = END
          /\ streams' = Without(streams, r) /\ consumer' = [consumer EXCEPT ![r] = "done"]
        BY <1>1, <1>4 DEF ReceiveEnd, StreamOk
    <2>2. r \notin Served
        <3>1. ASSUME streams[r].queue \in Seq(Token)
              PROVE  FALSE
            <4>1. Head(streams[r].queue) \in Token
                BY <2>1, <3>1
            <4> QED BY <2>1, <4>1, LoopAssumption
        <3> QED BY <1>1, <2>1, <3>1 DEF StreamOk
    <2> QED BY <2>1, <2>2, StreamForget DEF ConsumerStates
<1>5. CASE Finalize(r)
    <2>1. /\ r \in Streaming
          /\ streams' = Without(streams, r) /\ consumer' = [consumer EXCEPT ![r] = "gone"]
        BY <1>1, <1>5 DEF Finalize, StreamOk
    <2> QED BY <2>1, StreamForget DEF ConsumerStates
<1>6. CASE Disconnect(r)
    BY <1>6, StreamUnchanged DEF Disconnect
<1>7. CASE CancelTask(r)
    <2>1. /\ consumer[r] \in {"starting", "reading"} /\ r \in Streaming
          /\ streams' = IF consumer[r] = "reading" THEN Without(streams, r) ELSE streams
          /\ consumer' = [consumer EXCEPT ![r] = "gone"]
        BY <1>7 DEF CancelTask
    <2>2. CASE consumer[r] = "reading"
        BY <2>1, <2>2, StreamForget DEF ConsumerStates
    <2>3. CASE consumer[r] = "starting"
        <3>1. /\ consumer' \in [Requests -> ConsumerStates] /\ consumer'[r] = "gone"
              /\ \A q \in Requests \ {r} : consumer'[q] = consumer[q]
              /\ UNCHANGED streams
            BY <1>1, <2>1, <2>3 DEF ConsumerStates
        <3>2. StreamOk(r)'
            BY <1>1, <2>1, <2>3, <3>1 DEF StreamOk
        <3> QED BY <3>1, <3>2, StreamLocal DEF StreamInv
    <2> QED BY <2>1, <2>2, <2>3
<1>8. CASE CancelSend(r)
    <2>1. /\ consumer[r] = "reading" /\ r \in Streaming
          /\ consumer' = [consumer EXCEPT ![r] = "leaving"] /\ UNCHANGED streams
        BY <1>8 DEF CancelSend
    <2>2. /\ consumer' \in [Requests -> ConsumerStates] /\ consumer'[r] = "leaving"
          /\ \A q \in Requests \ {r} : consumer'[q] = consumer[q]
        BY <1>1, <2>1 DEF ConsumerStates
    <2>3. StreamOk(r)'
        BY <1>1, <2>1, <2>2 DEF StreamOk
    <2> QED BY <2>1, <2>2, <2>3, StreamLocal DEF StreamInv
<1> QED BY <1>2, <1>3, <1>4, <1>5, <1>6, <1>7, <1>8 DEF ConsumerStep, ClientStep

(* Handlers, consumers and time.                                           *)
LEMMA StreamHandlers ==
    ASSUME BooksInv, StreamInv, NEW r \in Requests,
           generate(r) \/ Consume(r) \/ Client(r) \/ Age(r)
    PROVE  StreamInv'
<1>1. active' = active
    BY DEF generate, Consume, Client, Age, seqvars, active
<1>2. CASE generate(r)
    <2>1. r \notin Served
        BY <1>2 DEF generate, StreamInv, StreamOk
    <2>2. CASE Accept(r)
        <3>1. /\ create(r) /\ waiting' = waiting \cup {r}
              /\ consumer' = [consumer EXCEPT ![r] =
                                IF r \in Streaming THEN "starting" ELSE "reading"]
            BY <2>2 DEF Accept, push
        <3>2. Served' = Served \cup {r}
            BY <1>1, <3>1 DEF Served
        <3> QED BY <2>1, <3>1, <3>2, StreamCreate
    <2>3. CASE Reject(r)
        <3>1. /\ UNCHANGED <<streams, waiting>> /\ consumer[r] = "none"
              /\ consumer' = [consumer EXCEPT ![r] = "rejected"]
            BY <1>2, <2>3 DEF generate, Reject
        <3>2. Served' = Served
            BY <1>1, <3>1 DEF Served
        <3>3. /\ consumer' \in [Requests -> ConsumerStates] /\ consumer'[r] = "rejected"
              /\ \A q \in Requests \ {r} : consumer'[q] = consumer[q]
            BY <3>1 DEF StreamInv, ConsumerStates
        <3>4. StreamOk(r)'
            <4>1. StreamOk(r)
                BY DEF StreamInv
            <4> QED BY <2>1, <3>1, <3>2, <3>3, <4>1 DEF StreamOk
        <3> QED BY <3>1, <3>2, <3>3, <3>4, StreamLocal DEF StreamInv
    <2> QED BY <1>2, <2>2, <2>3 DEF generate
<1>3. CASE Consume(r) \/ Client(r)
    <2>1. Served' = Served /\ (ConsumerStep(r) \/ ClientStep(r))
        BY <1>1, <1>3 DEF Consume, Client, queuevars, Served
    <2> QED BY <2>1, StreamConsumer
<1>4. CASE Age(r)
    <2>1. Served' = Served /\ UNCHANGED <<streams, consumer>>
        BY <1>1, <1>4 DEF Age, streamvars, Served
    <2> QED BY <2>1, StreamUnchanged
<1> QED BY <1>2, <1>3, <1>4

(* Leaving the batch tells the reader.                                     *)
LEMMA StreamGiveBack ==
    ASSUME BooksInv, StreamInv, NEW r \in active, GiveBack(r), UNCHANGED <<waiting, consumer>>
    PROVE  StreamInv'
<1>1. active' = active \ {r} /\ r \in Requests /\ r \notin waiting
    BY GiveBackBooks DEF BooksInv, ReservationsExact, active
<1>2. Served' = Served \ {r} /\ r \in Served
    BY <1>1 DEF Served
<1> QED BY <1>1, <1>2, StreamClose DEF GiveBack

LEMMA StreamLoop ==
    ASSUME LoopInv, StreamInv, LoopStep
    PROVE  StreamInv'
<1> BooksInv
    BY DEF LoopInv, CoreInv
<1>1. CASE GoIdle \/ Wake \/ Select \/ Build \/ Yield \/ FailDone \/ SampleDone
           \/ Decode \/ DecodeFails
    <2>1. UNCHANGED <<streams, consumer, waiting, slot>>
        BY <1>1 DEF GoIdle, Wake, Select, Build, Yield, FailDone, SampleDone, Decode,
                    DecodeFails, streamvars, queuevars, seqvars
    <2>2. Served' = Served
        BY <2>1 DEF Served, active
    <2> QED BY <2>1, <2>2, StreamUnchanged
<1>2. ASSUME NEW r \in Requests, ExpireWaiter(r)
      PROVE  StreamInv'
    <2>1. /\ r \in waiting /\ waiting' = waiting \ {r} /\ close(r)
          /\ UNCHANGED <<consumer, slot>>
        BY <1>2 DEF ExpireWaiter, LeaveQueue, seqvars
    <2>2. Served' = Served \ {r} /\ r \in Served
        BY <2>1 DEF Served, active, BooksInv, ReservationsExact
    <2> QED BY <2>1, <2>2, StreamClose
<1>3. ASSUME NEW r \in Requests, Admit(r)
      PROVE  StreamInv'
    <2>1. /\ r \in waiting /\ waiting' = waiting \ {r} /\ UNCHANGED <<streams, consumer>>
        BY <1>3 DEF Admit, streamvars, LoopInv, PhaseInv
    <2>2. active' = active \cup {r}
        <3>1. Len(free_slots) > 0
            BY <1>3, SlotForSelected
        <3> QED BY <1>3, <2>1, <3>1, AdmitCore DEF LoopInv
    <2>3. Served' = Served
        BY <2>1, <2>2 DEF Served
    <2> QED BY <2>1, <2>3, StreamUnchanged
<1>4. ASSUME NEW r \in Requests, FailOne(r)
      PROVE  StreamInv'
    BY <1>4, StreamGiveBack DEF FailOne, finish, queuevars
<1>5. ASSUME NEW r \in Requests, NEW token \in Sampled, NEW timed_out \in BOOLEAN,
             SampleFinishes(r, token, timed_out)
      PROVE  StreamInv'
    <2>1. /\ <<r, token>> \in sampled /\ GiveBack(r) /\ UNCHANGED <<waiting, consumer>>
        BY <1>5 DEF SampleFinishes, finish, queuevars
    <2>2. r \in active
        BY <2>1 DEF LoopInv, PhaseInv
    <2> QED BY <2>1, <2>2, StreamGiveBack
<1>6. ASSUME NEW r \in Requests, NEW token \in Sampled, SampleEmits(r, token)
      PROVE  StreamInv'
    <2>1. /\ <<r, token>> \in sampled /\ push_token(r, token) /\ token \in Token
          /\ UNCHANGED <<waiting, consumer, slot>>
        BY <1>6, LoopAssumption DEF SampleEmits, queuevars
    <2>2. r \in Served /\ Served' = Served
        BY <2>1 DEF LoopInv, PhaseInv, Served, active
    <2> QED BY <2>1, <2>2, StreamPush
<1> QED BY <1>1, <1>2, <1>3, <1>4, <1>5, <1>6 DEF LoopStep

LEMMA StreamInvariant == Spec => []StreamInv
<1>1. LoopInv /\ StreamInv /\ [Next]_vars => StreamInv'
    <2> SUFFICES ASSUME LoopInv, StreamInv, [Next]_vars PROVE StreamInv'
        OBVIOUS
    <2>1. BooksInv
        BY DEF LoopInv, CoreInv
    <2>2. CASE UNCHANGED vars
        <3>1. UNCHANGED <<streams, consumer>> /\ Served' = Served
            BY <2>2 DEF vars, streamvars, queuevars, seqvars, Served, active
        <3> QED BY <3>1, StreamUnchanged
    <2> QED BY <2>1, <2>2, StreamLoop, StreamHandlers DEF Next
<1> QED BY <1>1, StreamInitInv, LoopInvariant, PTL DEF Spec

(* Nobody waits for a stream that will not be closed: whatever happens to  *)
(* the request (expiry, a failed decode, EOS, the budget, a timeout, a     *)
(* disconnect), _END is the last thing in the queue of a reader that is    *)
(* still there when its request has left the server.                       *)
THEOREM ReadersAreTold == Spec => []NoOrphanReader
<1>1. StreamInv => NoOrphanReader
    BY DEF StreamInv, StreamOk, Ended, Served, NoOrphanReader
<1> QED BY <1>1, StreamInvariant, PTL
-----------------------------------------------------------------------------
(* A request's blocks hold its tokens.                                     *)
LEMMA BlocksCover ==
    ASSUME NEW n \in Nat
    PROVE  n <= blocks_needed(n) * BlockSize
BY BlockAssumption DEF blocks_needed

(* The i-th token of a request lies in a block and at an offset in it.     *)
LEMMA TokenPlace ==
    ASSUME NEW k \in Nat, NEW i \in 1..(k * BlockSize)
    PROVE  /\ (i - 1) \div BlockSize \in Nat /\ (i - 1) % BlockSize \in Nat
           /\ (i - 1) \div BlockSize + 1 \in 1..k
           /\ ((i - 1) % BlockSize) + 1 \in 1..BlockSize
           /\ ((i - 1) \div BlockSize) * BlockSize + ((i - 1) % BlockSize) = i - 1
<1> DEFINE q == (i - 1) \div BlockSize
           m == (i - 1) % BlockSize
<1>1. /\ BlockSize \in Nat /\ BlockSize > 0 /\ k * BlockSize \in Int
      /\ i \in Nat /\ i > 0 /\ i <= k * BlockSize
    BY BlockAssumption
<1>2. q \in Nat /\ m \in 0..(BlockSize - 1) /\ q * BlockSize + m = i - 1
    BY <1>1
<1> HIDE DEF q, m
<1>3. q < k
    <2> SUFFICES ASSUME q >= k PROVE FALSE
        BY <1>2
    <2> DEFINE d == q - k
    <2>1. d \in Nat /\ q = k + d
        BY <1>2
    <2> HIDE DEF d
    <2>2. q * BlockSize = k * BlockSize + d * BlockSize /\ d * BlockSize \in Nat
        BY <1>1, <2>1
    <2> QED BY <1>1, <1>2, <2>2
<1>4. q + 1 \in 1..k /\ m + 1 \in 1..BlockSize
    BY <1>1, <1>2, <1>3
<1> QED BY <1>2, <1>4 DEF q, m

(* Rows that fit the blocks of a table fit them all together.              *)
LEMMA RowsFitBlocks ==
    ASSUME NEW rows, NEW table, IsFiniteSet(Units(table)),
           \A r \in DOMAIN rows :
              /\ rows[r] \in Nat
              /\ rows[r] > 0 => /\ r \in DOMAIN table /\ table[r] \in Nat
                                /\ rows[r] <= table[r] * BlockSize
    PROVE  /\ IsFiniteSet(Units(rows))
           /\ Total(rows) <= Total(table) * BlockSize
<1> DEFINE offsets == 1..BlockSize
           place == [u \in Units(rows) |->
                       <<<<u[1], (u[2] - 1) \div BlockSize + 1>>, ((u[2] - 1) % BlockSize) + 1>>]
<1>1. IsFiniteSet(offsets) /\ Cardinality(offsets) = BlockSize
    <2>1. BlockSize \in Nat /\ BlockSize \in Int /\ 1 \in Int
        BY BlockAssumption
    <2>2. IsFiniteSet(1..BlockSize) /\ Cardinality(1..BlockSize)
              = IF 1 <= BlockSize THEN BlockSize - 1 + 1 ELSE 0
        BY <2>1, FS_Interval
    <2> QED BY <2>1, <2>2, BlockAssumption
<1>2. /\ IsFiniteSet(Units(table) \X offsets)
      /\ Cardinality(Units(table) \X offsets) = Total(table) * BlockSize
    BY <1>1, FS_Product DEF Total
<1>3. ASSUME NEW u \in Units(rows)
      PROVE  /\ u = <<u[1], u[2]>> /\ u[1] \in DOMAIN rows /\ u[2] \in Nat
             /\ place[u] \in Units(table) \X offsets
             /\ (u[2] - 1) \div BlockSize \in Nat /\ (u[2] - 1) % BlockSize \in Nat
             /\ ((u[2] - 1) \div BlockSize) * BlockSize + ((u[2] - 1) % BlockSize) = u[2] - 1
    <2>1. PICK r \in DOMAIN rows : u \in {r} \X (1..rows[r])
        BY DEF Units
    <2>2. u = <<u[1], u[2]>> /\ u[1] = r /\ u[2] \in 1..rows[r] /\ rows[r] \in Nat
        BY <2>1
    <2>3. /\ r \in DOMAIN table /\ table[r] \in Nat
          /\ u[2] \in 1..(table[r] * BlockSize)
        <3>1. rows[r] > 0 /\ u[2] \in Nat /\ u[2] > 0 /\ u[2] <= rows[r]
            BY <2>2
        <3>2. /\ r \in DOMAIN table /\ table[r] \in Nat /\ rows[r] <= table[r] * BlockSize
              /\ table[r] * BlockSize \in Int
            BY <2>1, <3>1, BlockAssumption
        <3> QED BY <2>2, <3>1, <3>2
    <2>4. /\ (u[2] - 1) \div BlockSize \in Nat /\ (u[2] - 1) % BlockSize \in Nat
          /\ (u[2] - 1) \div BlockSize + 1 \in 1..table[r]
          /\ ((u[2] - 1) % BlockSize) + 1 \in 1..BlockSize
          /\ ((u[2] - 1) \div BlockSize) * BlockSize + ((u[2] - 1) % BlockSize) = u[2] - 1
        BY <2>3, TokenPlace
    <2>5. <<u[1], (u[2] - 1) \div BlockSize + 1>> \in Units(table)
        BY <2>2, <2>3, <2>4 DEF Units
    <2> QED BY <2>1, <2>2, <2>4, <2>5
<1>4. place \in Injection(Units(rows), Units(table) \X offsets)
    <2>1. place \in [Units(rows) -> Units(table) \X offsets]
        BY <1>3
    <2>2. ASSUME NEW u \in Units(rows), NEW v \in Units(rows), place[u] = place[v]
          PROVE  u = v
        <3> DEFINE bu == (u[2] - 1) \div BlockSize
                   bv == (v[2] - 1) \div BlockSize
                   ou == (u[2] - 1) % BlockSize
                   ov == (v[2] - 1) % BlockSize
        <3>1. u[1] = v[1] /\ bu + 1 = bv + 1 /\ ou + 1 = ov + 1
            <4>1. place[u] = <<<<u[1], bu + 1>>, ou + 1>> /\ place[v] = <<<<v[1], bv + 1>>, ov + 1>>
                OBVIOUS
            <4> HIDE DEF place, bu, bv, ou, ov
            <4>2. <<<<u[1], bu + 1>>, ou + 1>> = <<<<v[1], bv + 1>>, ov + 1>>
                BY <2>2, <4>1
            <4> QED BY <4>2
        <3>2. /\ bu \in Nat /\ bv \in Nat /\ ou \in Nat /\ ov \in Nat
              /\ u[2] \in Nat /\ v[2] \in Nat
              /\ bu * BlockSize + ou = u[2] - 1
              /\ bv * BlockSize + ov = v[2] - 1
            BY <1>3
        <3> HIDE DEF bu, bv, ou, ov
        <3>3. bu = bv /\ ou = ov
            BY <3>1, <3>2
        <3>4. u[2] = v[2]
            BY <3>2, <3>3
        <3> QED BY <3>1, <3>4, <1>3
    <2> QED BY <2>1, <2>2 DEF Injection, IsInjective
<1> QED BY <1>2, <1>4, FS_Injection DEF Total
-----------------------------------------------------------------------------
(* What a request has reserved, what it has produced and may still produce,*)
(* and where it stands in its text.                                        *)
RoomInv ==
    /\ \A r \in Served : block_table[r] = blocks_needed(worst_case_tokens(r))
    /\ \A r \in active : /\ Len(context[r]) + remaining[r] = worst_case_tokens(r)
                         /\ n_past[r] + Len(pending[r]) = Len(context[r])
    /\ \A r \in Requests \ active : n_past[r] = 0

(* An active request has something to feed, or a sampled token that is yet *)
(* to be handled; and a prepared batch has a full slice of everyone.       *)
AdvanceInv ==
    /\ pc # "failed" =>
          \A r \in active : pending[r] # <<>> \/ \E token \in Sampled : <<r, token>> \in sampled
    /\ EveryActiveAdvances

LEMMA RoomInit == Init => RoomInv /\ AdvanceInv
<1> SUFFICES ASSUME Init PROVE RoomInv /\ AdvanceInv
    OBVIOUS
<1>1. active = {} /\ Served = {} /\ n_past = [r \in Requests |-> 0] /\ pc = "top"
    BY DEF Init, active, Served
<1> QED BY <1>1 DEF RoomInv, AdvanceInv, EveryActiveAdvances

(* No row of tokens the loop knows of is longer than the context, taken    *)
(* over all requests.                                                      *)
LEMMA RowsFitContext ==
    ASSUME TypeInv, RoomInv, NEW rows \in [Requests -> Nat],
           \A r \in active : rows[r] <= Len(context[r]),
           \A r \in Requests \ active : rows[r] = 0
    PROVE  IsFiniteSet(Units(rows)) /\ Total(rows) <= TotalTokens
<1>1. /\ IsFiniteSet(Units(block_table)) /\ block_table \in [DOMAIN block_table -> Nat]
      /\ DOMAIN block_table = Served /\ free_blocks \in Nat
      /\ free_blocks + Total(block_table) = total_blocks
    BY BlockAssumption, KVAssumption
    DEF TypeInv, CellLoopInv, LoopInv, CoreInv, BooksInv, KVInv, KVTypeOK, Ledger,
        ReservationsExact, Served, total_blocks
<1>2. ASSUME NEW r \in Requests, rows[r] > 0
      PROVE  /\ r \in DOMAIN block_table /\ block_table[r] \in Nat
             /\ rows[r] <= block_table[r] * BlockSize
    <2>1. r \in active /\ rows[r] <= Len(context[r])
        BY <1>2
    <2>2. /\ Len(context[r]) \in Nat /\ remaining[r] \in Nat
          /\ Len(context[r]) + remaining[r] = worst_case_tokens(r)
        BY <2>1 DEF RoomInv, TypeInv, CellLoopInv, CellInv, CellTypeOK, RestTypeOK
    <2>3. worst_case_tokens(r) \in Nat /\ rows[r] <= worst_case_tokens(r)
        BY <2>1, <2>2
    <2>4. block_table[r] = blocks_needed(worst_case_tokens(r)) /\ r \in DOMAIN block_table
        BY <1>1, <2>1 DEF RoomInv, Served
    <2>5. worst_case_tokens(r) <= block_table[r] * BlockSize
        BY <2>3, <2>4, BlocksCover
    <2>6. block_table[r] \in Nat /\ block_table[r] * BlockSize \in Nat
        BY <1>1, <2>4, BlockAssumption
    <2> QED BY <2>3, <2>4, <2>5, <2>6
<1>3. IsFiniteSet(Units(rows)) /\ Total(rows) <= Total(block_table) * BlockSize
    BY <1>1, <1>2, RowsFitBlocks
<1>4. Total(block_table) * BlockSize <= TotalTokens
    <2>1. Total(block_table) \in Nat /\ BlockSize \in Nat /\ total_blocks \in Nat
        BY <1>1, FS_CardinalityType, BlockAssumption, KVAssumption DEF Total, total_blocks
    <2> DEFINE d == total_blocks - Total(block_table)
    <2>2. d \in Nat /\ total_blocks = Total(block_table) + d
        BY <1>1, <2>1
    <2> HIDE DEF d
    <2>3. total_blocks * BlockSize = Total(block_table) * BlockSize + d * BlockSize
          /\ d * BlockSize \in Nat /\ Total(block_table) * BlockSize \in Nat
        BY <2>1, <2>2
    <2>4. total_blocks * BlockSize <= TotalTokens /\ total_blocks * BlockSize \in Nat
        BY BlockAssumption, KVAssumption DEF total_blocks
    <2> QED BY <2>3, <2>4, KVAssumption
<1>5. Total(rows) \in Nat /\ Total(block_table) * BlockSize \in Nat
    BY <1>1, <1>3, FS_CardinalityType, BlockAssumption DEF Total
<1> QED BY <1>3, <1>4, <1>5, KVAssumption

(* match_for_reuse leaves at least one token of a prompt to decode.        *)
LEMMA ReuseLeavesOne ==
    ASSUME NEW tokens \in Seq(Token), tokens # <<>>, NEW n \in Nat, n > 0, NEW donor,
           MatchesForReuse(tokens, Hit(n, donor))
    PROVE  n < Len(tokens)
<1>1. usable(Len(tokens)) > 0 /\ n <= usable(Len(tokens)) /\ Len(tokens) \in Nat
    <2>1. Hit(n, donor).n_tokens = n /\ Hit(n, donor) # Miss
        BY DEF Hit, Miss
    <2>2. usable(Len(tokens)) \in Int
        BY BlockAssumption DEF usable, WholeBlocks
    <2> QED BY <2>1, <2>2 DEF MatchesForReuse
<1>2. Len(tokens) - 1 \in Nat
    OBVIOUS
<1>3. usable(Len(tokens)) \in 0..(Len(tokens) - 1)
    BY <1>2, WholeBlocksBound DEF usable
<1> QED BY <1>1, <1>2, <1>3

(* admit(): whatever is reused, something is left pending.                 *)
LEMMA AdmitLeavesOne ==
    ASSUME TypeInv, NEW r \in Requests, Admit(r)
    PROVE  \E reused \in Nat :
              /\ reused < Len(Prompt[r])
              /\ n_past' = [n_past EXCEPT ![r] = reused]
              /\ pending' = [pending EXCEPT ![r] = SubSeq(Prompt[r], reused + 1, Len(Prompt[r]))]
<1>1. Prompt[r] \in Seq(Token) /\ Prompt[r] # <<>> /\ Len(Prompt[r]) \in Nat /\ Len(Prompt[r]) > 0
    BY LoopAssumption
<1> DEFINE s == free_slots[Len(free_slots)]
<1>2. CASE PrefixCacheEnabled
    <2>1. PICK n \in 0..Len(Prompt[r]), donor \in SeqIds \cup {NoSeq} :
             /\ MatchesForReuse(Prompt[r], Hit(n, donor))
             /\ n_past' = [n_past EXCEPT ![r] = Reused(Hit(n, donor), s)]
             /\ pending' = [pending EXCEPT ![r] =
                   SubSeq(Prompt[r], Reused(Hit(n, donor), s) + 1, Len(Prompt[r]))]
        BY <1>2 DEF Admit
    <2>2. \/ Reused(Hit(n, donor), s) = 0
          \/ Reused(Hit(n, donor), s) = n /\ n > 0
        BY DEF Reused, Hit
    <2>3. Reused(Hit(n, donor), s) \in Nat /\ Reused(Hit(n, donor), s) < Len(Prompt[r])
        BY <1>1, <2>1, <2>2, ReuseLeavesOne
    <2> QED BY <2>1, <2>3
<1>3. CASE ~PrefixCacheEnabled
    <2>1. n_past' = [n_past EXCEPT ![r] = 0] /\ pending' = [pending EXCEPT ![r] = Prompt[r]]
        BY <1>3 DEF Admit
    <2>2. SubSeq(Prompt[r], 0 + 1, Len(Prompt[r])) = Prompt[r]
        BY <1>1
    <2> QED BY <1>1, <2>1, <2>2
<1> QED BY <1>2, <1>3

-----------------------------------------------------------------------------
(* What the proofs below take from the type invariant.                     *)
LEMMA ServiceTypes ==
    ASSUME TypeInv
    PROVE  /\ slot \in [Requests -> SeqIds \cup {NoSeq}] /\ active \subseteq Requests
           /\ pending \in [Requests -> Seq(Token)] /\ context \in [Requests -> Seq(Token)]
           /\ n_past \in [Requests -> Nat] /\ remaining \in [Requests -> Nat]
           /\ take \in [Requests -> Nat]
           /\ waiting \subseteq Requests /\ waiting \cap active = {}
           /\ block_table \in [DOMAIN block_table -> Nat] /\ DOMAIN block_table = Served
           /\ LoopInv
BY DEF TypeInv, CellLoopInv, LoopInv, CoreInv, BooksInv, CoreTypeOK, CellInv, CellTypeOK,
       RestTypeOK, KVInv, KVTypeOK, ReservationsExact, Served, active

(* A request leaves: its entries are reset, those of the others stay.      *)
LEMMA GiveBackRoom ==
    ASSUME TypeInv, RoomInv, NEW r \in active, GiveBack(r), UNCHANGED waiting
    PROVE  /\ RoomInv'
           /\ active' = active \ {r}
           /\ \A q \in active' : pending'[q] = pending[q]
<1> r \in Requests /\ BooksInv
    BY ServiceTypes DEF LoopInv, CoreInv
<1>1. active' = active \ {r} /\ r \notin waiting /\ Served' = Served \ {r}
    BY GiveBackBooks, ServiceTypes DEF Served
<1>2. /\ pending' = [pending EXCEPT ![r] = <<>>] /\ n_past' = [n_past EXCEPT ![r] = 0]
      /\ remaining' = [remaining EXCEPT ![r] = 0] /\ context' = [context EXCEPT ![r] = <<>>]
    BY DEF GiveBack, LeaveBatch
<1>3. \A q \in Served' : block_table'[q] = block_table[q]
    BY <1>1, ServiceTypes DEF GiveBack, Release, Without, kvvars
<1>4. \A q \in Requests \ {r} : /\ pending'[q] = pending[q] /\ n_past'[q] = n_past[q]
                                /\ remaining'[q] = remaining[q] /\ context'[q] = context[q]
    BY <1>2, ServiceTypes
<1>5. n_past'[r] = 0
    BY <1>2, ServiceTypes
<1>6. RoomInv'
    <2>1. \A q \in Served' : block_table'[q] = blocks_needed(worst_case_tokens(q))
        BY <1>1, <1>3 DEF RoomInv
    <2>2. \A q \in active' : /\ Len(context'[q]) + remaining'[q] = worst_case_tokens(q)
                             /\ n_past'[q] + Len(pending'[q]) = Len(context'[q])
        BY <1>1, <1>4, ServiceTypes DEF RoomInv
    <2>3. \A q \in Requests \ active' : n_past'[q] = 0
        BY <1>1, <1>4, <1>5 DEF RoomInv
    <2> QED BY <2>1, <2>2, <2>3 DEF RoomInv
<1> QED BY <1>1, <1>4, <1>6, ServiceTypes

LEMMA RoomUnchanged ==
    ASSUME RoomInv, UNCHANGED <<block_table, waiting, slot, context, remaining, n_past, pending>>
    PROVE  RoomInv' /\ active' = active
BY DEF RoomInv, Served, active

LEMMA AdvanceUnchanged ==
    ASSUME AdvanceInv, UNCHANGED <<pc, slot, pending, sampled, take>>
    PROVE  AdvanceInv'
BY DEF AdvanceInv, EveryActiveAdvances, active

(* generate(), the consumers and time.                                     *)
LEMMA HandlersRoom ==
    ASSUME TypeInv, RoomInv, AdvanceInv, NEW r \in Requests,
           generate(r) \/ Consume(r) \/ Client(r) \/ Age(r)
    PROVE  RoomInv' /\ AdvanceInv'
<1>1. AdvanceInv' /\ active' = active
      /\ UNCHANGED <<slot, context, remaining, n_past, pending>>
    BY AdvanceUnchanged DEF generate, Consume, Client, Age, seqvars, batchvars, active
<1>2. CASE generate(r) /\ Accept(r)
    <2>1. /\ block_table' = With(block_table, r, blocks_needed(worst_case_tokens(r)))
          /\ waiting' = waiting \cup {r} /\ r \notin Served
        BY <1>2, ServiceTypes DEF Accept, Reserve, push
    <2>2. Served' = Served \cup {r}
        BY <1>1, <2>1 DEF Served
    <2>3. \A q \in Served' : block_table'[q] = blocks_needed(worst_case_tokens(q))
        BY <2>1, <2>2, ServiceTypes DEF With, RoomInv
    <2> QED BY <1>1, <2>3 DEF RoomInv
<1>3. CASE ~(generate(r) /\ Accept(r))
    <2>1. UNCHANGED <<block_table, waiting>>
        BY <1>3 DEF generate, Reject, ReserveRefused, Consume, Client, Age, kvvars, queuevars
    <2> QED BY <1>1, <2>1, RoomUnchanged
<1> QED BY <1>1, <1>2, <1>3

(* build_batch: nobody is squeezed out, because all that is pending fits.  *)
LEMMA BuildAdvances ==
    ASSUME TypeInv, RoomInv, AdvanceInv, Build
    PROVE  AdvanceInv'
<1>1. /\ pc = "admit" /\ sampled = {} /\ UNCHANGED <<slot, pending, sampled>>
      /\ active' = active /\ pc' # "failed"
    BY ServiceTypes DEF Build, seqvars, LoopInv, PhaseInv, active
<1>2. PICK rows \in [Requests -> 0..ChunkSize] : IsPrepared(Backlog, rows) /\ take' = rows
    BY DEF Build
<1>3. \A r \in active : pending[r] # <<>>
    BY <1>1 DEF AdvanceInv
<1>4. Backlog \in [Requests -> Nat] /\ \A r \in Requests : Backlog[r] = Len(pending[r])
    BY ServiceTypes DEF Backlog
<1>5. IsFiniteSet(Units(Backlog)) /\ Total(Backlog) <= TotalTokens
    <2>1. ASSUME NEW r \in active
          PROVE  Backlog[r] <= Len(context[r])
        <3>1. /\ r \in Requests /\ n_past[r] \in Nat /\ Backlog[r] = Len(pending[r])
              /\ Backlog[r] \in Nat /\ n_past[r] + Len(pending[r]) = Len(context[r])
            BY <1>4, ServiceTypes DEF RoomInv
        <3> QED BY <3>1
    <2>2. \A r \in Requests \ active : Backlog[r] = 0
        BY <1>4 DEF TypeInv, CellLoopInv, CellInv
    <2> QED BY <1>4, <2>1, <2>2, RowsFitContext
<1>6. ASSUME NEW r \in Requests
      PROVE  rows[r] \in Nat /\ rows[r] <= Slice(Backlog[r]) /\ Slice(Backlog[r]) <= Backlog[r]
             /\ Slice(Backlog[r]) \in Nat
    <2>1. rows[r] \in 0..Slice(Backlog[r])
        BY <1>2 DEF IsPrepared
    <2> QED BY <1>2, <1>4, <2>1, BatchAssumption DEF Slice
<1>7. ASSUME NEW r \in Requests
      PROVE  rows[r] = Slice(Backlog[r])
    <2> SUFFICES ASSUME rows[r] < Slice(Backlog[r]) PROVE FALSE
        BY <1>6
    <2>1. Total(rows) = BatchCapacity
        BY <1>2 DEF IsPrepared
    <2>2. Units(rows) \subseteq Units(Backlog)
        <3>1. ASSUME NEW u \in Units(rows)
              PROVE  u \in Units(Backlog)
            <4>1. PICK q \in Requests : u \in {q} \X (1..rows[q])
                BY <1>2, <3>1 DEF Units
            <4>2. u \in {q} \X (1..Backlog[q])
                BY <1>4, <1>6, <4>1
            <4> QED BY <1>4, <4>1, <4>2 DEF Units
        <3> QED BY <3>1
    <2>3. <<r, Backlog[r]>> \in Units(Backlog) /\ <<r, Backlog[r]>> \notin Units(rows)
        <3>1. Backlog[r] > 0 /\ Backlog[r] > rows[r] /\ Backlog[r] \in Nat
            BY <1>4, <1>6
        <3>2. <<r, Backlog[r]>> \in {r} \X (1..Backlog[r])
            BY <3>1
        <3>3. ASSUME <<r, Backlog[r]>> \in Units(rows)
              PROVE  FALSE
            <4>1. PICK q \in Requests : <<r, Backlog[r]>> \in {q} \X (1..rows[q])
                BY <1>2, <3>3 DEF Units
            <4>2. q = r /\ Backlog[r] \in 1..rows[r]
                BY <4>1
            <4> QED BY <1>6, <3>1, <4>2
        <3> QED BY <1>4, <3>2, <3>3 DEF Units
    <2>4. /\ Total(rows) \in Nat /\ Total(Backlog) \in Nat
          /\ Total(rows) <= Total(Backlog) /\ Total(rows) # Total(Backlog)
        BY <1>5, <2>2, <2>3, FS_Subset, FS_CardinalityType DEF Total
    <2> QED BY <1>5, <2>1, <2>4, LoopAssumption, KVAssumption
<1>8. ASSUME NEW r \in active
      PROVE  rows[r] > 0 /\ rows[r] = Slice(Len(pending[r]))
    <2>1. r \in Requests /\ pending[r] \in Seq(Token) /\ pending[r] # <<>>
        BY <1>3, ServiceTypes
    <2>2. Len(pending[r]) \in Nat /\ Len(pending[r]) > 0
        BY <2>1
    <2> QED BY <1>4, <1>7, <2>1, <2>2, BatchAssumption DEF Slice
<1> QED BY <1>1, <1>2, <1>3, <1>8 DEF AdvanceInv, EveryActiveAdvances

LEMMA QuietRoom ==
    ASSUME TypeInv, RoomInv, AdvanceInv,
           GoIdle \/ Wake \/ Select \/ Build \/ Yield \/ FailDone \/ SampleDone \/ DecodeFails
    PROVE  RoomInv' /\ AdvanceInv'
<1>1. UNCHANGED <<block_table, waiting, slot, context, remaining, n_past, pending, sampled>>
    BY DEF GoIdle, Wake, Select, Build, Yield, FailDone, SampleDone, DecodeFails, kvvars,
           queuevars, seqvars, batchvars
<1>2. RoomInv' /\ active' = active
    BY <1>1, RoomUnchanged
<1>3. CASE Build
    BY <1>2, <1>3, BuildAdvances
<1>4. CASE ~Build
    <2>1. pc' # "decoding" /\ (pc' # "failed" => pc # "failed" \/ active = {})
        BY <1>4 DEF GoIdle, Wake, Select, Yield, FailDone, SampleDone, DecodeFails
    <2> QED BY <1>1, <1>2, <2>1 DEF AdvanceInv, EveryActiveAdvances
<1> QED BY <1>2, <1>3, <1>4

LEMMA DecodeRoom ==
    ASSUME TypeInv, RoomInv, AdvanceInv, Decode
    PROVE  RoomInv' /\ AdvanceInv'
<1>1. /\ n_past' = [r \in Requests |-> n_past[r] + take[r]]
      /\ pending' = [r \in Requests |-> SubSeq(pending[r], take[r] + 1, Len(pending[r]))]
      /\ UNCHANGED <<block_table, waiting, slot, context, remaining>>
      /\ pc = "decoding" /\ pc' = "sample" /\ active' = active /\ Served' = Served
    BY DEF Decode, kvvars, queuevars, active, Served
<1>2. ASSUME NEW r \in Requests
      PROVE  /\ pending[r] \in Seq(Token) /\ take[r] \in Nat /\ take[r] <= Len(pending[r])
             /\ n_past[r] \in Nat
             /\ pending'[r] = SubSeq(pending[r], take[r] + 1, Len(pending[r]))
             /\ Len(pending'[r]) = Len(pending[r]) - take[r]
             /\ n_past'[r] = n_past[r] + take[r]
    <2>1. pending[r] \in Seq(Token) /\ take[r] \in Nat /\ n_past[r] \in Nat
        BY ServiceTypes
    <2>2. take[r] <= Len(pending[r])
        BY DEF TypeInv, CellLoopInv, CellInv
    <2>3. Len(SubSeq(pending[r], take[r] + 1, Len(pending[r]))) = Len(pending[r]) - take[r]
        BY <2>1, <2>2
    <2> QED BY <1>1, <2>1, <2>2, <2>3
<1>3. RoomInv'
    <2>1. ASSUME NEW r \in active
          PROVE  n_past'[r] + Len(pending'[r]) = Len(context[r])
        <3>1. r \in Requests /\ n_past[r] + Len(pending[r]) = Len(context[r])
            BY ServiceTypes DEF RoomInv
        <3>2. Len(pending[r]) \in Nat
            BY <1>2, <3>1
        <3> QED BY <1>2, <3>1, <3>2
    <2>2. ASSUME NEW r \in Requests \ active
          PROVE  n_past'[r] = 0
        <3>1. pending[r] = <<>> /\ n_past[r] = 0
            BY DEF TypeInv, CellLoopInv, CellInv, RoomInv
        <3>2. take[r] <= 0 /\ take[r] \in Nat
            BY <1>2, <3>1
        <3> QED BY <1>2, <3>1, <3>2
    <2> QED BY <1>1, <2>1, <2>2 DEF RoomInv
<1>4. AdvanceInv'
    <2>1. PICK token \in [Flagged -> Sampled] : sampled' = {<<r, token[r]>> : r \in Flagged}
        BY DEF Decode
    <2>2. ASSUME NEW r \in active, pending'[r] = <<>>
          PROVE  \E t \in Sampled : <<r, t>> \in sampled'
        <3>1. r \in Requests /\ take[r] > 0
            BY <1>1, ServiceTypes DEF AdvanceInv, EveryActiveAdvances
        <3>2. take[r] = Len(pending[r])
            <4>1. Len(pending'[r]) = 0 /\ Len(pending[r]) \in Nat
                BY <1>2, <2>2, <3>1
            <4> QED BY <1>2, <3>1, <4>1
        <3>3. r \in Flagged
            BY <3>1, <3>2 DEF Flagged
        <3> QED BY <2>1, <3>3
    <2> QED BY <1>1, <2>2 DEF AdvanceInv, EveryActiveAdvances
<1> QED BY <1>3, <1>4

LEMMA AdmitRoom ==
    ASSUME TypeInv, RoomInv, AdvanceInv, NEW r \in Requests, Admit(r)
    PROVE  RoomInv' /\ AdvanceInv'
<1>1. PICK reused \in Nat :
         /\ reused < Len(Prompt[r])
         /\ n_past' = [n_past EXCEPT ![r] = reused]
         /\ pending' = [pending EXCEPT ![r] = SubSeq(Prompt[r], reused + 1, Len(Prompt[r]))]
    BY AdmitLeavesOne
<1>2. /\ r \in waiting /\ waiting' = waiting \ {r} /\ UNCHANGED <<block_table, pc, sampled>>
      /\ pc = "admit"
      /\ remaining' = [remaining EXCEPT ![r] = MaxTokens[r]]
      /\ context' = [context EXCEPT ![r] = Prompt[r]]
    BY ServiceTypes DEF Admit, LoopInv, PhaseInv, kvvars
<1>3. active' = active \cup {r}
    BY <1>2, SlotForSelected, AdmitCore, ServiceTypes DEF LoopInv
<1>4. Served' = Served
    BY <1>2, <1>3 DEF Served
<1>5. Prompt[r] \in Seq(Token) /\ Len(Prompt[r]) \in Nat
    BY LoopAssumption
<1>6. /\ n_past'[r] = reused /\ remaining'[r] = MaxTokens[r] /\ context'[r] = Prompt[r]
      /\ pending'[r] = SubSeq(Prompt[r], reused + 1, Len(Prompt[r]))
      /\ \A q \in Requests \ {r} :
            /\ n_past'[q] = n_past[q] /\ remaining'[q] = remaining[q]
            /\ context'[q] = context[q] /\ pending'[q] = pending[q]
    BY <1>1, <1>2, ServiceTypes
<1>7. Len(pending'[r]) = Len(Prompt[r]) - reused /\ pending'[r] # <<>>
    <2>1. Len(SubSeq(Prompt[r], reused + 1, Len(Prompt[r]))) = Len(Prompt[r]) - reused
        BY <1>1, <1>5
    <2>2. Len(pending'[r]) # 0 /\ Len(<<>>) = 0
        BY <1>1, <1>5, <1>6, <2>1
    <2> QED BY <1>6, <2>1, <2>2
<1>8. RoomInv'
    <2>1. ASSUME NEW q \in active'
          PROVE  /\ Len(context'[q]) + remaining'[q] = worst_case_tokens(q)
                 /\ n_past'[q] + Len(pending'[q]) = Len(context'[q])
        <3>1. CASE q = r
            <4>1. Len(context'[r]) + remaining'[r] = worst_case_tokens(r)
                BY <1>6 DEF worst_case_tokens
            <4>2. n_past'[r] + Len(pending'[r]) = reused + (Len(Prompt[r]) - reused)
                BY <1>6, <1>7
            <4>3. reused + (Len(Prompt[r]) - reused) = Len(Prompt[r])
                BY <1>5
            <4> QED BY <1>6, <3>1, <4>1, <4>2, <4>3, Zenon
        <3>2. CASE q # r
            <4>1. q \in active /\ q \in Requests
                BY <1>3, <3>2, ServiceTypes
            <4> QED BY <1>6, <3>2, <4>1 DEF RoomInv
        <3> QED BY <3>1, <3>2
    <2>2. \A q \in Requests \ active' : n_past'[q] = 0
        BY <1>3, <1>6 DEF RoomInv
    <2>3. \A q \in Served' : block_table'[q] = blocks_needed(worst_case_tokens(q))
        BY <1>2, <1>4 DEF RoomInv
    <2> QED BY <2>1, <2>2, <2>3 DEF RoomInv
<1>9. AdvanceInv'
    BY <1>2, <1>3, <1>6, <1>7, ServiceTypes DEF AdvanceInv, EveryActiveAdvances
<1> QED BY <1>8, <1>9

LEMMA EmitRoom ==
    ASSUME TypeInv, RoomInv, AdvanceInv, NEW r \in Requests, NEW token \in Sampled,
           SampleEmits(r, token)
    PROVE  RoomInv' /\ AdvanceInv'
<1>1. /\ <<r, token>> \in sampled /\ pc = "sample"
      /\ sampled' = sampled \ {<<r, token>>}
      /\ remaining' = [remaining EXCEPT ![r] = @ - 1]
      /\ pending' = [pending EXCEPT ![r] = <<token>>]
      /\ context' = [context EXCEPT ![r] = Append(@, token)]
      /\ UNCHANGED <<block_table, waiting, slot, n_past, pc>>
      /\ active' = active /\ Served' = Served
    BY DEF SampleEmits, kvvars, queuevars, active, Served
<1>2. r \in active /\ pending[r] = <<>> /\ context[r] \in Seq(Token) /\ token \in Token
      /\ remaining[r] \in Nat /\ n_past[r] \in Nat
    <2>1. <<r, token>>[1] = r
        OBVIOUS
    <2>2. pending[r] = <<>>
        BY <1>1, <2>1 DEF TypeInv, CellLoopInv, CellInv
    <2> QED BY <1>1, <2>2, ServiceTypes, LoopAssumption DEF LoopInv, PhaseInv
<1>3. /\ n_past[r] = Len(context[r]) /\ Len(context[r]) + remaining[r] = worst_case_tokens(r)
      /\ Len(context[r]) \in Nat
    BY <1>2 DEF RoomInv
<1>4. /\ remaining'[r] = remaining[r] - 1 /\ Len(pending'[r]) = 1 /\ pending'[r] # <<>>
      /\ Len(context'[r]) = Len(context[r]) + 1
      /\ \A q \in Requests \ {r} : /\ remaining'[q] = remaining[q] /\ context'[q] = context[q]
                                   /\ pending'[q] = pending[q]
    <2>1. remaining'[r] = remaining[r] - 1 /\ pending'[r] = <<token>>
          /\ context'[r] = Append(context[r], token)
        BY <1>1, ServiceTypes
    <2>2. /\ Len(<<token>>) = 1 /\ <<token>> # <<>>
          /\ Len(Append(context[r], token)) = Len(context[r]) + 1
        BY <1>2
    <2> QED BY <1>1, <2>1, <2>2, ServiceTypes
<1>5. RoomInv'
    <2>1. ASSUME NEW q \in active
          PROVE  /\ Len(context'[q]) + remaining'[q] = worst_case_tokens(q)
                 /\ n_past[q] + Len(pending'[q]) = Len(context'[q])
        <3>1. CASE q = r
            <4>1. Len(context'[r]) + remaining'[r] = (Len(context[r]) + 1) + (remaining[r] - 1)
                BY <1>4
            <4>2. n_past[r] + Len(pending'[r]) = Len(context[r]) + 1
                BY <1>3, <1>4
            <4>3. (Len(context[r]) + 1) + (remaining[r] - 1) = Len(context[r]) + remaining[r]
                BY <1>2, <1>3
            <4>4. Len(context'[r]) + remaining'[r] = worst_case_tokens(r)
                BY <1>3, <4>1, <4>3, Zenon
            <4>5. n_past[r] + Len(pending'[r]) = Len(context'[r])
                BY <1>4, <4>2, Zenon
            <4> QED BY <3>1, <4>4, <4>5, Zenon
        <3>2. CASE q # r
            BY <1>4, <3>2, ServiceTypes DEF RoomInv
        <3> QED BY <3>1, <3>2
    <2> QED BY <1>1, <2>1 DEF RoomInv
<1>6. AdvanceInv'
    <2>1. ASSUME NEW q \in active
          PROVE  pending'[q] # <<>> \/ \E t \in Sampled : <<q, t>> \in sampled'
        <3>1. CASE q = r
            BY <1>4, <3>1
        <3>2. CASE q # r
            <4>1. pending[q] # <<>> \/ \E t \in Sampled : <<q, t>> \in sampled
                BY <1>1 DEF AdvanceInv
            <4> QED BY <1>1, <1>4, <3>2, <4>1, ServiceTypes
        <3> QED BY <3>1, <3>2
    <2> QED BY <1>1, <2>1 DEF AdvanceInv, EveryActiveAdvances
<1> QED BY <1>5, <1>6

LEMMA ExpireRoom ==
    ASSUME TypeInv, RoomInv, AdvanceInv, NEW r \in Requests, ExpireWaiter(r)
    PROVE  RoomInv' /\ AdvanceInv'
<1>1. /\ r \in waiting /\ waiting' = waiting \ {r} /\ Release(r)
      /\ UNCHANGED <<slot, context, remaining, n_past, pending, pc, sampled, take>>
      /\ active' = active
    BY DEF ExpireWaiter, LeaveQueue, seqvars, batchvars, active
<1>2. Served' = Served \ {r}
    BY <1>1, ServiceTypes DEF Served
<1>3. \A q \in Served' : block_table'[q] = block_table[q]
    BY <1>1, <1>2, ServiceTypes DEF Release, Without, kvvars
<1> QED BY <1>1, <1>2, <1>3, AdvanceUnchanged DEF RoomInv

LEMMA RoomNext == TypeInv /\ RoomInv /\ AdvanceInv /\ [Next]_vars => RoomInv' /\ AdvanceInv'
<1> SUFFICES ASSUME TypeInv, RoomInv, AdvanceInv, [Next]_vars PROVE RoomInv' /\ AdvanceInv'
    OBVIOUS
<1>1. ASSUME NEW r \in Requests, FailOne(r)
      PROVE  RoomInv' /\ AdvanceInv'
    <2>1. r \in active /\ GiveBack(r) /\ UNCHANGED <<waiting, pc>> /\ pc = "failed"
        BY <1>1 DEF FailOne, finish, queuevars
    <2> QED BY <2>1, GiveBackRoom DEF AdvanceInv, EveryActiveAdvances
<1>2. ASSUME NEW r \in Requests, NEW token \in Sampled, NEW timed_out \in BOOLEAN,
             SampleFinishes(r, token, timed_out)
      PROVE  RoomInv' /\ AdvanceInv'
    <2>1. /\ <<r, token>> \in sampled /\ GiveBack(r) /\ UNCHANGED <<waiting, pc>>
          /\ pc = "sample" /\ sampled' = sampled \ {<<r, token>>}
        BY <1>2 DEF SampleFinishes, finish, queuevars
    <2>2. r \in active
        BY <2>1, ServiceTypes DEF LoopInv, PhaseInv
    <2>3. RoomInv' /\ active' = active \ {r} /\ \A q \in active' : pending'[q] = pending[q]
        BY <2>1, <2>2, GiveBackRoom
    <2>4. ASSUME NEW q \in active'
          PROVE  pending'[q] # <<>> \/ \E t \in Sampled : <<q, t>> \in sampled'
        <3>1. q \in active /\ q # r
            BY <2>3
        <3>2. pending[q] # <<>> \/ \E t \in Sampled : <<q, t>> \in sampled
            BY <2>1, <3>1 DEF AdvanceInv
        <3> QED BY <2>1, <2>3, <3>1, <3>2
    <2> QED BY <2>1, <2>3, <2>4 DEF AdvanceInv, EveryActiveAdvances
<1>3. CASE UNCHANGED vars
    <2>1. /\ UNCHANGED <<block_table, waiting, slot, context, remaining, n_past, pending>>
          /\ UNCHANGED <<pc, sampled, take>>
        BY <1>3 DEF vars, kvvars, queuevars, seqvars, batchvars
    <2> QED BY <2>1, RoomUnchanged, AdvanceUnchanged
<1> QED BY <1>1, <1>2, <1>3, HandlersRoom, QuietRoom, DecodeRoom, ExpireRoom, AdmitRoom, EmitRoom
        DEF Next, LoopStep

LEMMA ServiceInvariant == Spec => [](TypeInv /\ RoomInv /\ AdvanceInv)
<1>1. Init => TypeInv
    BY InitInv, CellInitInv, TypeInit DEF TypeInv, CellLoopInv
<1> QED BY <1>1, TypeNext, RoomInit, RoomNext, PTL DEF Spec

(* "Guaranteed the room to run to completion": for every pool, block size, *)
(* set of prompts and budgets, what a request has and may still produce    *)
(* fits the blocks reserved for it, and the cells of all requests together *)
(* fit the context, so no accepted request can make llama_decode run out.  *)
THEOREM RoomToComplete == Spec => []RunsWithinReservation
<1>1. TypeInv /\ RoomInv => RunsWithinReservation
    <2> SUFFICES ASSUME TypeInv, RoomInv PROVE RunsWithinReservation
        OBVIOUS
    <2>1. ASSUME NEW r \in active
          PROVE  Len(context[r]) + remaining[r] <= block_table[r] * BlockSize
        <3>1. /\ Len(context[r]) \in Nat /\ remaining[r] \in Nat
              /\ Len(context[r]) + remaining[r] = worst_case_tokens(r)
              /\ block_table[r] = blocks_needed(worst_case_tokens(r))
            BY ServiceTypes DEF RoomInv, Served
        <3> QED BY <3>1, BlocksCover
    <2> DEFINE rows == [r \in Requests |-> n_past[r] + take[r]]
    <2>2. rows \in [Requests -> Nat]
        BY ServiceTypes
    <2>3. ASSUME NEW r \in active
          PROVE  rows[r] <= Len(context[r])
        <3>1. /\ r \in Requests /\ n_past[r] \in Nat /\ take[r] \in Nat
              /\ Len(pending[r]) \in Nat /\ take[r] <= Len(pending[r])
              /\ n_past[r] + Len(pending[r]) = Len(context[r])
            BY ServiceTypes DEF RoomInv, TypeInv, CellLoopInv, CellInv
        <3> QED BY <3>1
    <2>4. ASSUME NEW r \in Requests \ active
          PROVE  rows[r] = 0
        <3>1. n_past[r] = 0 /\ take[r] \in Nat /\ pending[r] = <<>> /\ take[r] <= Len(pending[r])
            BY ServiceTypes DEF RoomInv, TypeInv, CellLoopInv, CellInv
        <3> QED BY <3>1
    <2> HIDE DEF rows
    <2>5. Total(rows) <= TotalTokens
        BY <2>2, <2>3, <2>4, RowsFitContext
    <2> QED BY <2>1, <2>5 DEF RunsWithinReservation, rows
<1> QED BY <1>1, ServiceInvariant, PTL

(* The claim of scheduler/base.py, for every value of the constants: no    *)
(* batch leaves an active sequence out or gives it less than its slice.    *)
(* It rests on RoomInv: all that is pending fits the context, which is the *)
(* capacity of a batch.                                                    *)
THEOREM NobodySqueezedOut == Spec => []EveryActiveAdvances
<1>1. AdvanceInv => EveryActiveAdvances
    BY DEF AdvanceInv
<1> QED BY <1>1, ServiceInvariant, PTL
-----------------------------------------------------------------------------
(* The life of the server.  While the task runs, the invariants of the     *)
(* loop hold.  Once finish() has raised, the loop takes no step any more   *)
(* and the books and the streams are all that handlers rely on; the spans  *)
(* of the request that raised stay open, and after a failed decode the     *)
(* cells of the requests cut off with it are what llama_decode left there. *)
LifespanInv ==
    /\ BooksInv /\ StreamInv
    /\ \A s \in Elements(free_slots) : cells[s] = {}
    /\ task = "running" => CellLoopInv

LEMMA LifespanInitInv == LifespanInit => LifespanInv
<1> SUFFICES ASSUME LifespanInit PROVE LifespanInv
    OBVIOUS
<1>1. LoopInv /\ CellInv /\ StreamInv
    BY InitInv, CellInitInv, StreamInitInv DEF LifespanInit
<1> QED BY <1>1 DEF LifespanInv, CellLoopInv, LoopInv, CoreInv, CellInv

(* The handlers keep the books without the help of the loop.               *)
LEMMA HandlersBooks ==
    ASSUME BooksInv, NEW r \in Requests, generate(r) \/ Consume(r) \/ Client(r) \/ Age(r)
    PROVE  BooksInv'
<1>1. UNCHANGED <<claims, free_slots, slot>>
    BY DEF generate, Consume, Client, Age, indexvars, seqvars
<1>2. CASE generate(r) /\ Accept(r)
    BY <1>1, <1>2, AcceptBooks
<1>3. CASE ~(generate(r) /\ Accept(r))
    <2>1. UNCHANGED <<kvvars, waiting>>
        BY <1>3 DEF generate, Reject, ReserveRefused, Consume, Client, Age, queuevars
    <2> QED BY <1>1, <2>1, BooksUnchanged DEF booksvars
<1> QED BY <1>2, <1>3

LEMMA LifespanNextInv ==
    LifespanInv /\ [LifespanNext]_<<vars, lifevars>> => LifespanInv'
<1> SUFFICES ASSUME LifespanInv, [LifespanNext]_<<vars, lifevars>> PROVE LifespanInv'
    OBVIOUS
<1>1. CASE Loop
    <2>1. task = "running" /\ LoopStep /\ CellLoopInv
        BY <1>1 DEF Loop, LifespanInv
    <2>2. CellLoopInv' /\ StreamInv'
        BY <2>1, CellNext, StreamLoop DEF LifespanInv, CellLoopInv, Next
    <2> QED BY <2>2 DEF LifespanInv, CellLoopInv, CellInv, LoopInv, CoreInv
<1>2. CASE Handlers
    <2>1. PICK r \in Requests : generate(r) \/ Consume(r) \/ Client(r) \/ Age(r)
        BY <1>2 DEF Handlers
    <2>2. UNCHANGED <<server, task, free_slots, cells>>
        BY <1>2, <2>1 DEF Handlers, lifevars, generate, Consume, Client, Age, seqvars
    <2>3. BooksInv' /\ StreamInv'
        BY <2>1, HandlersBooks, StreamHandlers DEF LifespanInv
    <2>4. task = "running" => CellLoopInv'
        BY <2>1, CellNext DEF LifespanInv, Next
    <2> QED BY <2>2, <2>3, <2>4 DEF LifespanInv
<1>3. CASE Drain \/ HandlersReturned \/ Shutdown \/ UNCHANGED <<vars, lifevars>>
    <2>1. UNCHANGED vars /\ (task' = "running" => task = "running")
        BY <1>3 DEF Drain, HandlersReturned, Shutdown, lifevars
    <2>2. /\ UNCHANGED booksvars /\ UNCHANGED <<streams, consumer>> /\ Served' = Served
          /\ UNCHANGED <<free_slots, cells>>
        BY <2>1 DEF vars, booksvars, indexvars, streamvars, queuevars, seqvars, Served, active
    <2>3. BooksInv' /\ StreamInv'
        BY <2>2, BooksUnchanged, StreamUnchanged DEF LifespanInv
    <2>4. task = "running" => CellLoopInv'
        BY <2>1, CellNext DEF LifespanInv
    <2> QED BY <2>1, <2>2, <2>3, <2>4 DEF LifespanInv
<1>4. ASSUME NEW r \in Requests, FinishRaises(r)
      PROVE  LifespanInv'
    <2>1. /\ r \in active /\ GiveBack(r) /\ UNCHANGED <<waiting, consumer, server>>
          /\ task = "running" /\ task' = "raised"
        BY <1>4 DEF FinishRaises, FinishUntilDivision, queuevars
    <2>2. BooksInv' /\ StreamInv'
        BY <2>1, GiveBackBooks, StreamGiveBack DEF LifespanInv
    <2>3. \A s \in Elements(free_slots') : cells'[s] = {}
        <3>1. /\ slot[r] \in SeqIds /\ free_slots \in Seq(SeqIds)
              /\ cells \in [SeqIds -> SUBSET (Nat \X Token)]
            BY <2>1 DEF active, LifespanInv, BooksInv, CoreTypeOK, CellLoopInv, CellInv, CellTypeOK
        <3>2. /\ cells' = [cells EXCEPT ![slot[r]] = {}]
              /\ free_slots' = Append(free_slots, slot[r])
            BY <2>1 DEF GiveBack, LeaveBatch, free_sequence, ReturnSlot
        <3>3. Elements(free_slots') = Elements(free_slots) \cup {slot[r]}
            BY <3>1, <3>2, FreeSlotsAppend
        <3> QED BY <3>1, <3>2, <3>3 DEF LifespanInv
    <2> QED BY <2>1, <2>2, <2>3 DEF LifespanInv
<1> QED BY <1>1, <1>2, <1>3, <1>4 DEF LifespanNext

LEMMA LifespanInvariant == LifespanSpec => []LifespanInv
BY LifespanInitInv, LifespanNextInv, PTL DEF LifespanSpec

(* A ZeroDivisionError in finish() ends the loop but loses nothing: slots, *)
(* claims and blocks stay exact, the slot given back holds no cells, and   *)
(* no reader is left without an end unless its request is still in the     *)
(* server.                                                                 *)
THEOREM RaiseKeepsBooks == LifespanSpec => []BooksSurviveRaise
<1>1. LifespanInv => BooksSurviveRaise
    <2> SUFFICES ASSUME LifespanInv PROVE BooksSurviveRaise
        OBVIOUS
    <2>1. SlotPartition /\ ClaimsAreLive /\ ReservationsExact /\ Ledger
        BY DEF LifespanInv, BooksInv, KVInv
    <2>2. NoOrphanReader
        BY DEF LifespanInv, StreamInv, StreamOk, Ended, Served, NoOrphanReader
    <2>3. \A i \in DOMAIN free_slots : cells[free_slots[i]] = {}
        BY DEF LifespanInv, Elements
    <2> QED BY <2>1, <2>2, <2>3 DEF BooksSurviveRaise
<1> QED BY <1>1, LifespanInvariant, PTL
-----------------------------------------------------------------------------
(***************************************************************************)
(* The counters of the batch loop add up, for every value of the constants *)
(* and over any history of requests.  The metered loop takes only steps of *)
(* the batch loop, so its invariants (CoreInv, PhaseInv, TypeOK) hold here *)
(* too, and say which requests wait and are active; CountInv relates the   *)
(* counters to them.  LeftInv follows cancelled streams to the counter that*)
(* blames the client, GaugeInv says when the gauges were last set, and     *)
(* BalanceInv follows every prompt token into the batch sizes or the reuse *)
(* counter.                                                                *)
(***************************************************************************)

(* The counters that count requests.                                       *)
Accounts ==
    {"accepted", "queue_wait", "queue_timeout", "hit", "stale_donor", "miss", "ttft",
     "tokens_per_second"}

(* The active requests with a first token.                                 *)
Emitting == {r \in active : tokens_emitted[r] > 0}

CountInv ==
    /\ \A c \in Accounts : counters[c] \in Nat
    /\ tokens_emitted \in [Requests -> Nat]
    /\ \A r \in Requests \ active : tokens_emitted[r] = 0
    /\ IsFiniteSet(Emitting)
    /\ AcceptedAccounted
    /\ ThroughputPaired

BaseInv == LoopInv /\ TypeOK
-----------------------------------------------------------------------------
(* Inc(Once(names)) adds one to each of names and leaves the rest alone.   *)
LEMMA IncOnce ==
    ASSUME \A c \in Accounts : counters[c] \in Nat, NEW names, Inc(Once(names))
    PROVE  /\ \A c \in Accounts : counters'[c] \in Nat
           /\ \A c \in Accounts : c \in names => counters'[c] = counters[c] + 1
           /\ \A c \in Accounts : c \notin names => counters'[c] = counters[c]
BY DEF Accounts, Counters, Cancellations, Lookups, Inc, Once

(* Steps that change neither the accounts nor who waits and who is active. *)
LEMMA CountUnchanged ==
    ASSUME CountInv, waiting' = waiting, active' = active, tokens_emitted' = tokens_emitted,
           \A c \in Accounts : counters'[c] = counters[c]
    PROVE  CountInv'
<1>1. Emitting' = Emitting
    BY DEF Emitting
<1> QED BY <1>1 DEF CountInv, Accounts, AcceptedAccounted, ThroughputPaired, Emitting

(* The initial state has counted nothing.                                  *)
LEMMA CountInit == MeteredInit => CountInv
<1> SUFFICES ASSUME MeteredInit PROVE CountInv
    OBVIOUS
<1>1. active = {} /\ waiting = {}
    BY DEF MeteredInit, Init, active
<1>2. \A c \in Accounts : counters[c] = 0
    BY DEF MeteredInit, Accounts, Counters, Cancellations, Lookups
<1>3. Emitting = {} /\ Cardinality({}) = 0 /\ IsFiniteSet({})
    BY <1>1, FS_EmptySet DEF Emitting
<1>4. tokens_emitted = [r \in Requests |-> 0]
    BY DEF MeteredInit
<1>5. AcceptedAccounted
    BY <1>1, <1>2, <1>3 DEF AcceptedAccounted, Accounts
<1>6. ThroughputPaired
    BY <1>2, <1>3 DEF ThroughputPaired, Accounts, Emitting
<1> QED BY <1>2, <1>3, <1>4, <1>5, <1>6 DEF CountInv
-----------------------------------------------------------------------------
(* generate(): one more accepted and waiting, or a rejection.              *)
LEMMA CountGenerate ==
    ASSUME BaseInv, CountInv, NEW r \in Requests, MeteredGenerate(r)
    PROVE  CountInv'
<1>1. /\ consumer \in [Requests -> ConsumerStates] /\ generate(r)
      /\ tokens_emitted' = tokens_emitted
      /\ r \notin waiting \cup active
      /\ UNCHANGED <<claims, free_slots, slot>>
      /\ \A c \in Accounts : counters[c] \in Nat
    BY DEF BaseInv, LoopInv, PhaseInv, MeteredGenerate, generate, indexvars, seqvars, CountInv
<1>2. CASE Accept(r)
    <2>1. waiting' = waiting \cup {r} /\ active' = active /\ IsFiniteSet(waiting)
        BY <1>1, <1>2 DEF Accept, push, active, BaseInv, LoopInv, CoreInv, BooksInv, CoreTypeOK
    <2>2. consumer'[r] # "rejected"
        BY <1>1, <1>2 DEF Accept
    <2>3. Inc(Once({"accepted"}))
        BY <2>2 DEF MeteredGenerate
    <2>4. /\ \A c \in Accounts : counters'[c] \in Nat
          /\ counters'["accepted"] = counters["accepted"] + 1
          /\ \A c \in Accounts \ {"accepted"} : counters'[c] = counters[c]
        BY <1>1, <2>3, IncOnce DEF Accounts
    <2>5. /\ Cardinality(waiting') = Cardinality(waiting) + 1
          /\ Cardinality(waiting) \in Nat
        BY <1>1, <2>1, FS_AddElement, FS_CardinalityType
    <2>6. AcceptedAccounted'
        BY <1>1, <2>4, <2>5 DEF CountInv, AcceptedAccounted, Accounts
    <2>7. Emitting' = Emitting
        BY <1>1, <2>1 DEF Emitting
    <2>8. ThroughputPaired'
        BY <2>4, <2>7 DEF CountInv, ThroughputPaired, Accounts, Emitting
    <2> QED BY <1>1, <2>1, <2>4, <2>6, <2>7, <2>8 DEF CountInv
<1>3. CASE Reject(r)
    <2>1. waiting' = waiting /\ active' = active
        BY <1>1, <1>3 DEF Reject, active
    <2>2. consumer'[r] = "rejected"
        BY <1>1, <1>3 DEF Reject
    <2>3. PICK name \in {"queue_full", "kv_cache_full"} : Inc(Once({name}))
        BY <2>2 DEF MeteredGenerate
    <2>4. \A c \in Accounts : counters'[c] = counters[c]
        BY <1>1, <2>3, IncOnce DEF Accounts
    <2> QED BY <1>1, <2>1, <2>4, CountUnchanged
<1> QED BY <1>1, <1>2, <1>3 DEF generate

(* expire_stale_waiters(): one waiter less, one queue timeout more.        *)
LEMMA CountExpire ==
    ASSUME BaseInv, CountInv, NEW r \in Requests, MeteredExpire(r)
    PROVE  CountInv'
<1>1. /\ r \in waiting /\ waiting' = waiting \ {r} /\ active' = active
      /\ tokens_emitted' = tokens_emitted /\ IsFiniteSet(waiting)
      /\ \A c \in Accounts : counters[c] \in Nat
    BY DEF MeteredExpire, ExpireWaiter, seqvars, active, BaseInv, LoopInv, CoreInv,
           BooksInv, CoreTypeOK,
           CountInv
<1>2. /\ \A c \in Accounts : counters'[c] \in Nat
      /\ counters'["queue_timeout"] = counters["queue_timeout"] + 1
      /\ \A c \in Accounts \ {"queue_timeout"} : counters'[c] = counters[c]
    BY <1>1, IncOnce DEF MeteredExpire, Accounts
<1>3. /\ Cardinality(waiting') = Cardinality(waiting) - 1
      /\ Cardinality(waiting) \in Nat /\ Cardinality(waiting') \in Nat
    BY <1>1, FS_RemoveElement, FS_CardinalityType
<1>4. AcceptedAccounted'
    BY <1>1, <1>2, <1>3 DEF CountInv, AcceptedAccounted, Accounts
<1>5. Emitting' = Emitting
    BY <1>1 DEF Emitting
<1>6. ThroughputPaired'
    BY <1>2, <1>5 DEF CountInv, ThroughputPaired, Accounts, Emitting
<1> QED BY <1>1, <1>2, <1>4, <1>5, <1>6 DEF CountInv

(* Every lookup has one outcome; without a prefix cache there is none.     *)
LEMMA OneOutcome ==
    ASSUME TypeOK, NEW r \in Requests, Admit(r)
    PROVE  /\ Lookup(r) \subseteq Lookups
           /\ PrefixCacheEnabled => \E outcome \in Lookups : Lookup(r) = {outcome}
<1>1. PrefixCacheEnabled \in BOOLEAN
    BY LoopAssumption
<1>2. ASSUME PrefixCacheEnabled
      PROVE  n_past'[r] > 0 \/ n_past'[r] = 0
    <2>1. PICK n \in 0..Len(Prompt[r]), donor \in SeqIds \cup {NoSeq} :
             n_past' = [n_past EXCEPT ![r] =
                           Reused(Hit(n, donor), free_slots[Len(free_slots)])]
        BY <1>2 DEF Admit
    <2>2. Reused(Hit(n, donor), free_slots[Len(free_slots)]) \in {0, n}
        BY DEF Reused, Hit
    <2>3. n \in Nat
        BY LoopAssumption
    <2> QED BY <2>1, <2>2, <2>3 DEF TypeOK
<1> QED BY <1>1, <1>2 DEF Lookup, Lookups

(* admit(): a waiter becomes active, its wait and its lookup are observed. *)
LEMMA CountAdmit ==
    ASSUME BaseInv, CountInv, NEW r \in Requests, MeteredAdmit(r)
    PROVE  CountInv'
<1>1. /\ Admit(r) /\ r \in waiting /\ waiting' = waiting \ {r} /\ IsFiniteSet(waiting)
      /\ tokens_emitted' = tokens_emitted
      /\ \A c \in Accounts : counters[c] \in Nat
    BY DEF MeteredAdmit, Admit, BaseInv, LoopInv, PhaseInv, CoreInv, BooksInv, CoreTypeOK, CountInv
<1>2. r \notin active /\ \A q \in Requests : q # r => (q \in active' <=> q \in active)
    BY <1>1 DEF BaseInv, LoopInv, CoreInv, BooksInv, CoreTypeOK, ReservationsExact, Admit, active
<1>3. Emitting' = Emitting
    BY <1>1, <1>2 DEF Emitting, CountInv, active
<1>4. Lookup(r) \subseteq Lookups
      /\ (PrefixCacheEnabled => \E outcome \in Lookups : Lookup(r) = {outcome})
    BY <1>1, OneOutcome DEF BaseInv
<1>5. \A c \in Accounts :
         counters'[c] = counters[c] + IF c \in {"queue_wait"} \cup Lookup(r) THEN 1 ELSE 0
    BY DEF MeteredAdmit, Inc, Once, Accounts, Counters, Cancellations, Lookups
<1>6. /\ \A c \in Accounts : counters'[c] \in Nat
      /\ counters'["queue_wait"] = counters["queue_wait"] + 1
      /\ \A c \in {"accepted", "queue_timeout", "ttft", "tokens_per_second"} :
            counters'[c] = counters[c]
    BY <1>1, <1>4, <1>5 DEF Accounts, Lookups
<1>7. PrefixCacheEnabled =>
         counters'["hit"] + counters'["stale_donor"] + counters'["miss"] =
             counters["hit"] + counters["stale_donor"] + counters["miss"] + 1
    BY <1>1, <1>4, <1>5 DEF Accounts, Lookups
<1>8. /\ Cardinality(waiting') = Cardinality(waiting) - 1
      /\ Cardinality(waiting) \in Nat /\ Cardinality(waiting') \in Nat
    BY <1>1, FS_RemoveElement, FS_CardinalityType
<1>9. AcceptedAccounted'
    BY <1>1, <1>6, <1>7, <1>8 DEF CountInv, AcceptedAccounted, Accounts
<1>10. ThroughputPaired'
    BY <1>3, <1>6 DEF CountInv, ThroughputPaired, Emitting
<1> QED BY <1>1, <1>2, <1>3, <1>6, <1>9, <1>10 DEF CountInv
-----------------------------------------------------------------------------
(* finish(): the throughput of a request with a first token is observed.   *)
LEMMA CountFinish ==
    ASSUME BaseInv, CountInv, NEW r \in active, finish(r), UNCHANGED waiting,
           NEW reason, reason \cap Accounts = {}, FinishObserves(r, reason)
    PROVE  CountInv'
<1>1. r \in Requests /\ active' = active \ {r}
    BY FinishCore DEF BaseInv, LoopInv, active
<1>2. /\ tokens_emitted' = [tokens_emitted EXCEPT ![r] = 0]
      /\ tokens_emitted \in [Requests -> Nat]
      /\ \A c \in Accounts : counters[c] \in Nat
      /\ IsFiniteSet(Emitting) /\ Cardinality(Emitting) \in Nat
    BY FS_CardinalityType DEF FinishObserves, CountInv
<1>3. Emitting' = Emitting \ {r}
    BY <1>1, <1>2 DEF Emitting, active
<1>4. tokens_emitted' \in [Requests -> Nat] /\ \A q \in Requests \ active' : tokens_emitted'[q] = 0
    BY <1>1, <1>2 DEF CountInv
<1>5. CASE tokens_emitted[r] > 0
    <2>1. r \in Emitting
        BY <1>5 DEF Emitting
    <2>2. Inc(Once(reason \cup {"tokens_per_second"}))
        BY <1>5 DEF FinishObserves
    <2>3. /\ \A c \in Accounts : counters'[c] \in Nat
          /\ counters'["tokens_per_second"] = counters["tokens_per_second"] + 1
          /\ \A c \in Accounts \ {"tokens_per_second"} : counters'[c] = counters[c]
        BY <1>2, <2>2, IncOnce DEF Accounts
    <2>4. /\ IsFiniteSet(Emitting') /\ Cardinality(Emitting') = Cardinality(Emitting) - 1
          /\ Cardinality(Emitting') \in Nat
        BY <1>2, <1>3, <2>1, FS_RemoveElement, FS_CardinalityType
    <2>5. ThroughputPaired'
        BY <1>2, <2>3, <2>4 DEF CountInv, ThroughputPaired, Accounts, Emitting
    <2>6. AcceptedAccounted'
        BY <2>3 DEF CountInv, AcceptedAccounted, Accounts
    <2> QED BY <1>4, <2>3, <2>4, <2>5, <2>6 DEF CountInv
<1>6. CASE ~(tokens_emitted[r] > 0)
    <2>1. Emitting' = Emitting
        BY <1>3, <1>6 DEF Emitting
    <2>2. Inc(Once(reason))
        BY <1>6 DEF FinishObserves
    <2>3. \A c \in Accounts : counters'[c] = counters[c]
        BY <1>2, <2>2, IncOnce
    <2>4. ThroughputPaired'
        BY <2>1, <2>3 DEF CountInv, ThroughputPaired, Accounts, Emitting
    <2>5. AcceptedAccounted'
        BY <2>3 DEF CountInv, AcceptedAccounted, Accounts
    <2> QED BY <1>2, <1>4, <2>1, <2>3, <2>4, <2>5 DEF CountInv
<1> QED BY <1>5, <1>6

(* A token is pushed: the first one counts as a time to first token.       *)
LEMMA CountEmit ==
    ASSUME BaseInv, CountInv, NEW r \in Requests, NEW token \in Sampled,
           MeteredSampleEmits(r, token)
    PROVE  CountInv'
<1>1. /\ r \in active /\ active' = active /\ waiting' = waiting
      /\ tokens_emitted' = [tokens_emitted EXCEPT ![r] = @ + 1]
      /\ tokens_emitted \in [Requests -> Nat]
      /\ \A c \in Accounts : counters[c] \in Nat
      /\ IsFiniteSet(Emitting) /\ Cardinality(Emitting) \in Nat
    BY FS_CardinalityType
    DEF MeteredSampleEmits, SampleEmits, queuevars, active, BaseInv, LoopInv, PhaseInv, CountInv
<1>2. Emitting' = Emitting \cup {r}
    BY <1>1 DEF Emitting, active
<1>3. tokens_emitted' \in [Requests -> Nat] /\ \A q \in Requests \ active' : tokens_emitted'[q] = 0
    BY <1>1 DEF CountInv
<1>4. CASE tokens_emitted[r] = 0
    <2>1. r \notin Emitting /\ Inc(Once({"ttft"}))
        BY <1>4 DEF Emitting, MeteredSampleEmits
    <2>2. /\ \A c \in Accounts : counters'[c] \in Nat
          /\ counters'["ttft"] = counters["ttft"] + 1
          /\ \A c \in Accounts \ {"ttft"} : counters'[c] = counters[c]
        BY <1>1, <2>1, IncOnce DEF Accounts
    <2>3. IsFiniteSet(Emitting') /\ Cardinality(Emitting') = Cardinality(Emitting) + 1
        BY <1>1, <1>2, <2>1, FS_AddElement
    <2>4. ThroughputPaired'
        BY <1>1, <2>2, <2>3 DEF CountInv, ThroughputPaired, Accounts, Emitting
    <2>5. AcceptedAccounted'
        BY <1>1, <2>2 DEF CountInv, AcceptedAccounted, Accounts
    <2> QED BY <1>3, <2>2, <2>3, <2>4, <2>5 DEF CountInv
<1>5. CASE tokens_emitted[r] # 0
    <2>1. Emitting' = Emitting /\ Inc(Once({"inter_token"}))
        BY <1>1, <1>2, <1>5 DEF Emitting, MeteredSampleEmits
    <2>2. \A c \in Accounts : counters'[c] = counters[c]
        BY <1>1, <2>1, IncOnce DEF Accounts
    <2>3. ThroughputPaired'
        BY <2>1, <2>2 DEF CountInv, ThroughputPaired, Accounts, Emitting
    <2>4. AcceptedAccounted'
        BY <1>1, <2>2 DEF CountInv, AcceptedAccounted, Accounts
    <2> QED BY <1>1, <1>3, <2>1, <2>2, <2>3, <2>4 DEF CountInv
<1> QED BY <1>4, <1>5
-----------------------------------------------------------------------------
(* What is counted is what the step does, whichever step it is.            *)
LEMMA CountNext == BaseInv /\ CountInv /\ [MeteredNext]_<<vars, metricvars>> => CountInv'
<1> SUFFICES ASSUME BaseInv, CountInv, [MeteredNext]_<<vars, metricvars>>
             PROVE  CountInv'
    OBVIOUS
<1>1. CASE UNCHANGED <<vars, metricvars>>
    BY <1>1, CountUnchanged DEF vars, metricvars, queuevars, seqvars, active
<1>2. CASE Unmetered \/ MeteredSelect
    <2>1. UNCHANGED <<waiting, slot, counters, tokens_emitted>>
        BY <1>2 DEF Unmetered, MeteredSelect, metricvars, Select, GoIdle, Wake, Build, Yield,
                    FailDone, SampleDone, DecodeFails, Consume, Client, Age, queuevars, seqvars
    <2> QED BY <2>1, CountUnchanged DEF active
<1>3. CASE MeteredDecode
    <2>1. UNCHANGED <<waiting, slot, tokens_emitted>>
        BY <1>3 DEF MeteredDecode, Decode, queuevars
    <2>2. \A c \in Accounts : counters'[c] = counters[c]
        BY <1>3 DEF MeteredDecode, Inc, Once, CountInv, Accounts, Counters, Cancellations, Lookups
    <2> QED BY <2>1, <2>2, CountUnchanged DEF active
<1>4. ASSUME NEW r \in Requests, MeteredGenerate(r) \/ MeteredExpire(r) \/ MeteredAdmit(r)
      PROVE  CountInv'
    BY <1>4, CountGenerate, CountExpire, CountAdmit
<1>5. ASSUME NEW r \in Requests, MeteredFailOne(r)
      PROVE  CountInv'
    <2>1. /\ r \in active /\ finish(r) /\ UNCHANGED waiting
          /\ FinishObserves(r, {"decode_error"}) /\ {"decode_error"} \cap Accounts = {}
        BY <1>5 DEF MeteredFailOne, FailOne, queuevars, Accounts
    <2> QED BY <2>1, CountFinish
<1>6. ASSUME NEW r \in Requests, NEW token \in Sampled, NEW timed_out \in BOOLEAN,
             MeteredSampleFinishes(r, token, timed_out)
      PROVE  CountInv'
    <2>1. r \in active /\ finish(r) /\ UNCHANGED waiting
        BY <1>6 DEF MeteredSampleFinishes, SampleFinishes, queuevars, BaseInv, LoopInv, PhaseInv
    <2>2. /\ FinishObserves(r, CancelReason(r, token))
          /\ CancelReason(r, token) \cap Accounts = {}
        BY <1>6 DEF MeteredSampleFinishes, CancelReason, Accounts
    <2> QED BY <2>1, <2>2, CountFinish
<1>7. ASSUME NEW r \in Requests, NEW token \in Sampled, MeteredSampleEmits(r, token)
      PROVE  CountInv'
    BY <1>7, CountEmit
<1> QED BY <1>1, <1>2, <1>3, <1>4, <1>5, <1>6, <1>7 DEF MeteredNext

(* The instruments only watch: a metered step is a step of the batch loop. *)
LEMMA MeteredStep ==
    [MeteredNext]_<<vars, metricvars>> => [Next]_vars
<1> SUFFICES ASSUME MeteredNext PROVE Next
    OBVIOUS
<1> QED BY DEF MeteredNext, Next, LoopStep, Unmetered, MeteredSelect, MeteredDecode,
               MeteredGenerate, MeteredExpire, MeteredAdmit, MeteredFailOne,
               MeteredSampleFinishes, MeteredSampleEmits

LEMMA MeteredIsLoop == MeteredSpec => Spec
<1>1. MeteredInit => Init
    BY DEF MeteredInit
<1> QED BY <1>1, MeteredStep, PTL DEF MeteredSpec, Spec

LEMMA CountInvariant == MeteredSpec => []CountInv
<1>1. MeteredSpec => []BaseInv
    BY MeteredIsLoop, LoopInvariant, LoopTyped, PTL DEF BaseInv
<1> QED BY <1>1, CountInit, CountNext, PTL DEF MeteredSpec

(* Every accepted request is counted once as waiting's successor: as an    *)
(* observed wait or as a queue timeout; and every admission looks the      *)
(* prefix cache up once.                                                   *)
THEOREM NothingUncounted == MeteredSpec => []AcceptedAccounted
<1>1. CountInv => AcceptedAccounted
    BY DEF CountInv
<1> QED BY <1>1, CountInvariant, PTL

(* Every exit of a request that has emitted a token observes its           *)
(* throughput, once.                                                       *)
THEOREM ThroughputObservedOnce == MeteredSpec => []ThroughputPaired
<1>1. CountInv => ThroughputPaired
    BY DEF CountInv
<1> QED BY <1>1, CountInvariant, PTL
-----------------------------------------------------------------------------
(* The readers that have left early; those of them whose request has left  *)
(* the server as well.  Both only grow: an id is never served twice.       *)
Left == {r \in Streaming : consumer[r] \in {"leaving", "gone"}}
Departed == Left \ Served

LeftInv ==
    /\ counters["client_disconnect"] \in Nat
    /\ IsFiniteSet(Left)
    /\ counters["client_disconnect"] <= Cardinality(Departed)

(* Nobody who was never queued is served by a step of the loop.            *)
LEMMA LoopServesNoMore ==
    ASSUME LoopInv, LoopStep
    PROVE  Served' \subseteq Served
<1>1. CASE GoIdle \/ Wake \/ Select \/ Build \/ Yield \/ FailDone \/ SampleDone
           \/ Decode \/ DecodeFails
    BY <1>1 DEF GoIdle, Wake, Select, Build, Yield, FailDone, SampleDone, Decode,
                DecodeFails, queuevars, seqvars, Served, active
<1>2. ASSUME NEW r \in Requests, ExpireWaiter(r)
      PROVE  Served' \subseteq Served
    BY <1>2 DEF ExpireWaiter, seqvars, Served, active
<1>3. ASSUME NEW r \in Requests, Admit(r)
      PROVE  Served' \subseteq Served
    <2>1. r \in waiting /\ waiting' = waiting \ {r} /\ slot' \in [Requests -> SeqIds \cup {NoSeq}]
        BY <1>3, AdmitInv DEF Admit, LoopInv, PhaseInv, CoreInv, BooksInv, CoreTypeOK
    <2>2. active' \subseteq active \cup {r}
        BY <1>3, <2>1 DEF Admit, active, LoopInv, CoreInv, BooksInv, CoreTypeOK
    <2> QED BY <2>1, <2>2 DEF Served
<1>4. ASSUME NEW r \in Requests, FailOne(r)
      PROVE  Served' \subseteq Served
    BY <1>4, FinishCore DEF FailOne, queuevars, LoopInv, Served
<1>5. ASSUME NEW r \in Requests, NEW token \in Sampled, NEW timed_out \in BOOLEAN,
             SampleFinishes(r, token, timed_out)
      PROVE  Served' \subseteq Served
    <2>1. r \in active /\ finish(r) /\ UNCHANGED waiting
        BY <1>5 DEF SampleFinishes, queuevars, LoopInv, PhaseInv
    <2> QED BY <2>1, FinishCore DEF LoopInv, Served
<1>6. ASSUME NEW r \in Requests, NEW token \in Sampled, SampleEmits(r, token)
      PROVE  Served' \subseteq Served
    BY <1>6 DEF SampleEmits, queuevars, Served, active
<1> QED BY <1>1, <1>2, <1>3, <1>4, <1>5, <1>6 DEF LoopStep

LEMMA LeftGrows ==
    ASSUME LoopInv, StreamInv, IsFiniteSet(Left), [Next]_vars
    PROVE  IsFiniteSet(Left') /\ Departed \subseteq Departed'
<1>1. consumer \in [Requests -> ConsumerStates] /\ Streaming \subseteq Requests
    BY StreamAssumption DEF StreamInv
<1>2. CASE consumer' = consumer /\ Served' \subseteq Served
    BY <1>2 DEF Left, Departed
<1>3. CASE LoopStep \/ UNCHANGED vars
    <2>1. CASE UNCHANGED vars
        BY <1>2, <2>1 DEF vars, streamvars, queuevars, seqvars, Served, active
    <2> QED BY <1>2, <1>3, <2>1, LoopServesNoMore, LoopKeepsConsumers
<1>4. ASSUME NEW r \in Requests, generate(r) \/ Consume(r) \/ Client(r) \/ Age(r)
      PROVE  IsFiniteSet(Left') /\ Departed \subseteq Departed'
    <2>1. active' = active
        BY <1>4 DEF generate, Consume, Client, Age, seqvars, active
    <2>2. /\ \A q \in Requests \ {r} : consumer'[q] = consumer[q]
          /\ consumer[r] \in {"leaving", "gone"} => consumer'[r] \in {"leaving", "gone"}
          /\ consumer[r] = "none" \/ Served' = Served
          /\ Served' \subseteq Served \cup {r}
        <3>1. CASE generate(r)
            BY <1>1, <1>4, <2>1, <3>1
            DEF generate, Accept, Reject, push, Served
        <3>2. CASE Consume(r) \/ Client(r)
            BY <1>1, <2>1, <3>2
            DEF Consume, Client, queuevars, Served, ConsumerStep, ClientStep, Start, ReceiveText,
                SeeDisconnect, ReceiveEnd, Finalize, Disconnect, CancelTask, CancelSend
        <3>3. CASE Age(r)
            BY <2>1, <3>3 DEF Age, streamvars, Served
        <3> QED BY <1>4, <3>1, <3>2, <3>3
    <2>3. Left \subseteq Left' /\ Left' \subseteq Left \cup {r}
        BY <1>1, <2>2 DEF Left
    <2>4. IsFiniteSet(Left')
        BY <2>3, FS_AddElement, FS_Subset
    <2>5. Departed \subseteq Departed'
        <3> SUFFICES ASSUME NEW q \in Departed PROVE q \notin Served'
            BY <2>3 DEF Departed
        <3> QED BY <1>1, <2>2 DEF Departed, Left
    <2> QED BY <2>4, <2>5
<1> QED BY <1>3, <1>4 DEF Next

(* A request that finish() puts down to its client has lost its reader.    *)
LEMMA DisconnectDeparts ==
    ASSUME LoopInv, StreamInv, NEW r \in active, is_cancelled(r), finish(r),
           UNCHANGED <<waiting, consumer>>
    PROVE  r \in Departed' /\ r \notin Departed
<1>1. r \in Requests /\ r \in Served /\ StreamOk(r)
    BY DEF active, Served, StreamInv
<1>2. consumer[r] \in {"leaving", "gone"} /\ r \in Streaming
    BY <1>1 DEF StreamOk, is_cancelled
<1>3. active' = active \ {r} /\ r \notin waiting
    BY FinishCore DEF LoopInv, CoreInv, BooksInv, ReservationsExact
<1> QED BY <1>1, <1>2, <1>3 DEF Departed, Left, Served

LEMMA LeftNext ==
    ASSUME BaseInv, StreamInv, LeftInv, [MeteredNext]_<<vars, metricvars>>
    PROVE  LeftInv'
<1>0. LoopInv
    BY DEF BaseInv
<1>1. IsFiniteSet(Left') /\ Departed \subseteq Departed'
    BY <1>0, MeteredStep, LeftGrows DEF LeftInv
<1>2. /\ IsFiniteSet(Departed') /\ Cardinality(Departed') \in Nat /\ Cardinality(Departed) \in Nat
      /\ Cardinality(Departed) <= Cardinality(Departed')
      /\ Departed # Departed' => Cardinality(Departed) < Cardinality(Departed')
    <2>1. IsFiniteSet(Departed')
        BY <1>1, FS_Subset DEF Departed
    <2> HIDE DEF Departed
    <2> QED BY <1>1, <2>1, FS_Subset, FS_CardinalityType
<1>3. CASE counters'["client_disconnect"] = counters["client_disconnect"]
    BY <1>1, <1>2, <1>3 DEF LeftInv
<1>4. ASSUME counters'["client_disconnect"] # counters["client_disconnect"]
      PROVE  LeftInv'
    <2>1. PICK r \in Requests, token \in Sampled, timed_out \in BOOLEAN :
             /\ MeteredSampleFinishes(r, token, timed_out)
             /\ is_cancelled(r)
             /\ counters'["client_disconnect"] = counters["client_disconnect"] + 1
        <3> DEFINE c == "client_disconnect"
        <3>1. c \in Counters /\ counters[c] \in Nat
            BY DEF Counters, Cancellations, LeftInv
        <3>2. ASSUME NEW names, Inc(Once(names)), c \notin names
              PROVE  FALSE
            BY <1>4, <3>1, <3>2 DEF Inc, Once
        <3>3. ASSUME UNCHANGED counters PROVE FALSE
            BY <1>4, <3>3
        <3>4. ~(Unmetered \/ MeteredSelect \/ UNCHANGED <<vars, metricvars>>)
            BY <3>3 DEF Unmetered, MeteredSelect, metricvars
        <3>5. ~MeteredDecode
            BY <1>4, <3>1 DEF MeteredDecode, Inc, Once
        <3>6. ASSUME NEW r \in Requests, MeteredGenerate(r) \/ MeteredExpire(r)
              PROVE  FALSE
            BY <3>2, <3>6 DEF MeteredGenerate, MeteredExpire
        <3>7. ASSUME NEW r \in Requests, MeteredAdmit(r)
              PROVE  FALSE
            <4>1. c \notin {"queue_wait"} \cup Lookup(r)
                BY <3>7, OneOutcome DEF MeteredAdmit, BaseInv, Lookups
            <4>2. counters'[c] = counters[c] + IF c \in {"queue_wait"} \cup Lookup(r) THEN 1 ELSE 0
                BY <3>7 DEF MeteredAdmit, Inc, Once, Counters, Cancellations
            <4> QED BY <1>4, <3>1, <4>1, <4>2
        <3>8. ASSUME NEW r \in Requests, MeteredFailOne(r)
              PROVE  FALSE
            BY <3>2, <3>8 DEF MeteredFailOne, FinishObserves
        <3>9. ASSUME NEW r \in Requests, NEW token \in Sampled, MeteredSampleEmits(r, token)
              PROVE  FALSE
            BY <3>2, <3>9 DEF MeteredSampleEmits
        <3>10. ASSUME NEW r \in Requests, NEW token \in Sampled, NEW timed_out \in BOOLEAN,
                      MeteredSampleFinishes(r, token, timed_out)
               PROVE  is_cancelled(r) /\ counters'[c] = counters[c] + 1
            <4>1. PICK more \in {{}, {"tokens_per_second"}} :
                     Inc(Once(CancelReason(r, token) \cup more))
                BY <3>10 DEF MeteredSampleFinishes, FinishObserves
            <4>2. c \in CancelReason(r, token)
                BY <3>2, <4>1
            <4>3. is_cancelled(r)
                BY <4>2 DEF CancelReason
            <4> QED BY <3>1, <4>1, <4>2, <4>3 DEF Inc, Once
        <3> QED BY <3>4, <3>5, <3>6, <3>7, <3>8, <3>9, <3>10 DEF MeteredNext
    <2>2. /\ r \in active /\ finish(r) /\ UNCHANGED <<waiting, consumer>>
        BY <1>0, <2>1 DEF MeteredSampleFinishes, SampleFinishes, queuevars, LoopInv, PhaseInv
    <2>3. Departed # Departed'
        BY <1>0, <2>1, <2>2, DisconnectDeparts
    <2> QED BY <1>1, <1>2, <2>1, <2>3 DEF LeftInv
<1> QED BY <1>3, <1>4

LEMMA LeftInit == MeteredInit => LeftInv
<1> SUFFICES ASSUME MeteredInit PROVE LeftInv
    OBVIOUS
<1>1. Left = {} /\ Departed = {}
    BY StreamAssumption DEF MeteredInit, Init, StreamInit, Left, Departed
<1>2. counters["client_disconnect"] = 0
    BY DEF MeteredInit, Counters, Cancellations
<1> QED BY <1>1, <1>2, FS_EmptySet DEF LeftInv

(* The client is blamed for no cancellation but those of readers that left *)
(* early: client_disconnect never exceeds their number.                    *)
THEOREM OnlyLeaversBlamed == MeteredSpec => []DisconnectsAreReal
<1>1. LeftInv => DisconnectsAreReal
    <2> SUFFICES ASSUME LeftInv PROVE DisconnectsAreReal
        OBVIOUS
    <2>1. Departed \subseteq Left
        BY DEF Departed
    <2>2. Cardinality(Departed) <= Cardinality(Left)
          /\ Cardinality(Departed) \in Nat /\ Cardinality(Left) \in Nat
        BY <2>1, FS_Subset, FS_CardinalityType DEF LeftInv
    <2>3. counters["client_disconnect"] <= Cardinality(Left)
        BY <2>2 DEF LeftInv
    <2> QED BY <2>3 DEF DisconnectsAreReal, Left
<1>2. MeteredSpec => [](BaseInv /\ StreamInv)
    BY MeteredIsLoop, LoopInvariant, LoopTyped, StreamInvariant, PTL DEF BaseInv
<1> QED BY <1>1, <1>2, LeftInit, LeftNext, PTL DEF MeteredSpec
-----------------------------------------------------------------------------
(* What the requests in the batch have reserved.                           *)
InBatch == [r \in active \cap DOMAIN block_table |-> block_table[r]]

GaugeNames == {"queue_depth", "kv_blocks_free", "kv_blocks_used", "prefix_cache_nodes"}

GaugeInv ==
    /\ gauges = [g \in GaugeNames |-> gauges[g]]
    /\ PrefixCacheEnabled => gauges.prefix_cache_nodes = Cardinality(Nodes)
    /\ pc = "admit" => gauges.kv_blocks_used = Total(block_table)
    /\ pc = "decoding" => gauges.kv_blocks_used >= Total(InBatch)

(* Setting one gauge leaves the others alone.                              *)
LEMMA SetGauge ==
    ASSUME NEW g, g = [n \in GaugeNames |-> g[n]], NEW name \in GaugeNames, NEW value
    PROVE  LET h == [g EXCEPT ![name] = value]
           IN  /\ h = [n \in GaugeNames |-> h[n]]
               /\ h[name] = value
               /\ \A n \in GaugeNames \ {name} : h[n] = g[n]
OBVIOUS

LEMMA SelectGauges ==
    ASSUME GaugeInv, MeteredSelect
    PROVE  /\ gauges' = [n \in GaugeNames |-> gauges'[n]]
           /\ gauges'.prefix_cache_nodes = gauges.prefix_cache_nodes
           /\ gauges'.kv_blocks_used = total_blocks - free_blocks
<1> DEFINE g1 == [gauges EXCEPT !["queue_depth"] = Cardinality(waiting)]
           g2 == [g1 EXCEPT !["kv_blocks_free"] = free_blocks]
           g3 == [g2 EXCEPT !["kv_blocks_used"] = total_blocks - free_blocks]
<1>1. gauges' = g3
    BY Zenon DEF MeteredSelect
<1>2. /\ g1 = [n \in GaugeNames |-> g1[n]]
      /\ g1["prefix_cache_nodes"] = gauges["prefix_cache_nodes"]
    BY SetGauge DEF GaugeInv, GaugeNames
<1> HIDE DEF g1
<1>3. /\ g2 = [n \in GaugeNames |-> g2[n]]
      /\ g2["prefix_cache_nodes"] = g1["prefix_cache_nodes"]
    BY <1>2, SetGauge DEF GaugeNames
<1> HIDE DEF g2
<1>4. /\ g3 = [n \in GaugeNames |-> g3[n]]
      /\ g3["prefix_cache_nodes"] = g2["prefix_cache_nodes"]
      /\ g3["kv_blocks_used"] = total_blocks - free_blocks
    BY <1>3, SetGauge DEF GaugeNames
<1> HIDE DEF g3
<1> QED BY <1>1, <1>2, <1>3, <1>4

(* A step that sets prefix_cache_nodes sets it to the size of the tree.    *)
LEMMA NodesGauge ==
    ASSUME GaugeInv, SetNodes
    PROVE  /\ gauges' = [n \in GaugeNames |-> gauges'[n]]
           /\ PrefixCacheEnabled => gauges'.prefix_cache_nodes = Cardinality(Nodes')
           /\ gauges'.kv_blocks_used = gauges.kv_blocks_used
BY DEF GaugeInv, SetNodes, GaugeNames

(* The batch has reserved no more than everybody together.                 *)
LEMMA BatchWithinTable ==
    ASSUME LoopInv
    PROVE  /\ Total(InBatch) \in Nat /\ Total(block_table) \in Nat
           /\ Total(InBatch) <= Total(block_table)
<1>1. Units(InBatch) \subseteq Units(block_table)
    BY DEF Units, InBatch
<1>2. IsFiniteSet(Units(block_table))
    BY DEF LoopInv, CoreInv, BooksInv, KVInv, Ledger
<1> QED BY <1>1, <1>2, FS_Subset, FS_CardinalityType DEF Total

LEMMA GaugeInit == MeteredInit => GaugeInv
<1> SUFFICES ASSUME MeteredInit PROVE GaugeInv
    OBVIOUS
<1>1. gauges = [n \in GaugeNames |-> 0] /\ gauges.prefix_cache_nodes = 0
    BY DEF MeteredInit, GaugeNames
<1>2. \A s \in SeqIds : AlignedLengths(Len(claims[s])) = {}
    BY DEF MeteredInit, Init, IndexInit, AlignedLengths
<1>3. Nodes = {}
    BY <1>2 DEF Nodes
<1> QED BY <1>1, <1>3, FS_EmptySet DEF GaugeInv, MeteredInit, Init

(* A handler's or reader's step adds nothing to the batch.                 *)
LEMMA HandlersKeepBatch ==
    ASSUME LoopInv, NEW r \in Requests, generate(r) \/ Consume(r) \/ Client(r) \/ Age(r)
    PROVE  InBatch' = InBatch /\ pc' = pc /\ claims' = claims /\ pc # "admit"
<1>1. /\ active' = active /\ pc' = pc /\ claims' = claims /\ pc # "admit"
      /\ DOMAIN block_table = waiting \cup active
    BY DEF generate, Consume, Client, Age, seqvars, indexvars, active, AtAwait,
           LoopInv, CoreInv, BooksInv, ReservationsExact
<1>2. CASE UNCHANGED block_table
    BY <1>1, <1>2 DEF InBatch
<1>3. CASE Accept(r)
    <2>1. /\ r \notin DOMAIN block_table
          /\ block_table' = With(block_table, r, blocks_needed(worst_case_tokens(r)))
        BY <1>3 DEF Accept, Reserve
    <2>2. /\ active' \cap DOMAIN block_table' = active \cap DOMAIN block_table
          /\ \A q \in DOMAIN block_table : block_table'[q] = block_table[q]
        BY <1>1, <2>1 DEF With
    <2> QED BY <1>1, <2>2 DEF InBatch
<1> QED BY <1>1, <1>2, <1>3 DEF generate, Reject, ReserveRefused, Consume, Client, Age, kvvars

LEMMA GaugeKept ==
    ASSUME GaugeInv, UNCHANGED <<gauges, InBatch, pc, claims>>, pc # "admit"
    PROVE  GaugeInv'
<1>1. Nodes' = Nodes
    BY DEF Nodes
<1>2. Total(InBatch') = Total(InBatch)
    OBVIOUS
<1> QED BY <1>1, <1>2 DEF GaugeInv

LEMMA GaugeNext ==
    ASSUME LoopInv, LoopInv', GaugeInv, [MeteredNext]_<<vars, metricvars>>
    PROVE  GaugeInv'
<1>1. CASE Unmetered \/ UNCHANGED <<vars, metricvars>>
    <2>1. gauges' = gauges
        BY <1>1 DEF Unmetered, metricvars
    <2>2. CASE UNCHANGED <<vars, metricvars>>
        BY <2>2 DEF vars, metricvars, kvvars, seqvars, indexvars, GaugeInv, Nodes, InBatch,
                    Total, Units, active
    <2>3. CASE GoIdle \/ Wake \/ Yield \/ FailDone \/ SampleDone \/ DecodeFails
        <3>1. pc' \notin {"admit", "decoding"} /\ claims' = claims
            BY <2>3 DEF GoIdle, Wake, Yield, FailDone, SampleDone, DecodeFails, indexvars
        <3> QED BY <2>1, <3>1 DEF GaugeInv, Nodes
    <2>4. CASE Build
        <3>1. pc = "admit" /\ pc' # "admit" /\ claims' = claims /\ InBatch' = InBatch
            BY <2>4 DEF Build, indexvars, kvvars, seqvars, InBatch, active
        <3> QED BY <2>1, <3>1, BatchWithinTable DEF GaugeInv, Nodes
    <2>5. ASSUME NEW r \in Requests, Consume(r) \/ Client(r) \/ Age(r)
          PROVE  GaugeInv'
        BY <2>1, <2>5, HandlersKeepBatch, GaugeKept
    <2> QED BY <1>1, <2>2, <2>3, <2>4, <2>5 DEF Unmetered
<1>2. CASE MeteredSelect
    <2>1. pc' = "admit" /\ claims' = claims /\ UNCHANGED <<free_blocks, block_table>>
        BY <1>2 DEF MeteredSelect, Select, indexvars, kvvars
    <2>2. total_blocks - free_blocks = Total(block_table)
        BY FS_CardinalityType, KVAssumption, BlockAssumption
        DEF LoopInv, CoreInv, BooksInv, KVInv, Ledger, KVTypeOK, Total, total_blocks
    <2> QED BY <1>2, <2>1, <2>2, SelectGauges DEF GaugeInv, Nodes
<1>3. CASE MeteredDecode
    BY <1>3 DEF MeteredDecode, Decode, indexvars, GaugeInv, Nodes
<1>4. ASSUME NEW r \in Requests, MeteredGenerate(r)
      PROVE  GaugeInv'
    BY <1>4, HandlersKeepBatch, GaugeKept DEF MeteredGenerate
<1>5. ASSUME NEW r \in Requests, MeteredExpire(r)
      PROVE  GaugeInv'
    BY <1>5 DEF MeteredExpire, ExpireWaiter, indexvars, GaugeInv, Nodes
<1>6. ASSUME NEW r \in Requests, MeteredAdmit(r)
      PROVE  GaugeInv'
    <2>1. pc = "admit" /\ pc' = "admit" /\ block_table' = block_table /\ SetNodes
        BY <1>6 DEF MeteredAdmit, Admit, kvvars
    <2> QED BY <2>1, NodesGauge DEF GaugeInv
<1>7. ASSUME NEW r \in Requests, MeteredFailOne(r)
      PROVE  GaugeInv'
    <2>1. pc' = "failed" /\ SetNodes
        BY <1>7 DEF MeteredFailOne, FailOne, FinishObserves
    <2> QED BY <2>1, NodesGauge DEF GaugeInv
<1>8. ASSUME NEW r \in Requests, NEW token \in Sampled, NEW timed_out \in BOOLEAN,
             MeteredSampleFinishes(r, token, timed_out)
      PROVE  GaugeInv'
    <2>1. pc' = "sample" /\ SetNodes
        BY <1>8 DEF MeteredSampleFinishes, SampleFinishes, FinishObserves
    <2> QED BY <2>1, NodesGauge DEF GaugeInv
<1>9. ASSUME NEW r \in Requests, NEW token \in Sampled, MeteredSampleEmits(r, token)
      PROVE  GaugeInv'
    BY <1>9 DEF MeteredSampleEmits, SampleEmits, indexvars, GaugeInv, Nodes
<1> QED BY <1>1, <1>2, <1>3, <1>4, <1>5, <1>6, <1>7, <1>8, <1>9 DEF MeteredNext

(* A scrape of /metrics at any await sees the size of the prefix tree as   *)
(* it is, and during a decode no fewer blocks in use than the batch holds. *)
THEOREM GaugesNeverLie == MeteredSpec => []GaugesHonest
<1>1. GaugeInv => GaugesHonest
    BY DEF GaugeInv, GaugesHonest, InBatch
<1>2. MeteredSpec => []LoopInv
    BY MeteredIsLoop, LoopInvariant, PTL
<1> QED BY <1>1, <1>2, GaugeInit, GaugeNext, PTL DEF MeteredSpec
-----------------------------------------------------------------------------
(* The counters of the balance.                                            *)
Tally == {"decode_error", "batch_tokens", "reused", "prefill", "ttft", "inter_token"}

BalanceInv ==
    /\ \A c \in Tally : counters[c] \in Nat
    /\ TokensBalance

(* Only active requests have pending tokens, and finitely many in all.     *)
LEMMA BacklogFinite ==
    ASSUME TypeInv, RoomInv
    PROVE  /\ Backlog \in [Requests -> Nat]
           /\ IsFiniteSet(Units(Backlog)) /\ Total(Backlog) \in Nat
           /\ \A r \in Requests \ active : Backlog[r] = 0
<1>1. Backlog \in [Requests -> Nat] /\ \A r \in Requests : Backlog[r] = Len(pending[r])
    BY ServiceTypes DEF Backlog
<1>2. ASSUME NEW r \in active
      PROVE  Backlog[r] <= Len(context[r])
    <2>1. n_past[r] \in Nat /\ Len(pending[r]) \in Nat /\ Backlog[r] = Len(pending[r])
        BY <1>1, ServiceTypes
    <2>2. n_past[r] + Len(pending[r]) = Len(context[r])
        BY DEF RoomInv
    <2> QED BY <2>1, <2>2
<1>3. \A r \in Requests \ active : Backlog[r] = 0
    <2>1. Len(<<>>) = 0
        OBVIOUS
    <2>2. \A r \in Requests \ active : pending[r] = <<>>
        BY DEF TypeInv, CellLoopInv, CellInv
    <2> QED BY <1>1, <2>1, <2>2, Zenon
<1>4. IsFiniteSet(Units(Backlog))
    BY <1>1, <1>2, <1>3, RowsFitContext
<1> QED BY <1>1, <1>3, <1>4, FS_CardinalityType DEF Total

LEMMA BalanceUnchanged ==
    ASSUME BalanceInv, \A c \in Tally : counters'[c] = counters[c], Total(Backlog') = Total(Backlog)
    PROVE  BalanceInv'
BY DEF BalanceInv, Tally, TokensBalance

LEMMA BalanceInit == MeteredInit => BalanceInv
<1> SUFFICES ASSUME MeteredInit PROVE BalanceInv
    OBVIOUS
<1>1. \A c \in Tally : counters[c] = 0
    BY DEF MeteredInit, Tally, Counters, Cancellations
<1>2. Len(<<>>) = 0
    OBVIOUS
<1>3. \A r \in Requests : Backlog[r] = 0
    BY <1>2, Zenon DEF MeteredInit, Init, Backlog
<1>4. Units(Backlog) = {}
    <2> SUFFICES ASSUME NEW u \in Units(Backlog) PROVE FALSE
        OBVIOUS
    <2>1. u[1] \in Requests /\ u[2] \in 1..Backlog[u[1]]
        BY UnitPair DEF Backlog
    <2> QED BY <1>3, <2>1
<1>5. Total(Backlog) = 0
    BY <1>4, FS_EmptySet DEF Total
<1> QED BY <1>1, <1>5 DEF BalanceInv, TokensBalance, Tally

(* Inc(Once(names)), for the counters of the balance.                      *)
LEMMA TallyOnce ==
    ASSUME \A c \in Tally : counters[c] \in Nat, NEW names, Inc(Once(names))
    PROVE  /\ \A c \in Tally : counters'[c] \in Nat
           /\ \A c \in Tally : c \in names => counters'[c] = counters[c] + 1
           /\ \A c \in Tally : c \notin names => counters'[c] = counters[c]
BY DEF Tally, Counters, Cancellations, Lookups, Inc, Once

(* admit(): the prompt goes into the backlog, but for what is reused.      *)
LEMMA BalanceAdmit ==
    ASSUME TypeInv, RoomInv, TypeOK, BalanceInv, NEW r \in Requests, MeteredAdmit(r)
    PROVE  BalanceInv'
<1>1. Admit(r) /\ Prompt[r] \in Seq(Token) /\ Len(Prompt[r]) \in Nat
    BY LoopAssumption DEF MeteredAdmit
<1>2. PICK reused \in Nat :
         /\ reused < Len(Prompt[r])
         /\ n_past' = [n_past EXCEPT ![r] = reused]
         /\ pending' = [pending EXCEPT ![r] = SubSeq(Prompt[r], reused + 1, Len(Prompt[r]))]
    BY <1>1, AdmitLeavesOne
<1> DEFINE left == Len(Prompt[r]) - reused
<1>3. Len(SubSeq(Prompt[r], reused + 1, Len(Prompt[r]))) = left /\ left \in Nat
    BY <1>1, <1>2
<1>4. Backlog' = [Backlog EXCEPT ![r] = left] /\ n_past'[r] = reused
    <2>1. pending \in [Requests -> Seq(Token)] /\ n_past \in [Requests -> Nat]
        BY ServiceTypes
    <2>2. \A q \in Requests :
             Len(pending'[q]) = IF q = r THEN left ELSE Len(pending[q])
        BY <1>2, <1>3, <2>1
    <2> QED BY <1>2, <2>1, <2>2 DEF Backlog
<1>5. Total(Backlog') = Total(Backlog) + left /\ Total(Backlog) \in Nat
    <2>1. r \notin active
        BY <1>1, ServiceTypes DEF Admit, LoopInv, PhaseInv
    <2>2. /\ Backlog \in [Requests -> Nat] /\ IsFiniteSet(Units(Backlog))
          /\ Total(Backlog) \in Nat /\ Backlog[r] = 0
        BY <2>1, BacklogFinite
    <2> HIDE DEF left
    <2>3. Total([Backlog EXCEPT ![r] = left]) = Total(Backlog) + left
        BY <1>3, <2>2, TotalReplace
    <2> QED BY <1>4, <2>2, <2>3
<1>6. Lookup(r) \subseteq Lookups
    BY <1>1, OneOutcome
<1>7. /\ counters'["prefill"] = counters["prefill"] + Len(Prompt[r])
      /\ counters'["reused"] = counters["reused"] + n_past'[r]
    BY DEF MeteredAdmit, Inc, Once, Counters
<1>8. \A c \in Tally \ {"prefill", "reused"} : counters'[c] = counters[c]
    <2>1. \A c \in Tally \ {"prefill", "reused"} :
             counters'[c] = counters[c] + IF c \in {"queue_wait"} \cup Lookup(r) THEN 1 ELSE 0
        BY DEF MeteredAdmit, Inc, Once, Tally, Counters, Cancellations
    <2>2. \A c \in Tally : c \notin {"queue_wait"} \cup Lookup(r)
        BY <1>6 DEF Tally, Lookups
    <2> QED BY <2>1, <2>2 DEF BalanceInv
<1>9. counters'["prefill"] \in Nat /\ counters'["reused"] \in Nat
    BY <1>1, <1>2, <1>4, <1>7 DEF BalanceInv, Tally
<1>10. \A c \in Tally : counters'[c] \in Nat
    BY <1>8, <1>9 DEF BalanceInv
<1>11. TokensBalance'
    <2> SUFFICES ASSUME counters'["decode_error"] = 0
                 PROVE  counters'["batch_tokens"] + counters'["reused"] + Total(Backlog') =
                          counters'["prefill"] + counters'["ttft"] + counters'["inter_token"]
        BY DEF TokensBalance
    <2>1. /\ counters["decode_error"] = 0
          /\ counters'["batch_tokens"] = counters["batch_tokens"]
          /\ counters'["ttft"] = counters["ttft"]
          /\ counters'["inter_token"] = counters["inter_token"]
          /\ counters'["reused"] = counters["reused"] + reused
        BY <1>4, <1>7, <1>8 DEF Tally
    <2>2. counters["batch_tokens"] + counters["reused"] + Total(Backlog) =
             counters["prefill"] + counters["ttft"] + counters["inter_token"]
        BY <2>1 DEF BalanceInv, TokensBalance
    <2>3. /\ counters["batch_tokens"] \in Nat /\ counters["reused"] \in Nat
          /\ counters["prefill"] \in Nat /\ counters["ttft"] \in Nat
          /\ counters["inter_token"] \in Nat
        BY DEF BalanceInv, Tally
    <2>4. Total(Backlog') + reused = Total(Backlog) + Len(Prompt[r]) /\ Total(Backlog') \in Nat
        BY <1>1, <1>2, <1>3, <1>5
    <2>5. counters'["prefill"] = counters["prefill"] + Len(Prompt[r])
        BY <1>7
    <2> DEFINE before == Total(Backlog)
               after == Total(Backlog')
               n == Len(Prompt[r])
    <2>6. before \in Nat /\ after \in Nat /\ n \in Nat /\ after + reused = before + n
        BY <1>1, <1>5, <2>4
    <2>7. /\ counters["batch_tokens"] + counters["reused"] + before =
                counters["prefill"] + counters["ttft"] + counters["inter_token"]
          /\ counters'["prefill"] = counters["prefill"] + n
        BY <2>2, <2>5
    <2> HIDE DEF before, after, n
    <2>8. counters'["batch_tokens"] + counters'["reused"] + after =
             counters'["prefill"] + counters'["ttft"] + counters'["inter_token"]
        BY <2>1, <2>3, <2>6, <2>7
    <2> QED BY <2>8 DEF after
<1> QED BY <1>10, <1>11 DEF BalanceInv

(* decode(): the rows of the batch leave the backlog.                      *)
LEMMA BalanceDecode ==
    ASSUME TypeInv, RoomInv, BalanceInv, MeteredDecode
    PROVE  BalanceInv'
<1>1. /\ pending' = [r \in Requests |-> SubSeq(pending[r], take[r] + 1, Len(pending[r]))]
      /\ pending \in [Requests -> Seq(Token)] /\ take \in [Requests -> Nat]
      /\ \A r \in Requests : take[r] <= Len(pending[r])
    BY ServiceTypes DEF MeteredDecode, Decode, TypeInv, CellLoopInv, CellInv
<1>2. ASSUME NEW r \in Requests
      PROVE  Backlog'[r] \in Nat /\ Backlog[r] = take[r] + Backlog'[r]
    <2>1. pending[r] \in Seq(Token) /\ take[r] \in Nat /\ take[r] <= Len(pending[r])
        BY <1>1
    <2>2. Len(SubSeq(pending[r], take[r] + 1, Len(pending[r]))) = Len(pending[r]) - take[r]
        BY <2>1
    <2>3. Backlog[r] = Len(pending[r]) /\ Backlog'[r] = Len(pending'[r])
        BY DEF Backlog
    <2>4. Backlog'[r] = Len(pending[r]) - take[r]
        BY <1>1, <2>2, <2>3
    <2> QED BY <2>1, <2>3, <2>4
<1>3. Backlog' \in [Requests -> Nat]
    BY <1>2 DEF Backlog
<1>4. /\ Total(Backlog) = Total(take) + Total(Backlog')
      /\ Total(take) \in Nat /\ Total(Backlog') \in Nat
    <2>1. Backlog \in [Requests -> Nat] /\ IsFiniteSet(Units(Backlog))
        BY BacklogFinite
    <2>2. \A r \in Requests : Backlog[r] = take[r] + Backlog'[r]
        BY <1>2
    <2>3. take \in [Requests -> Nat]
        BY <1>1
    <2>4. DOMAIN Backlog = Requests
        BY <2>1
    <2> QED BY <1>3, <2>1, <2>2, <2>3, <2>4, TotalSplit
<1>5. /\ counters'["batch_tokens"] = counters["batch_tokens"] + Total(take)
      /\ \A c \in Tally \ {"batch_tokens"} : counters'[c] = counters[c]
    BY DEF BalanceInv, MeteredDecode, Inc, Once, Tally, Counters, Cancellations
<1>6. \A c \in Tally : counters'[c] \in Nat
    BY <1>4, <1>5 DEF BalanceInv, Tally
<1> QED BY <1>4, <1>5, <1>6 DEF BalanceInv, TokensBalance, Tally

(* An emitted token is a row of the next batch.                            *)
LEMMA BalanceEmit ==
    ASSUME TypeInv, RoomInv, BalanceInv, NEW r \in Requests, NEW token \in Sampled,
           MeteredSampleEmits(r, token)
    PROVE  BalanceInv'
<1>1. /\ pending[r] = <<>> /\ pending' = [pending EXCEPT ![r] = <<token>>]
      /\ pending \in [Requests -> Seq(Token)]
    BY ServiceTypes DEF MeteredSampleEmits, SampleEmits, TypeInv, CellLoopInv, CellInv
<1>2. Len(<<>>) = 0 /\ Len(<<token>>) = 1
    OBVIOUS
<1>3. Backlog[r] = 0 /\ Backlog' = [Backlog EXCEPT ![r] = 1]
    <2>1. Backlog[r] = 0
        BY <1>1, <1>2, Zenon DEF Backlog
    <2>2. \A q \in Requests : Len(pending'[q]) = IF q = r THEN 1 ELSE Len(pending[q])
        BY <1>1, <1>2
    <2> QED BY <2>1, <2>2 DEF Backlog
<1>4. Total(Backlog') = Total(Backlog) + 1 /\ Total(Backlog) \in Nat
    <2>1. /\ Backlog \in [Requests -> Nat] /\ IsFiniteSet(Units(Backlog))
          /\ Total(Backlog) \in Nat
        BY BacklogFinite
    <2>2. Total([Backlog EXCEPT ![r] = 1]) = Total(Backlog) + 1
        BY <1>3, <2>1, TotalReplace
    <2> QED BY <1>3, <2>1, <2>2
<1>5. PICK name \in {"ttft", "inter_token"} : Inc(Once({name}))
    BY DEF MeteredSampleEmits
<1>6. /\ \A c \in Tally : counters'[c] \in Nat
      /\ counters'[name] = counters[name] + 1
      /\ \A c \in Tally \ {name} : counters'[c] = counters[c]
    BY <1>5, TallyOnce DEF BalanceInv, Tally
<1> QED BY <1>4, <1>5, <1>6 DEF BalanceInv, TokensBalance, Tally

LEMMA BalanceNext ==
    ASSUME TypeInv, RoomInv, TypeOK, BalanceInv, [MeteredNext]_<<vars, metricvars>>
    PROVE  BalanceInv'
<1>1. CASE UNCHANGED <<pending, counters>>
    BY <1>1, BalanceUnchanged DEF Backlog
<1>2. CASE Unmetered \/ MeteredSelect \/ UNCHANGED <<vars, metricvars>>
    BY <1>1, <1>2 DEF Unmetered, MeteredSelect, metricvars, vars, Select, GoIdle, Wake, Build,
                      Yield, FailDone, SampleDone, DecodeFails, Consume, Client, Age, seqvars
<1>3. ASSUME NEW r \in Requests, MeteredGenerate(r) \/ MeteredExpire(r)
      PROVE  BalanceInv'
    <2>1. UNCHANGED pending
        BY <1>3 DEF MeteredGenerate, MeteredExpire, generate, ExpireWaiter, seqvars
    <2>2. PICK name \in {"accepted", "queue_full", "kv_cache_full", "queue_timeout"} :
                Inc(Once({name}))
        BY <1>3 DEF MeteredGenerate, MeteredExpire
    <2>3. \A c \in Tally : counters'[c] = counters[c]
        BY <2>2, TallyOnce DEF BalanceInv, Tally
    <2> QED BY <2>1, <2>3, BalanceUnchanged DEF Backlog
<1>4. ASSUME NEW r \in Requests, MeteredFailOne(r)
      PROVE  BalanceInv'
    <2>1. PICK more \in {{}, {"tokens_per_second"}} : Inc(Once({"decode_error"} \cup more))
        BY <1>4 DEF MeteredFailOne, FinishObserves
    <2>2. (\A c \in Tally : counters'[c] \in Nat) /\ counters'["decode_error"] > 0
        BY <2>1, TallyOnce DEF BalanceInv, Tally
    <2> QED BY <2>2 DEF BalanceInv, TokensBalance
<1>5. ASSUME NEW r \in Requests, NEW token \in Sampled, NEW timed_out \in BOOLEAN,
             MeteredSampleFinishes(r, token, timed_out)
      PROVE  BalanceInv'
    <2>1. /\ pending[r] = <<>> /\ pending' = [pending EXCEPT ![r] = <<>>]
          /\ pending \in [Requests -> Seq(Token)]
        BY <1>5, ServiceTypes DEF MeteredSampleFinishes, SampleFinishes, finish,
                    GiveBack, LeaveBatch,
                                  TypeInv, CellLoopInv, CellInv
    <2>2. pending' = pending
        BY <2>1
    <2>3. PICK more \in {{}, {"tokens_per_second"}} : Inc(Once(CancelReason(r, token) \cup more))
        BY <1>5 DEF MeteredSampleFinishes, FinishObserves
    <2>4. \A c \in Tally : counters'[c] = counters[c]
        <3>1. CancelReason(r, token) \cap Tally = {}
            BY DEF CancelReason, Tally
        <3>2. \A c \in Tally : c \notin CancelReason(r, token) \cup more
            BY <3>1 DEF Tally
        <3> QED BY <2>3, <3>2, TallyOnce DEF BalanceInv
    <2> QED BY <2>2, <2>4, BalanceUnchanged DEF Backlog
<1> QED BY <1>2, <1>3, <1>4, <1>5, BalanceAdmit, BalanceDecode, BalanceEmit DEF MeteredNext

(* Every prompt token admitted and every token emitted is decoded once,    *)
(* reused once or still pending: whatever the chunk size, the batch        *)
(* capacity and the way prompts share prefixes, none is skipped or         *)
(* decoded twice.                                                          *)
THEOREM TokensDecodedOnce == MeteredSpec => []TokensBalance
<1>1. BalanceInv => TokensBalance
    BY DEF BalanceInv
<1>2. MeteredSpec => [](TypeInv /\ RoomInv /\ TypeOK)
    BY MeteredIsLoop, ServiceInvariant, LoopTyped, PTL
<1> QED BY <1>1, <1>2, BalanceInit, BalanceNext, PTL DEF MeteredSpec
-----------------------------------------------------------------------------
(***************************************************************************)
(* From push_token() to the reader, under the page's specification: what   *)
(* a reader has passed on, what waits in its queue and what the decoder    *)
(* holds is always what was pushed, in order (SessionData).                *)
(***************************************************************************)

(* Facts about concatenation.                                              *)
LEMMA ConcatAppend ==
    ASSUME NEW S, NEW a \in Seq(S), NEW b \in Seq(S), NEW x \in S
    PROVE  a \o Append(b, x) = Append(a \o b, x) /\ a \o b \in Seq(S)
<1>1. Append(b, x) = b \o <<x>> /\ <<x>> \in Seq(S)
    BY AppendIsConcat
<1>2. a \o b \in Seq(S)
    BY ConcatProperties
<1>3. (a \o b) \o <<x>> = a \o (b \o <<x>>)
    BY <1>1, ConcatAssociative
<1>4. Append(a \o b, x) = (a \o b) \o <<x>>
    BY <1>2, AppendIsConcat
<1> QED BY <1>1, <1>2, <1>3, <1>4, Zenon

LEMMA ConcatHead ==
    ASSUME NEW a \in Seq(Text), NEW q \in Seq(Text), q # <<>>, NEW b \in Seq(Text)
    PROVE  Append(a, Head(q)) \o (Tail(q) \o b) = a \o (q \o b)
<1> DEFINE h == Head(q)
           t == Tail(q)
<1>1. h \in Text /\ t \in Seq(Text) /\ <<h>> \in Seq(Text)
    BY HeadTailProperties
<1>2. q = <<h>> \o t
    <2>1. Len(q) \in Nat /\ Len(q) # 0 /\ h = q[1]
        BY LenProperties, EmptySeq
    <2>2. 1 \in 1..Len(q) /\ Len(q) \in 1..Len(q) /\ 1 + 1 = 2
        BY <2>1
    <2>3. SubSeq(q, 1, Len(q)) = <<q[1]>> \o SubSeq(q, 1 + 1, Len(q))
        BY <2>2, SubSeqRecursiveFirst, Zenon
    <2>4. SubSeq(q, 1, Len(q)) = q /\ t = SubSeq(q, 2, Len(q))
        BY SubSeqFull, TailIsSubSeq
    <2> QED BY <2>1, <2>2, <2>3, <2>4, Zenon
<1> HIDE DEF h, t
<1>3. t \o b \in Seq(Text)
    BY <1>1, ConcatProperties
<1>4. q \o b = <<h>> \o (t \o b)
    <2>1. (<<h>> \o t) \o b = <<h>> \o (t \o b)
        BY <1>1, ConcatAssociative
    <2> QED BY <1>2, <2>1, Zenon
<1>5. (a \o <<h>>) \o (t \o b) = a \o (<<h>> \o (t \o b))
    BY <1>1, <1>3, ConcatAssociative
<1>6. Append(a, h) = a \o <<h>>
    BY <1>1, AppendIsConcat
<1> QED BY <1>4, <1>5, <1>6, Zenon DEF h, t
-----------------------------------------------------------------------------
SessionStream == [queue : Seq(Text \cup {END}), held : Seq(Text), cancelled : BOOLEAN]

SessionTypes ==
    /\ streams \in [DOMAIN streams -> SessionStream] /\ DOMAIN streams \subseteq Requests
    /\ consumer \in [Requests -> ConsumerStates]
    /\ producer \in [Requests -> {"none", "open", "closed"}]
    /\ pushed \in [Requests -> Seq(Text)]
    /\ received \in [Requests -> Seq(Text)]

(* Where the stream and its reader stand.                                  *)
SessionPlace(r) ==
    /\ producer[r] = "none" =>
          consumer[r] = "none" /\ r \notin DOMAIN streams /\ received[r] = <<>> /\ pushed[r] = <<>>
    /\ producer[r] # "none" => consumer[r] # "none"
    /\ consumer[r] \in {"starting", "reading", "leaving"} => r \in DOMAIN streams
    /\ consumer[r] = "starting" => r \in Streaming /\ received[r] = <<>>
    /\ consumer[r] \in {"starting", "reading"} => ~streams[r].cancelled
    /\ r \in DOMAIN streams =>
          \/ consumer[r] \in {"starting", "reading", "leaving"}
          \/ /\ r \in Streaming /\ consumer[r] = "gone"
             /\ ~streams[r].cancelled /\ received[r] = <<>>

(* What was pushed is what the reader has, then the queue, then what is    *)
(* held; after close() the queue ends with _END and nothing is held.       *)
SessionData(r) ==
    /\ consumer[r] = "done" => producer[r] = "closed" /\ received[r] = pushed[r]
    /\ consumer[r] \in {"starting", "reading"} =>
          \/ /\ producer[r] = "open"
             /\ streams[r].queue \in Seq(Text)
             /\ pushed[r] = received[r] \o (streams[r].queue \o streams[r].held)
          \/ /\ producer[r] = "closed"
             /\ \E rest \in Seq(Text) :
                   streams[r].queue = Append(rest, END) /\ pushed[r] = received[r] \o rest

SessionInv ==
    SessionTypes /\ \A r \in Requests : SessionPlace(r) /\ SessionData(r)
-----------------------------------------------------------------------------
LEMMA SessionInitInv ==
    SessionInit => SessionInv
<1> SUFFICES ASSUME SessionInit PROVE SessionInv
    OBVIOUS
<1>1. DOMAIN streams = {} /\ streams \in [DOMAIN streams -> SessionStream]
    BY DEF SessionInit, StreamInit
<1>2. SessionTypes
    BY <1>1 DEF SessionInit, StreamInit, SessionTypes, ConsumerStates
<1>3. \A r \in Requests : SessionPlace(r) /\ SessionData(r)
    BY <1>1 DEF SessionInit, StreamInit, SessionPlace, SessionData
<1> QED BY <1>2, <1>3 DEF SessionInv

(* A step for one request leaves the others alone.                         *)
LEMMA SessionOthers ==
    ASSUME SessionInv, NEW r \in Requests, NEW u \in Requests, u # r,
           u \in DOMAIN streams' <=> u \in DOMAIN streams,
           u \in DOMAIN streams => streams'[u] = streams[u],
           consumer'[u] = consumer[u], producer'[u] = producer[u],
           pushed'[u] = pushed[u], received'[u] = received[u]
    PROVE  SessionPlace(u)' /\ SessionData(u)'
<1>1. SessionPlace(u) /\ SessionData(u)
    BY DEF SessionInv
<1>2. SessionPlace(u)'
    BY <1>1 DEF SessionPlace
<1>3. consumer[u] \in {"starting", "reading"} => u \in DOMAIN streams
    BY <1>1 DEF SessionPlace
<1>4. SessionData(u)'
    BY <1>1, <1>3 DEF SessionData
<1> QED BY <1>2, <1>4

(* What a step changes: at most the request's own stream, reader, producer *)
(* and histories.                                                          *)
OnlyOf(r) ==
    \A u \in Requests \ {r} :
        /\ u \in DOMAIN streams' <=> u \in DOMAIN streams
        /\ u \in DOMAIN streams => streams'[u] = streams[u]
        /\ consumer'[u] = consumer[u] /\ producer'[u] = producer[u]
        /\ pushed'[u] = pushed[u] /\ received'[u] = received[u]

LEMMA SessionFrom ==
    ASSUME SessionInv, NEW r \in Requests, OnlyOf(r), SessionTypes',
           SessionPlace(r)', SessionData(r)'
    PROVE  SessionInv'
<1>1. ASSUME NEW u \in Requests PROVE SessionPlace(u)' /\ SessionData(u)'
    <2>1. CASE u = r
        BY <2>1
    <2>2. CASE u # r
        BY <2>2, SessionOthers DEF OnlyOf
    <2> QED BY <2>1, <2>2
<1> QED BY <1>1 DEF SessionInv

(* The rows of the invariant after a step that puts s in the place of r's  *)
(* stream.                                                                 *)
LEMMA StreamPut ==
    ASSUME SessionTypes, NEW r \in DOMAIN streams, NEW s \in SessionStream,
           DOMAIN streams' = DOMAIN streams, streams' = [u \in DOMAIN streams' |-> streams'[u]],
           \A u \in DOMAIN streams \ {r} : streams'[u] = streams[u],
           streams'[r] = s
    PROVE  streams' \in [DOMAIN streams' -> SessionStream]
<1>1. \A u \in DOMAIN streams' : streams'[u] \in SessionStream
    BY DEF SessionTypes
<1> QED BY <1>1

LEMMA StreamFields ==
    ASSUME NEW s \in SessionStream
    PROVE  /\ s.queue \in Seq(Text \cup {END}) /\ s.held \in Seq(Text)
           /\ s.held \in Seq(Text \cup {END}) /\ s.cancelled \in BOOLEAN
<1>1. /\ s.queue \in Seq(Text \cup {END}) /\ s.held \in Seq(Text)
      /\ s.cancelled \in BOOLEAN
    BY DEF SessionStream
<1>2. s.held \in Seq(Text \cup {END})
    BY <1>1, SeqMonotonic
<1> QED BY <1>1, <1>2

-----------------------------------------------------------------------------
(* What the invariant says of the data, step by step: x has been received, *)
(* q is the queue and h is held.                                           *)
LEMMA PushedData ==
    ASSUME NEW x \in Seq(Text), NEW q \in Seq(Text), NEW h \in Seq(Text), NEW token \in Text
    PROVE  /\ q \o Append(h, token) \in Seq(Text)
           /\ Append(x \o (q \o h), token) = x \o ((q \o Append(h, token)) \o <<>>)
           /\ Append(x \o (q \o h), token) = x \o (q \o Append(h, token))
<1> DEFINE m == Append(h, token)
<1>1. m \in Seq(Text)
    BY AppendProperties
<1>2. q \o h \in Seq(Text) /\ q \o m = Append(q \o h, token)
    BY ConcatAppend
<1>3. q \o m \in Seq(Text)
    BY <1>1, ConcatProperties
<1>4. (q \o m) \o <<>> = q \o m
    BY <1>3, ConcatEmptySeq
<1>5. x \o Append(q \o h, token) = Append(x \o (q \o h), token)
    BY <1>2, ConcatAppend
<1> QED BY <1>2, <1>3, <1>4, <1>5, Zenon

LEMMA ClosedData ==
    ASSUME NEW q \in Seq(Text), NEW h \in Seq(Text)
    PROVE  q \o Append(h, END) = Append(q \o h, END) /\ q \o h \in Seq(Text)
<1>1. q \in Seq(Text \cup {END}) /\ h \in Seq(Text \cup {END})
    BY SeqMonotonic
<1>2. q \o Append(h, END) = Append(q \o h, END)
    BY <1>1, ConcatAppend
<1> QED BY <1>2, ConcatProperties

LEMMA ClosedHead ==
    ASSUME NEW rest \in Seq(Text), NEW q, q = Append(rest, END)
    PROVE  /\ rest = <<>> => Head(q) = END
           /\ rest # <<>> => /\ Head(q) = Head(rest) /\ Head(q) \in Text
                             /\ Tail(q) = Append(Tail(rest), END)
                             /\ Tail(rest) \in Seq(Text)
<1>1. CASE rest = <<>>
    BY <1>1
<1>2. CASE rest # <<>>
    <2>1. Len(rest) \in Nat /\ Len(rest) # 0
        BY <1>2, EmptySeq, LenProperties
    <2>2. Head(rest) \in Text /\ Tail(rest) \in Seq(Text)
        BY <1>2, HeadTailProperties
    <2>3. Head(q) = Head(rest) /\ Tail(q) = Append(Tail(rest), END)
        BY <2>1
    <2> QED BY <1>2, <2>2, <2>3, Zenon
<1> QED BY <1>1, <1>2

LEMMA ReceivedRest ==
    ASSUME NEW x \in Seq(Text), NEW rest \in Seq(Text), rest # <<>>
    PROVE  Append(x, Head(rest)) \o Tail(rest) = x \o rest
<1>1. <<>> \in Seq(Text) /\ Tail(rest) \in Seq(Text)
    BY EmptySeq, HeadTailProperties
<1>2. Append(x, Head(rest)) \o (Tail(rest) \o <<>>) = x \o (rest \o <<>>)
    BY <1>1, ConcatHead
<1>3. Tail(rest) \o <<>> = Tail(rest) /\ rest \o <<>> = rest
    BY <1>1, ConcatEmptySeq
<1> QED BY <1>2, <1>3, Zenon
-----------------------------------------------------------------------------
LEMMA OpenSession ==
    ASSUME SessionInv, NEW r \in Requests, Open(r)
    PROVE  SessionInv'
<1> DEFINE new == [queue |-> <<>>, held |-> <<>>, cancelled |-> FALSE]
<1>1. SessionTypes /\ SessionPlace(r) /\ producer[r] = "none"
    BY DEF SessionInv, Open
<1>2. r \notin DOMAIN streams /\ received[r] = <<>> /\ pushed[r] = <<>>
    BY <1>1 DEF SessionPlace
<1>3. new \in SessionStream /\ new.queue = <<>> /\ new.held = <<>> /\ new.cancelled = FALSE
    BY DEF SessionStream
<1>4. /\ streams' = With(streams, r, new)
      /\ consumer' = [consumer EXCEPT ![r] = IF r \in Streaming THEN "starting" ELSE "reading"]
      /\ producer' = [producer EXCEPT ![r] = "open"]
      /\ UNCHANGED <<pushed, received>>
    BY DEF Open, create
<1> HIDE DEF new
<1>5. /\ DOMAIN streams' = DOMAIN streams \cup {r} /\ streams'[r] = new
      /\ \A u \in DOMAIN streams : u # r => streams'[u] = streams[u]
      /\ streams' = [u \in DOMAIN streams \cup {r} |-> IF u = r THEN new ELSE streams[u]]
    BY <1>4 DEF With
<1>6. /\ consumer'[r] = IF r \in Streaming THEN "starting" ELSE "reading"
      /\ producer'[r] = "open"
    BY <1>1, <1>4 DEF SessionTypes
<1>7. SessionTypes'
    <2>1. streams' \in [DOMAIN streams' -> SessionStream]
        BY <1>1, <1>3, <1>5 DEF SessionTypes
    <2> QED BY <1>1, <1>4, <1>5, <2>1 DEF SessionTypes, ConsumerStates, SessionStream
<1>8. OnlyOf(r)
    BY <1>1, <1>4, <1>5 DEF OnlyOf, SessionTypes
<1>9. /\ streams'[r].queue = <<>> /\ streams'[r].held = <<>> /\ streams'[r].cancelled = FALSE
      /\ received'[r] = <<>> /\ pushed'[r] = <<>>
    BY <1>2, <1>3, <1>4, <1>5, Zenon
<1>10. SessionPlace(r)'
    BY <1>5, <1>6, <1>9 DEF SessionPlace
<1>11. SessionData(r)'
    <2>1. <<>> \in Seq(Text) /\ <<>> \o (<<>> \o <<>>) = <<>>
        BY EmptySeq, ConcatEmptySeq
    <2>2. /\ streams'[r].queue \in Seq(Text)
          /\ pushed'[r] = received'[r] \o (streams'[r].queue \o streams'[r].held)
        BY <1>9, <2>1, Zenon
    <2> QED BY <1>6, <2>2 DEF SessionData
<1> QED BY <1>7, <1>8, <1>10, <1>11, SessionFrom

LEMMA PushSession ==
    ASSUME SessionInv, NEW r \in Requests, NEW token \in Text, Push(r, token)
    PROVE  SessionInv'
<1>1. /\ producer[r] = "open" /\ r \in DOMAIN streams /\ ~streams[r].cancelled
      /\ pushed' = [pushed EXCEPT ![r] = Append(pushed[r], token)]
      /\ UNCHANGED <<consumer, producer, received>>
    BY DEF Push, is_cancelled
<1>2. SessionTypes /\ SessionPlace(r) /\ SessionData(r)
    BY DEF SessionInv
<1>3. PICK s \in SessionStream : s = streams[r]
    BY <1>1, <1>2 DEF SessionTypes
<1>4. PICK x \in Seq(Text) : x = received[r]
    BY <1>2 DEF SessionTypes
<1>5. PICK q \in Seq(Text \cup {END}) : q = s.queue
    BY StreamFields
<1>6. PICK h \in Seq(Text) : h = s.held /\ h \in Seq(Text \cup {END})
    BY StreamFields
<1>7. /\ Append(h, token) \in Seq(Text) /\ Append(h, token) \in Seq(Text \cup {END})
      /\ q \o Append(h, token) \in Seq(Text \cup {END}) /\ <<>> \in Seq(Text)
    BY <1>6, AppendProperties, ConcatProperties, EmptySeq
<1>8. /\ pushed'[r] = Append(pushed[r], token)
      /\ pushed' \in [Requests -> Seq(Text)]
      /\ \A u \in Requests : u # r => pushed'[u] = pushed[u]
    BY <1>1, <1>2, AppendProperties DEF SessionTypes
<1>9. PICK t : t = streams'[r]
    OBVIOUS
<1>10. /\ DOMAIN streams' = DOMAIN streams
       /\ \A u \in DOMAIN streams \ {r} : streams'[u] = streams[u]
       /\ streams' = [u \in DOMAIN streams' |-> streams'[u]]
       /\ \/ streams'[r] = [streams[r] EXCEPT
                 !.queue = streams[r].queue \o Append(streams[r].held, token), !.held = <<>>]
          \/ streams'[r] = [streams[r] EXCEPT !.held = Append(streams[r].held, token)]
    BY <1>1, <1>2 DEF Push, push_token, SessionTypes
<1>11. \/ t = [s EXCEPT !.queue = q \o Append(h, token), !.held = <<>>]
       \/ t = [s EXCEPT !.held = Append(h, token)]
    BY <1>3, <1>5, <1>6, <1>9, <1>10, Zenon
<1>12. /\ t \in SessionStream /\ t.cancelled = s.cancelled
       /\ \/ t.queue = q \o Append(h, token) /\ t.held = <<>>
          \/ t.queue = q /\ t.held = Append(h, token)
    <2>1. CASE t = [s EXCEPT !.queue = q \o Append(h, token), !.held = <<>>]
        <3>1. PICK a \in Seq(Text \cup {END}) : a = q \o Append(h, token)
            BY <1>7
        <3>2. t = [s EXCEPT !.queue = a, !.held = <<>>]
            BY <2>1, <3>1, Zenon
        <3>3. PICK e \in Seq(Text) : e = <<>>
            BY <1>7
        <3>4. /\ [s EXCEPT !.queue = a, !.held = e] \in SessionStream
              /\ [s EXCEPT !.queue = a, !.held = e].queue = a
              /\ [s EXCEPT !.queue = a, !.held = e].held = e
              /\ [s EXCEPT !.queue = a, !.held = e].cancelled = s.cancelled
            BY DEF SessionStream
        <3> QED BY <3>1, <3>2, <3>3, <3>4, Zenon
    <2>2. CASE t = [s EXCEPT !.held = Append(h, token)]
        <3>1. PICK a \in Seq(Text) : a = Append(h, token)
            BY <1>7
        <3>2. t = [s EXCEPT !.held = a]
            BY <2>2, <3>1, Zenon
        <3>3. /\ [s EXCEPT !.held = a] \in SessionStream
              /\ [s EXCEPT !.held = a].queue = s.queue
              /\ [s EXCEPT !.held = a].held = a
              /\ [s EXCEPT !.held = a].cancelled = s.cancelled
            BY DEF SessionStream
        <3> QED BY <1>5, <3>1, <3>2, <3>3, Zenon
    <2> QED BY <1>11, <2>1, <2>2
<1>13. streams' \in [DOMAIN streams' -> SessionStream]
    BY <1>1, <1>2, <1>9, <1>10, <1>12, StreamPut
<1>14. SessionTypes'
    BY <1>1, <1>2, <1>8, <1>10, <1>13 DEF SessionTypes, SessionStream
<1>15. OnlyOf(r)
    BY <1>1, <1>8, <1>10 DEF OnlyOf
<1>16. streams'[r].cancelled = streams[r].cancelled
    BY <1>3, <1>9, <1>12, Zenon
<1>17. SessionPlace(r)'
    BY <1>1, <1>2, <1>10, <1>16 DEF SessionPlace
<1>18. ASSUME consumer[r] \in {"starting", "reading"}
       PROVE  /\ streams'[r].queue \in Seq(Text)
              /\ pushed'[r] = received'[r] \o (streams'[r].queue \o streams'[r].held)
    <2>1. /\ streams[r].queue \in Seq(Text)
          /\ pushed[r] = received[r] \o (streams[r].queue \o streams[r].held)
        BY <1>1, <1>2, <1>18 DEF SessionData
    <2>2. q \in Seq(Text) /\ pushed[r] = x \o (q \o h)
        BY <1>3, <1>4, <1>5, <1>6, <2>1, Zenon
    <2>3. /\ q \o Append(h, token) \in Seq(Text)
          /\ Append(x \o (q \o h), token) = x \o ((q \o Append(h, token)) \o <<>>)
          /\ Append(x \o (q \o h), token) = x \o (q \o Append(h, token))
        BY <2>2, PushedData
    <2>4. t.queue \in Seq(Text) /\ pushed'[r] = x \o (t.queue \o t.held)
        BY <1>8, <1>12, <2>2, <2>3, Zenon
    <2>5. received'[r] = x
        BY <1>1, <1>4
    <2> QED BY <1>9, <2>4, <2>5, Zenon
<1>19. SessionData(r)'
    BY <1>1, <1>2, <1>18 DEF SessionData
<1> QED BY <1>14, <1>15, <1>17, <1>19, SessionFrom

LEMMA StopSession ==
    ASSUME SessionInv, NEW r \in Requests, Stop(r)
    PROVE  SessionInv'
<1>1. /\ producer[r] = "open" /\ close(r)
      /\ producer' = [producer EXCEPT ![r] = "closed"]
      /\ UNCHANGED <<consumer, pushed, received>>
    BY DEF Stop
<1>2. SessionTypes /\ SessionPlace(r) /\ SessionData(r)
    BY DEF SessionInv
<1>3. /\ producer' \in [Requests -> {"none", "open", "closed"}] /\ producer'[r] = "closed"
      /\ \A u \in Requests : u # r => producer'[u] = producer[u]
    BY <1>1, <1>2 DEF SessionTypes
<1>4. CASE r \notin DOMAIN streams
    <2>1. UNCHANGED streams
        BY <1>1, <1>4 DEF close
    <2>2. SessionTypes'
        BY <1>1, <1>2, <1>3, <2>1 DEF SessionTypes, SessionStream
    <2>3. OnlyOf(r)
        BY <1>1, <1>3, <2>1 DEF OnlyOf
    <2>4. SessionPlace(r)' /\ SessionData(r)'
        BY <1>1, <1>2, <1>3, <1>4, <2>1 DEF SessionPlace, SessionData
    <2> QED BY <2>2, <2>3, <2>4, SessionFrom
<1>5. CASE r \in DOMAIN streams
    <2>1. PICK s \in SessionStream : s = streams[r]
        BY <1>2, <1>5 DEF SessionTypes
    <2>2. PICK x \in Seq(Text) : x = received[r]
        BY <1>2 DEF SessionTypes
    <2>3. PICK q \in Seq(Text \cup {END}) : q = s.queue
        BY StreamFields
    <2>4. PICK h \in Seq(Text) : h = s.held /\ h \in Seq(Text \cup {END})
        BY StreamFields
    <2>5. PICK a \in Seq(Text \cup {END}) : a = q \o Append(h, END)
        BY <2>4, AppendProperties, ConcatProperties
    <2>6. PICK e \in Seq(Text) : e = <<>>
        BY EmptySeq
    <2>7. PICK t : t = streams'[r]
        OBVIOUS
    <2>8. /\ DOMAIN streams' = DOMAIN streams
          /\ \A u \in DOMAIN streams \ {r} : streams'[u] = streams[u]
          /\ streams' = [u \in DOMAIN streams' |-> streams'[u]]
          /\ streams'[r] = [streams[r] EXCEPT
                 !.queue = streams[r].queue \o Append(streams[r].held, END), !.held = <<>>]
        BY <1>1, <1>2, <1>5 DEF close, SessionTypes
    <2>9. t = [s EXCEPT !.queue = a, !.held = e]
        BY <2>1, <2>3, <2>4, <2>5, <2>6, <2>7, <2>8, Zenon
    <2>10. /\ [s EXCEPT !.queue = a, !.held = e] \in SessionStream
           /\ [s EXCEPT !.queue = a, !.held = e].queue = a
           /\ [s EXCEPT !.queue = a, !.held = e].cancelled = s.cancelled
        BY DEF SessionStream
    <2>11. t \in SessionStream /\ t.queue = a /\ t.cancelled = s.cancelled
        BY <2>9, <2>10, Zenon
    <2>12. streams' \in [DOMAIN streams' -> SessionStream]
        BY <1>2, <1>5, <2>7, <2>8, <2>11, StreamPut
    <2>13. SessionTypes'
        BY <1>1, <1>2, <1>3, <2>8, <2>12 DEF SessionTypes, SessionStream
    <2>14. OnlyOf(r)
        BY <1>1, <1>3, <2>8 DEF OnlyOf
    <2>15. streams'[r].cancelled = streams[r].cancelled /\ streams'[r].queue = a
        BY <2>1, <2>7, <2>11, Zenon
    <2>16. SessionPlace(r)'
        BY <1>1, <1>2, <1>3, <2>8, <2>15 DEF SessionPlace
    <2>17. ASSUME consumer[r] \in {"starting", "reading"}
           PROVE  \E rest \in Seq(Text) :
                     streams'[r].queue = Append(rest, END) /\ pushed'[r] = received'[r] \o rest
        <3>1. /\ streams[r].queue \in Seq(Text)
              /\ pushed[r] = received[r] \o (streams[r].queue \o streams[r].held)
            BY <1>1, <1>2, <2>17 DEF SessionData
        <3>2. q \in Seq(Text) /\ pushed[r] = x \o (q \o h)
            BY <2>1, <2>2, <2>3, <2>4, <3>1, Zenon
        <3>3. q \o Append(h, END) = Append(q \o h, END) /\ q \o h \in Seq(Text)
            BY <3>2, ClosedData
        <3>4. pushed'[r] = pushed[r] /\ received'[r] = x
            BY <1>1, <2>2
        <3>5. streams'[r].queue = Append(q \o h, END) /\ pushed'[r] = received'[r] \o (q \o h)
            BY <2>5, <2>15, <3>2, <3>3, <3>4, Zenon
        <3> QED BY <3>3, <3>5, Zenon
    <2>18. SessionData(r)'
        BY <1>1, <1>2, <1>3, <2>17 DEF SessionData
    <2> QED BY <2>13, <2>14, <2>16, <2>18, SessionFrom
<1> QED BY <1>4, <1>5

(* subscribe() has ended: its stream is forgotten.                         *)
LEMMA ForgetSession ==
    ASSUME SessionInv, NEW r \in Requests, consumer[r] # "none",
           NEW now \in {"done", "gone"}, streams' = Without(streams, r),
           consumer' = [consumer EXCEPT ![r] = now], UNCHANGED <<producer, pushed, received>>,
           now = "done" => producer[r] = "closed" /\ received[r] = pushed[r]
    PROVE  SessionInv'
<1>1. SessionTypes /\ SessionPlace(r)
    BY DEF SessionInv
<1>2. /\ DOMAIN streams' = DOMAIN streams \ {r}
      /\ \A u \in DOMAIN streams \ {r} : streams'[u] = streams[u]
      /\ streams' \in [DOMAIN streams' -> SessionStream]
    BY <1>1 DEF Without, SessionTypes
<1>3. /\ consumer' \in [Requests -> ConsumerStates] /\ consumer'[r] = now
      /\ \A u \in Requests : u # r => consumer'[u] = consumer[u]
    BY <1>1 DEF SessionTypes, ConsumerStates
<1>4. SessionTypes'
    BY <1>1, <1>2, <1>3 DEF SessionTypes, SessionStream
<1>5. OnlyOf(r)
    BY <1>2, <1>3 DEF OnlyOf
<1>6. SessionPlace(r)'
    BY <1>1, <1>2, <1>3 DEF SessionPlace
<1>7. SessionData(r)'
    BY <1>3 DEF SessionData
<1> QED BY <1>4, <1>5, <1>6, <1>7, SessionFrom

(* The reader moves on, and the streams stay.                              *)
LEMMA MoveSession ==
    ASSUME SessionInv, NEW r \in Requests, NEW now \in {"reading", "leaving", "gone"},
           consumer[r] = IF now = "leaving" THEN "reading" ELSE "starting",
           now = "gone" => r \in Streaming,
           consumer' = [consumer EXCEPT ![r] = now],
           UNCHANGED <<streams, producer, pushed, received>>
    PROVE  SessionInv'
<1>1. SessionTypes /\ SessionPlace(r) /\ SessionData(r)
    BY DEF SessionInv
<1>2. /\ consumer' \in [Requests -> ConsumerStates] /\ consumer'[r] = now
      /\ \A u \in Requests : u # r => consumer'[u] = consumer[u]
    BY <1>1 DEF SessionTypes, ConsumerStates
<1>3. SessionTypes'
    BY <1>1, <1>2 DEF SessionTypes, SessionStream
<1>4. OnlyOf(r)
    BY <1>2 DEF OnlyOf
<1>5. SessionPlace(r)'
    BY <1>1, <1>2 DEF SessionPlace
<1>6. SessionData(r)'
    BY <1>1, <1>2 DEF SessionData
<1> QED BY <1>3, <1>4, <1>5, <1>6, SessionFrom

LEMMA ReceiveTextSession ==
    ASSUME SessionInv, NEW r \in Requests, ReceiveText(r),
           received' = [received EXCEPT ![r] = Append(@, Head(streams[r].queue))],
           UNCHANGED <<producer, pushed>>
    PROVE  SessionInv'
<1>1. /\ consumer[r] = "reading" /\ streams[r].queue # <<>> /\ Head(streams[r].queue) # END
      /\ UNCHANGED consumer
    BY DEF ReceiveText
<1>2. SessionTypes /\ SessionPlace(r) /\ SessionData(r)
    BY DEF SessionInv
<1>3. r \in DOMAIN streams
    BY <1>1, <1>2 DEF SessionPlace
<1>4. PICK s \in SessionStream : s = streams[r]
    BY <1>2, <1>3 DEF SessionTypes
<1>5. PICK x \in Seq(Text) : x = received[r]
    BY <1>2 DEF SessionTypes
<1>6. PICK q \in Seq(Text \cup {END}) : q = s.queue
    BY StreamFields
<1>7. PICK h \in Seq(Text) : h = s.held
    BY StreamFields
<1>8. q # <<>> /\ Head(q) # END
    BY <1>1, <1>4, <1>6, Zenon
<1>9. PICK a \in Seq(Text \cup {END}) : a = Tail(q)
    BY <1>8, HeadTailProperties
<1>10. Head(q) \in Text
    <2>1. Head(q) \in Text \cup {END}
        BY <1>8, HeadTailProperties
    <2> QED BY <1>8, <2>1
<1>11. PICK t : t = streams'[r]
    OBVIOUS
<1>12. /\ DOMAIN streams' = DOMAIN streams
       /\ \A u \in DOMAIN streams \ {r} : streams'[u] = streams[u]
       /\ streams' = [u \in DOMAIN streams' |-> streams'[u]]
       /\ streams'[r] = [streams[r] EXCEPT !.queue = Tail(streams[r].queue)]
    BY <1>2, <1>3 DEF ReceiveText, SessionTypes
<1>13. t = [s EXCEPT !.queue = a]
    BY <1>4, <1>6, <1>9, <1>11, <1>12, Zenon
<1>14. /\ t \in SessionStream /\ t.queue = a /\ t.held = h /\ t.cancelled = s.cancelled
    <2>1. /\ [s EXCEPT !.queue = a] \in SessionStream /\ [s EXCEPT !.queue = a].queue = a
          /\ [s EXCEPT !.queue = a].held = s.held
          /\ [s EXCEPT !.queue = a].cancelled = s.cancelled
        BY DEF SessionStream
    <2> QED BY <1>7, <1>13, <2>1, Zenon
<1>15. streams' \in [DOMAIN streams' -> SessionStream]
    BY <1>2, <1>3, <1>11, <1>12, <1>14, StreamPut
<1>16. /\ received'[r] = Append(x, Head(q)) /\ received' \in [Requests -> Seq(Text)]
       /\ \A u \in Requests : u # r => received'[u] = received[u]
    <2>1. PICK y \in Seq(Text) : y = Append(x, Head(q))
        BY <1>10, AppendProperties
    <2>2. received' = [received EXCEPT ![r] = y]
        BY <1>4, <1>5, <1>6, <2>1, Zenon
    <2>3. /\ received'[r] = y /\ received' \in [Requests -> Seq(Text)]
          /\ \A u \in Requests : u # r => received'[u] = received[u]
        BY <1>2, <2>2 DEF SessionTypes
    <2> QED BY <2>1, <2>3, Zenon
<1>17. SessionTypes'
    BY <1>1, <1>2, <1>12, <1>15, <1>16 DEF SessionTypes, SessionStream
<1>18. OnlyOf(r)
    BY <1>1, <1>12, <1>16 DEF OnlyOf
<1>19. /\ streams'[r].cancelled = streams[r].cancelled /\ streams'[r].queue = a
       /\ streams'[r].held = h
    BY <1>4, <1>11, <1>14, Zenon
<1>20. SessionPlace(r)'
    BY <1>1, <1>2, <1>12, <1>19 DEF SessionPlace
<1>21. CASE producer[r] = "open"
    <2>1. /\ streams[r].queue \in Seq(Text)
          /\ pushed[r] = received[r] \o (streams[r].queue \o streams[r].held)
        BY <1>1, <1>2, <1>21 DEF SessionData
    <2>2. q \in Seq(Text) /\ pushed[r] = x \o (q \o h)
        BY <1>4, <1>5, <1>6, <1>7, <2>1, Zenon
    <2>3. Tail(q) \in Seq(Text)
        BY <1>8, <2>2, HeadTailProperties
    <2>4. Append(x, Head(q)) \o (Tail(q) \o h) = x \o (q \o h)
        BY <1>8, <2>2, ConcatHead, Zenon
    <2>5. /\ streams'[r].queue \in Seq(Text)
          /\ pushed[r] = received'[r] \o (streams'[r].queue \o streams'[r].held)
        BY <1>9, <1>16, <1>19, <2>2, <2>3, <2>4, Zenon
    <2>6. pushed'[r] = pushed[r]
        OBVIOUS
    <2>7. SessionData(r)'
        BY <1>1, <1>21, <2>5, <2>6 DEF SessionData
    <2> QED BY <1>17, <1>18, <1>20, <2>7, SessionFrom
<1>22. CASE producer[r] # "open"
    <2>1. /\ producer[r] = "closed"
          /\ \E rest \in Seq(Text) :
                streams[r].queue = Append(rest, END) /\ pushed[r] = received[r] \o rest
        BY <1>1, <1>2, <1>22 DEF SessionData
    <2>2. PICK rest \in Seq(Text) : q = Append(rest, END) /\ pushed[r] = x \o rest
        BY <1>4, <1>5, <1>6, <2>1, Zenon
    <2>3. /\ rest # <<>> /\ Head(q) = Head(rest) /\ Tail(q) = Append(Tail(rest), END)
          /\ Tail(rest) \in Seq(Text)
        BY <1>8, <2>2, ClosedHead
    <2>4. Append(x, Head(rest)) \o Tail(rest) = x \o rest
        BY <2>3, ReceivedRest
    <2>5. pushed'[r] = pushed[r]
        OBVIOUS
    <2>6. /\ streams'[r].queue = Append(Tail(rest), END)
          /\ pushed'[r] = received'[r] \o Tail(rest)
        BY <1>9, <1>16, <1>19, <2>2, <2>3, <2>4, <2>5, Zenon
    <2>7. \E some \in Seq(Text) :
             streams'[r].queue = Append(some, END) /\ pushed'[r] = received'[r] \o some
        BY <2>3, <2>6, Zenon
    <2>8. SessionData(r)'
        BY <1>1, <2>1, <2>7 DEF SessionData
    <2> QED BY <1>17, <1>18, <1>20, <2>8, SessionFrom
<1> QED BY <1>21, <1>22

LEMMA SeeDisconnectSession ==
    ASSUME SessionInv, NEW r \in Requests, SeeDisconnect(r),
           UNCHANGED <<producer, pushed, received>>
    PROVE  SessionInv'
<1>1. /\ consumer[r] = "reading" /\ streams[r].queue # <<>>
      /\ consumer' = [consumer EXCEPT ![r] = "leaving"]
    BY DEF SeeDisconnect
<1>2. SessionTypes /\ SessionPlace(r)
    BY DEF SessionInv
<1>3. r \in DOMAIN streams
    BY <1>1, <1>2 DEF SessionPlace
<1>4. PICK s \in SessionStream : s = streams[r]
    BY <1>2, <1>3 DEF SessionTypes
<1>5. PICK q \in Seq(Text \cup {END}) : q = s.queue /\ q # <<>>
    BY <1>1, <1>4, StreamFields
<1>6. PICK a \in Seq(Text \cup {END}) : a = Tail(q)
    BY <1>5, HeadTailProperties
<1>7. PICK t : t = streams'[r]
    OBVIOUS
<1>8. /\ DOMAIN streams' = DOMAIN streams
      /\ \A u \in DOMAIN streams \ {r} : streams'[u] = streams[u]
      /\ streams' = [u \in DOMAIN streams' |-> streams'[u]]
      /\ streams'[r] = [streams[r] EXCEPT !.queue = Tail(streams[r].queue), !.cancelled = TRUE]
    BY <1>2, <1>3 DEF SeeDisconnect, SessionTypes
<1>9. t \in SessionStream
    <2>1. [s EXCEPT !.queue = a, !.cancelled = TRUE] \in SessionStream
        BY DEF SessionStream
    <2>2. t = [s EXCEPT !.queue = a, !.cancelled = TRUE]
        BY <1>4, <1>5, <1>6, <1>7, <1>8, Zenon
    <2> QED BY <2>1, <2>2, Zenon
<1>10. streams' \in [DOMAIN streams' -> SessionStream]
    BY <1>2, <1>3, <1>7, <1>8, <1>9, StreamPut
<1>11. /\ consumer' \in [Requests -> ConsumerStates] /\ consumer'[r] = "leaving"
       /\ \A u \in Requests : u # r => consumer'[u] = consumer[u]
    BY <1>1, <1>2 DEF SessionTypes, ConsumerStates
<1>12. SessionTypes'
    BY <1>2, <1>8, <1>10, <1>11 DEF SessionTypes, SessionStream
<1>13. OnlyOf(r)
    BY <1>8, <1>11 DEF OnlyOf
<1>14. SessionPlace(r)'
    BY <1>1, <1>2, <1>3, <1>8, <1>11 DEF SessionPlace
<1>15. SessionData(r)'
    BY <1>11 DEF SessionData
<1> QED BY <1>12, <1>13, <1>14, <1>15, SessionFrom

(* _END is read: it was the last of the queue, and everything came before. *)
LEMMA ReceiveEndSession ==
    ASSUME SessionInv, NEW r \in Requests, ReceiveEnd(r),
           UNCHANGED <<producer, pushed, received>>
    PROVE  SessionInv'
<1>1. /\ consumer[r] = "reading" /\ streams[r].queue # <<>> /\ Head(streams[r].queue) = END
      /\ streams' = Without(streams, r) /\ consumer' = [consumer EXCEPT ![r] = "done"]
    BY DEF ReceiveEnd
<1>2. SessionTypes /\ SessionData(r)
    BY DEF SessionInv
<1>3. PICK x \in Seq(Text) : x = received[r]
    BY <1>2 DEF SessionTypes
<1>4. PICK q : q = streams[r].queue
    OBVIOUS
<1>5. q # <<>> /\ Head(q) = END
    BY <1>1, <1>4, Zenon
<1>6. q \notin Seq(Text)
    BY <1>5, HeadTailProperties, SessionAssumption
<1>7. /\ producer[r] = "closed"
      /\ \E rest \in Seq(Text) :
            streams[r].queue = Append(rest, END) /\ pushed[r] = received[r] \o rest
    BY <1>1, <1>2, <1>4, <1>6 DEF SessionData
<1>8. PICK rest \in Seq(Text) : q = Append(rest, END) /\ pushed[r] = x \o rest
    BY <1>3, <1>4, <1>7, Zenon
<1>9. rest = <<>>
    BY <1>5, <1>8, ClosedHead, SessionAssumption
<1>10. x \o <<>> = x
    BY ConcatEmptySeq
<1>11. received[r] = pushed[r]
    BY <1>3, <1>8, <1>9, <1>10, Zenon
<1> QED BY <1>1, <1>7, <1>11, ForgetSession

LEMMA ReaderSession ==
    ASSUME SessionInv, NEW r \in Requests, Reader(r)
    PROVE  SessionInv'
<1>1. UNCHANGED <<producer, pushed>>
    BY DEF Reader
<1>2. CASE /\ ReceiveText(r)
           /\ received' = [received EXCEPT ![r] = Append(@, Head(streams[r].queue))]
    BY <1>1, <1>2, ReceiveTextSession
<1>3. CASE Start(r) /\ UNCHANGED received
    BY <1>1, <1>3, MoveSession DEF Start
<1>4. CASE SeeDisconnect(r) /\ UNCHANGED received
    BY <1>1, <1>4, SeeDisconnectSession
<1>5. CASE ReceiveEnd(r) /\ UNCHANGED received
    BY <1>1, <1>5, ReceiveEndSession
<1>6. CASE Finalize(r) /\ UNCHANGED received
    BY <1>1, <1>6, ForgetSession DEF Finalize
<1> QED BY <1>2, <1>3, <1>4, <1>5, <1>6 DEF Reader

LEMMA SessionSame ==
    ASSUME SessionInv, UNCHANGED <<streams, consumer, producer, pushed, received>>
    PROVE  SessionInv'
<1>1. SessionTypes'
    BY DEF SessionInv, SessionTypes, SessionStream
<1>2. \A r \in Requests : SessionPlace(r)' /\ SessionData(r)'
    BY DEF SessionInv, SessionPlace, SessionData
<1> QED BY <1>1, <1>2 DEF SessionInv

LEMMA LeaverSession ==
    ASSUME SessionInv, NEW r \in Requests, Leaver(r)
    PROVE  SessionInv'
<1>1. UNCHANGED <<producer, pushed, received>>
    BY DEF Leaver
<1>2. CASE Disconnect(r)
    BY <1>1, <1>2, SessionSame DEF Disconnect
<1>3. CASE CancelTask(r)
    <2>1. CASE consumer[r] = "reading"
        BY <1>1, <1>3, <2>1, ForgetSession DEF CancelTask
    <2>2. CASE consumer[r] = "starting"
        BY <1>1, <1>3, <2>2, MoveSession DEF CancelTask
    <2> QED BY <1>3, <2>1, <2>2 DEF CancelTask
<1>4. CASE CancelSend(r)
    BY <1>1, <1>4, MoveSession DEF CancelSend
<1> QED BY <1>2, <1>3, <1>4 DEF Leaver, ClientStep

LEMMA SessionStep ==
    SessionInv /\ [PageNext]_allvars => SessionInv'
<1> SUFFICES ASSUME SessionInv, [PageNext]_allvars PROVE SessionInv'
    OBVIOUS
<1>1. CASE SessionNext
    <2>1. PICK r \in Requests :
              \/ Open(r)
              \/ \E token \in Text : Push(r, token)
              \/ Stop(r)
              \/ Reader(r)
              \/ Leaver(r)
        BY <1>1 DEF SessionNext
    <2> QED BY <2>1, OpenSession, PushSession, StopSession, ReaderSession, LeaverSession
<1>2. CASE UNCHANGED sessionvars
    BY <1>2, SessionSame DEF sessionvars, streamvars
<1>3. SessionNext \/ UNCHANGED sessionvars
    BY DEF PageNext, Session, Page, Deliver, EndOfBody, Interrupted, TakeFrame, allvars
<1> QED BY <1>1, <1>2, <1>3
-----------------------------------------------------------------------------
LEMMA SessionInvariant == PageSpec => []SessionInv
<1>1. PageInit => SessionInv
    BY SessionInitInv DEF PageInit
<1> QED BY <1>1, SessionStep, PTL DEF PageSpec

(* The finally clause of subscribe() removes every stream whose reader ran *)
(* at all: what is left behind is only what _sse_events never started on.  *)
THEOREM StreamsAreReclaimed == PageSpec => []ReclaimedByConsumer
<1>1. SessionInv => ReclaimedByConsumer
    <2> SUFFICES ASSUME SessionInv, NEW r \in DOMAIN streams
                 PROVE  \/ consumer[r] \in {"starting", "reading", "leaving"}
                        \/ /\ r \in Streaming /\ consumer[r] = "gone"
                           /\ ~streams[r].cancelled /\ received[r] = <<>>
        BY DEF ReclaimedByConsumer
    <2> QED BY DEF SessionInv, SessionTypes, SessionPlace
<1> QED BY <1>1, SessionInvariant, PTL

(* A reader that has come to the end of subscribe() has passed on exactly  *)
(* what push_token() was given, whatever the decoder held back on the way. *)
THEOREM EndedReadersHaveAll == PageSpec => []ReadToTheEnd
<1>1. SessionInv => ReadToTheEnd
    BY DEF SessionInv, SessionData, ReadToTheEnd
<1> QED BY <1>1, SessionInvariant, PTL
=============================================================================
