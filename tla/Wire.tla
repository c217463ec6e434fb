-------------------------------- MODULE Wire --------------------------------
(***************************************************************************)
(* The frames of one WebSocket connection (internal/gateway/ws.go), as the *)
(* octets on its TCP streams.  SendToUser, the ping goroutine and the read *)
(* loop (pongs) write frames, a header and a payload by two calls of Write *)
(* under wsConn.mu; a deadline may cut either short, and nobody closes the *)
(* connection for it.  The read loop reads the frames of the client.  When *)
(* each of them writes, and cc.mu around a write, is in Gateway.           *)
(***************************************************************************)
EXTENDS Naturals, Sequences, FiniteSets

CONSTANTS Senders,     \* SendToUser calls
          Lengths,     \* sizes of their messages
          Clients,     \* frames of the client: [op, form, len]
          None,
          MaxIn,       \* bound: frames the client sends
          MaxTears     \* bound: writes that a deadline cuts short

opcodeText == 1
opcodePing == 9
opcodePong == 10
opcodeClose == 8

ASSUME LengthsAssumption == \A n \in Lengths : n \in Nat /\ n <= 2147483647
\* len is the length in eight octets; form is the number of octets it is sent
\* in, apart from the second octet of the header, and is enough for it.
ASSUME ClientsAssumption ==
    /\ Clients \subseteq [op : {opcodeText, opcodePing, opcodePong, opcodeClose},
                          form : {0, 2, 8}, len : [1..8 -> 0..255], masked : BOOLEAN]
    /\ \A c \in Clients :
          /\ c.form = 0 => c.len[8] <= 125 /\ \A i \in 1..7 : c.len[i] = 0
          /\ c.form = 2 => \A i \in 1..6 : c.len[i] = 0
ASSUME SendersAssumption ==
    /\ Senders \cap {"pinger", "loop"} = {}
    /\ None \notin Senders \cup {"pinger", "loop"}
ASSUME BoundsAssumption == MaxIn \in Nat /\ MaxTears \in Nat

Writers == Senders \cup {"pinger", "loop"}

VARIABLES
    mu,      \* wsConn.mu: the writer that holds it
    wr,      \* wr[x]: [st, op, n] of a call of writeFrame
    out,     \* octets on their way to the client
    sent,    \* frames [op, n] whose header was written, or begun
    torn,    \* index in sent of the first frame that was cut short
    tears,
    cl,      \* the client's decoder: [hdr, need, own, lost]
    got,     \* frames the client decoded: [op, n, whole]
    asked,   \* frames the client sent
    in,      \* octets on their way to the read loop
    read,    \* frames ReadFrame returned: [op, n]
    loop     \* the read loop: reading, pong (has one to write), closed

outgoing == <<mu, wr, out, sent, torn, tears>>
client   == <<cl, got>>
incoming == <<asked, in, read>>
vars == <<outgoing, client, incoming, loop>>

\* n octets of the payload of frame f, or (f = 0) a header octet of value b.
Octets == [f : Nat, b : 0..255, n : Nat \ {0}]
Byte(b) == [f |-> 0, b |-> b, n |-> 1]
Run(f, n) == [f |-> f, b |-> 0, n |-> n]

TypeOK ==
    /\ mu \in Writers \cup {None}
    /\ wr \in [Writers -> [st : {"idle", "head", "body", "done", "error"},
                           op : 0..15, n : Nat]]
    /\ out \in Seq(Octets) /\ in \in Seq(Octets)
    /\ sent \in Seq([op : 0..15, n : Nat])
    /\ torn \in Nat /\ tears \in 0..MaxTears
    /\ cl \in [hdr : Seq(0..255), need : Nat, own : BOOLEAN, lost : BOOLEAN]
    /\ got \in Seq([op : 0..15, n : Nat, whole : BOOLEAN])
    /\ asked \in Seq(Clients) /\ Len(asked) <= MaxIn
    /\ read \in Seq([op : 0..15, n : Nat])
    /\ loop \in {"reading", "pong", "closed"}

Init ==
    /\ mu = None /\ wr = [x \in Writers |-> [st |-> "idle", op |-> 0, n |-> 0]]
    /\ out = <<>> /\ sent = <<>> /\ torn = 0 /\ tears = 0
    /\ cl = [hdr |-> <<>>, need |-> 0, own |-> TRUE, lost |-> FALSE] /\ got = <<>>
    /\ asked = <<>> /\ in = <<>> /\ read = <<>> /\ loop = "reading"

----------------------------------------------------------------------------
(* The header.                                                             *)

\* What the last octet, the one before and so on count.
Weight == <<1, 256, 65536, 16777216>>

\* The octet of n < 2^32 with j octets behind it.
Octet(n, j) == IF j > 3 THEN 0 ELSE (n \div Weight[j + 1]) % 256

BigEndian(n, k) == [i \in 1..k |-> Octet(n, k - i)]

\* Mutant: every length in the second octet.
HeadOneOctet(op, n) == <<128 + op, n>>

FrameHead(op, n) ==
    <<128 + op>> \o (IF n <= 125 THEN <<n>>
                     ELSE IF n <= 65535 THEN <<126>> \o BigEndian(n, 2)
                     ELSE <<127>> \o BigEndian(n, 8))

\* The number of length octets that follow the second octet.
Extended(b) == CASE b % 128 = 126 -> 2 [] b % 128 = 127 -> 8 [] OTHER -> 0

\* The value of two octets, or of eight that are below 2^31.
Number(ext) ==
    LET digit(j) == IF j < Len(ext) THEN ext[Len(ext) - j] ELSE 0
    IN  digit(0) + Weight[2] * digit(1) + Weight[3] * digit(2) + Weight[4] * digit(3)

PayloadLen(hdr) ==
    IF Extended(hdr[2]) = 0 THEN hdr[2] % 128 ELSE Number(SubSeq(hdr, 3, Len(hdr)))

\* Mutant: the length is narrowed to 32 bits before it is compared.
TooLargeNarrowed(ext) == Len(ext) = 8 /\ ext[5] >= 128

\* payloadLen64 > 1<<31-1.
TooLarge(ext) == Len(ext) = 8 /\ (ext[5] >= 128 \/ \E i \in 1..4 : ext[i] # 0)

----------------------------------------------------------------------------
(* writeFrame.                                                             *)

\* Mutant: wsConn.mu is not taken.
FreeUnlocked(x) == TRUE
Free(x) == mu = None

Lock(x, op, n) ==
    /\ wr[x].st \notin {"head", "body"} /\ Free(x)
    /\ mu' = x
    /\ wr' = [wr EXCEPT ![x] = [st |-> "head", op |-> op, n |-> n]]
    /\ UNCHANGED <<out, sent, torn, tears, client, incoming, loop>>

\* SendToUser; the ping goroutine, of whose pings one is modelled.
BeginText(x, n) == wr[x].st = "idle" /\ Lock(x, opcodeText, n)
BeginPing == wr["pinger"].st = "idle" /\ Lock("pinger", opcodePing, 4)

\* The read loop goes on after a frame unless a failed ping has cancelled ctx.
AfterFrame == IF wr["pinger"].st = "error" THEN "closed" ELSE "reading"

\* The frame is written, or a write has failed; a pong's error is ignored.
Unlock(x, st) ==
    /\ mu' = None
    /\ wr' = [wr EXCEPT ![x].st = st]
    /\ loop' = IF x = "loop" /\ loop = "pong" THEN AfterFrame ELSE loop

\* Mutant: no unlock on the return for an empty payload.
WriteHeadKeepsLock(x) ==
    /\ wr[x].st = "head" /\ loop # "closed"
    /\ LET bytes == FrameHead(wr[x].op, wr[x].n)
       IN  out' = out \o [i \in DOMAIN bytes |-> Byte(bytes[i])]
    /\ sent' = Append(sent, [op |-> wr[x].op, n |-> wr[x].n])
    /\ wr' = [wr EXCEPT ![x].st = IF wr[x].n = 0 THEN "done" ELSE "body"]
    /\ UNCHANGED <<mu, loop, torn, tears, client, incoming>>

WriteHead(x) ==
    /\ wr[x].st = "head" /\ loop # "closed"
    /\ LET bytes == FrameHead(wr[x].op, wr[x].n)
       IN  out' = out \o [i \in DOMAIN bytes |-> Byte(bytes[i])]
    /\ sent' = Append(sent, [op |-> wr[x].op, n |-> wr[x].n])
    /\ IF wr[x].n = 0 THEN Unlock(x, "done")
       ELSE wr' = [wr EXCEPT ![x].st = "body"] /\ UNCHANGED <<mu, loop>>
    /\ UNCHANGED <<torn, tears, client, incoming>>

WriteBody(x) ==
    /\ wr[x].st = "body" /\ loop # "closed"
    /\ out' = Append(out, Run(Len(sent), wr[x].n))
    /\ Unlock(x, "done")
    /\ UNCHANGED <<sent, torn, tears, client, incoming>>

\* The deadline passes after k octets of the header or of the payload.
Tear(x, k) ==
    /\ tears < MaxTears /\ tears' = tears + 1 /\ loop # "closed"
    /\ \/ /\ wr[x].st = "head"
          /\ LET bytes == FrameHead(wr[x].op, wr[x].n)
             IN  /\ k < Len(bytes)
                 /\ out' = out \o [i \in 1..k |-> Byte(bytes[i])]
          /\ sent' = Append(sent, [op |-> wr[x].op, n |-> wr[x].n])
       \/ /\ wr[x].st = "body" /\ k < wr[x].n
          /\ out' = IF k = 0 THEN out ELSE Append(out, Run(Len(sent), k))
          /\ UNCHANGED sent
    /\ torn' = IF torn = 0 THEN Len(sent') ELSE torn
    /\ Unlock(x, "error")
    /\ UNCHANGED <<client, incoming>>

\* A write to a connection that is closed.
WriteClosed(x) ==
    /\ wr[x].st \in {"head", "body"} /\ loop = "closed"
    /\ Unlock(x, "error")
    /\ UNCHANGED <<out, sent, torn, tears, client, incoming>>

----------------------------------------------------------------------------
(* The client: a decoder of unmasked frames.                               *)

\* The header at the head of a stream, once all its octets are there.
HasHeader(s) == Len(s) >= 2 /\ Len(s) >= 2 + Extended(s[2].b)
Header(s) == [i \in 1..(2 + Extended(s[2].b)) |-> s[i].b]
Behind(s) == SubSeq(s, Len(Header(s)) + 1, Len(s))

Between == [hdr |-> <<>>, need |-> 0, own |-> TRUE, lost |-> FALSE]
Decoded(hdr, whole) ==
    Append(got, [op |-> hdr[1] % 16, n |-> PayloadLen(hdr), whole |-> whole])

ClientHeader ==
    /\ HasHeader(out) /\ cl.need = 0 /\ ~cl.lost
    /\ LET h == Header(out)
           n == PayloadLen(h)
       IN  \* Payload where a header is due, or a header no server sends.
           IF h[1] < 128 \/ h[2] >= 128 \/ \E i \in DOMAIN h : out[i].f # 0
           THEN cl' = [cl EXCEPT !.lost = TRUE] /\ UNCHANGED <<out, got>>
           ELSE /\ out' = Behind(out)
                /\ cl' = [Between EXCEPT !.hdr = IF n = 0 THEN <<>> ELSE h, !.need = n]
                /\ got' = IF n = 0 THEN Decoded(h, TRUE) ELSE got
    /\ UNCHANGED <<mu, wr, sent, torn, tears, incoming, loop>>

ClientPayload ==
    /\ out # <<>> /\ cl.need > 0
    /\ LET x == Head(out)
           own == cl.own /\ x.f = Len(got) + 1
       IN  IF x.n < cl.need
           THEN /\ out' = Tail(out) /\ UNCHANGED got
                /\ cl' = [cl EXCEPT !.need = @ - x.n, !.own = own]
           ELSE /\ out' = IF x.n = cl.need THEN Tail(out)
                          ELSE <<Run(x.f, x.n - cl.need)>> \o Tail(out)
                /\ cl' = Between /\ got' = Decoded(cl.hdr, own)
    /\ UNCHANGED <<mu, wr, sent, torn, tears, incoming, loop>>

\* The length octets of its frame c behind the second, and the header with them.
LengthOctets(c) == [i \in 1..c.form |-> c.len[8 - c.form + i]]
MaskedHead(c) ==
    <<128 + c.op,
      (IF c.masked THEN 128 ELSE 0) +
      (CASE c.form = 0 -> c.len[8] [] c.form = 2 -> 126 [] c.form = 8 -> 127)>>
    \o LengthOctets(c)

\* It sends a frame: header, then mask and payload.
ClientSends(c) ==
    /\ Len(asked) < MaxIn
    /\ asked' = Append(asked, c)
    /\ LET head == MaskedHead(c)
       IN  in' = in \o [i \in DOMAIN head |-> Byte(head[i])]
                    \o <<Run(Len(asked'), IF TooLarge(LengthOctets(c)) THEN 1
                                          ELSE 4 + Number(c.len))>>
    /\ UNCHANGED <<outgoing, client, read, loop>>

----------------------------------------------------------------------------
(* The read loop.                                                          *)

\* ReadFrame: header, length, then mask and payload with io.ReadFull.
ReadFrame ==
    /\ loop = "reading" /\ HasHeader(in) /\ in[2].b >= 128
    /\ LET h == Header(in)
           op == h[1] % 16
       IN  /\ ~TooLarge(SubSeq(h, 3, Len(h)))
           /\ read' = Append(read, [op |-> op, n |-> PayloadLen(h)])
           /\ in' = Tail(Behind(in))
           /\ loop' = CASE op = opcodePing -> "pong" [] op = opcodeClose -> "closed"
                        [] OTHER -> AfterFrame
    /\ UNCHANGED <<outgoing, client, asked>>

\* An unmasked frame, a length of 2^31 or more, or the end of the stream ends
\* the loop; its handler closes the connection.
ReadFails ==
    /\ loop = "reading"
    /\ loop' = "closed"
    /\ UNCHANGED <<outgoing, client, incoming>>

\* The answer to a ping has its payload.
BeginPong == loop = "pong" /\ Lock("loop", opcodePong, read[Len(read)].n)

----------------------------------------------------------------------------

\* How much of a header or payload gets through: nothing, some, all but one.
Cuts == {0, 1} \cup {n - 1 : n \in Lengths \ {0}}

WriteFrame(x) ==
    WriteHead(x) \/ WriteBody(x) \/ WriteClosed(x) \/ \E k \in Cuts : Tear(x, k)

Next ==
    \/ \E x \in Senders, n \in Lengths : BeginText(x, n)
    \/ BeginPing \/ BeginPong
    \/ \E x \in Writers : WriteFrame(x)
    \/ ClientHeader \/ ClientPayload
    \/ \E c \in Clients : ClientSends(c)
    \/ ReadFrame \/ ReadFails

Spec == Init /\ [][Next]_vars

\* A call of Write returns, by its deadline at the latest, and the client reads.
FairSpec ==
    /\ Spec
    /\ \A x \in Writers : WF_vars(WriteFrame(x))
    /\ WF_vars(ClientHeader \/ ClientPayload)

----------------------------------------------------------------------------
(* Properties.                                                             *)

\* The client decodes the frames that were written, whole and in order, at
\* every size of the length field and with any writers at once, up to the
\* first frame a deadline cut short.  From there on a frame that follows may
\* be taken for the missing payload: the caller of the torn write has its error,
\* and nothing stops the writers behind it (ws.go:111-139, handler.go:208-209).
FramesIntactUpToTear ==
    /\ \A i \in DOMAIN got :
          (torn = 0 \/ i < torn) =>
              got[i] = [op |-> sent[i].op, n |-> sent[i].n, whole |-> TRUE]
    /\ torn = 0 => ~cl.lost

\* In the end every frame has reached the client, unless a write was cut short or
\* the connection is closed, and in any case wsConn.mu is free: no return of
\* writeFrame leaves it locked, that of an empty payload included
\* (ws.go:111-112, 132-139).
FramesArrive ==
    <>[](mu = None /\ (Len(got) = Len(sent) \/ torn # 0 \/ loop = "closed"))

\* ReadFrame returns what the client sent, in order, with the length the client
\* meant, also in a longer form than it needs and at the limits of each form; a
\* frame it refuses ends the reading, so nothing behind it is taken for a frame
\* (ws.go:142-187, handler.go:155-158).
ReadsWhatWasSent ==
    /\ \A i \in DOMAIN read :
          /\ read[i].op = asked[i].op /\ asked[i].masked
          /\ BigEndian(read[i].n, 8) = asked[i].len
    /\ in # <<>> => Len(in) >= 3 /\ in[1].f = 0 /\ in[2].f = 0
=============================================================================
