------------------------- MODULE EpollServerProofs -------------------------
(***************************************************************************)
(* The buffers of the epoll server suffice, and its echo is the stream of  *)
(* the requests, for every client, every buffer size and every cut of the  *)
(* streams.  Room and alignment of rbuf are proved first (Inv); the order  *)
(* of the bytes is inductive relative to them (Stream).                    *)
(***************************************************************************)
EXTENDS EpollServer, SequenceTheorems, TLAPS

Types == /\ script \in Scripts
         /\ csent \in Nat
         /\ start \in Nat /\ size \in Nat /\ remain \in Nat
         /\ state \in {"REQ", "RES", "END"}
         /\ wbuf \in Seq(Nat) /\ wsent \in 0..Len(wbuf)

\* What parsing has passed ends with a request, and is part of what arrived.
Aligned == /\ Parsed \in {script.end[i] : i \in 0..script.n}
           /\ remain <= size /\ Received <= csent /\ csent <= script.end[script.n]

\* The position in the code, Conn.state and the request at hand.
Control == /\ pc \in {"wait", "fill", "parse", "make_room", "echo", "batch", "flush",
                      "compact", "resume", "closed", "aborted"}
           /\ pc \in {"fill", "parse"} => state = "REQ"
           /\ pc = "wait" => state # "END"
           /\ pc \in {"make_room", "flush", "resume"} => state = "RES"
           /\ pc \in {"make_room", "echo"} => Whole

\* wbuf is empty before a read, and holds less than the read has been parsed.
WbufRoom == /\ pc \in {"wait", "fill", "compact"} /\ state = "REQ" => wbuf = <<>>
            /\ pc \in {"parse", "make_room", "echo"} => Len(wbuf) + remain <= Cap

\* A message of the client is too long.
Oversized == \E i \in 1..script.n : script.end[i] > script.end[i - 1] + Header + KMaxMsg

\* rbuf is full only while it is being parsed, or in front of such a message.
RbufRoom == /\ size <= Cap
            /\ pc \in {"wait", "fill", "resume"} => remain = size /\ (size < Cap \/ Oversized)
            /\ pc \in {"batch", "flush", "compact"} => remain < Cap \/ Oversized
            /\ pc = "aborted" => Oversized

Inv == Types /\ Aligned /\ Control /\ WbufRoom /\ RbufRoom

-----------------------------------------------------------------------------

LEMMA ScriptFacts ==
  ASSUME script \in Scripts
  PROVE  /\ script.n \in Nat
         /\ script.end \in [0..script.n -> Nat] /\ script.end[0] = 0
         /\ \A i, j \in 0..script.n : i < j => script.end[j] >= script.end[i] + Header
  BY ScriptAssumption

\* The length prefix of the request that starts at p.
LEMMA LenIs ==
  ASSUME NEW p, \E i \in 1..script.n : script.end[i - 1] = p
  PROVE  \E i \in 1..script.n : script.end[i - 1] = p /\ LenAt(p) = script.end[i] - p - Header
<1>. DEFINE i == CHOOSE j \in 1..script.n : script.end[j - 1] = p
<1>1. i \in 1..script.n /\ script.end[i - 1] = p
  OBVIOUS
<1>2. LenAt(p) = script.end[i] - p - Header
  BY DEF LenAt
<1>. QED
  BY <1>1, <1>2

LEMMA LenInt ==
  ASSUME script \in Scripts, NEW p \in Nat
  PROVE  LenAt(p) \in Int
<1> USE SizeAssumption
<1>1. CASE \E i \in 1..script.n : script.end[i - 1] = p
  <2>1. PICK i \in 1..script.n : LenAt(p) = script.end[i] - p - Header
    BY <1>1, LenIs
  <2>2. script.end[i] \in Nat
    BY ScriptFacts
  <2>. QED
    BY <2>1, <2>2
<1>2. CASE ~ \E i \in 1..script.n : script.end[i - 1] = p
  BY <1>2 DEF LenAt
<1>. QED
  BY <1>1, <1>2

\* A length prefix that is accepted is that of a request that starts there.
LEMMA LenFacts ==
  ASSUME script \in Scripts, NEW p \in Nat, LenAt(p) <= KMaxMsg
  PROVE  /\ LenAt(p) \in Nat
         /\ \E i \in 1..script.n : p + Header + LenAt(p) = script.end[i]
<1> USE SizeAssumption
<1>1. \E i \in 1..script.n : script.end[i - 1] = p
  BY DEF LenAt
<1>2. PICK i \in 1..script.n : script.end[i - 1] = p /\ LenAt(p) = script.end[i] - p - Header
  BY <1>1, LenIs
<1>3. script.n \in Nat /\ i - 1 \in 0..script.n /\ i \in 0..script.n /\ i - 1 < i
  BY ScriptFacts
<1>4. script.end[i] \in Nat /\ script.end[i] >= p + Header
  BY <1>2, <1>3, ScriptFacts
<1>. QED
  BY <1>2, <1>4

\* A length prefix that is refused belongs to a message that is too long.
LEMMA Refused ==
  ASSUME Types, Aligned, TooLong
  PROVE  Oversized
<1> USE SizeAssumption
<1>1. PICK i \in 0..script.n : Parsed = script.end[i]
  BY DEF Aligned
<1>2. script.n \in Nat /\ \A j \in 0..script.n : script.end[j] \in Nat
  BY ScriptFacts DEF Types
<1>3. i # script.n
  BY <1>1, <1>2 DEF Aligned, Types, TooLong, HasPrefix, Parsed, Received
<1>4. i + 1 \in 1..script.n /\ script.end[(i + 1) - 1] = Parsed
  BY <1>1, <1>2, <1>3
<1>5. PICK j \in 1..script.n :
         script.end[j - 1] = Parsed /\ LenAt(Parsed) = script.end[j] - Parsed - Header
  BY <1>4, LenIs
<1>6. script.end[j] \in Nat /\ Parsed \in Nat
  BY <1>1, <1>2
<1>7. script.end[j] > script.end[j - 1] + Header + KMaxMsg
  BY <1>5, <1>6 DEF TooLong
<1>. QED
  BY <1>7 DEF Oversized

-----------------------------------------------------------------------------

LEMMA InitInv == Init => Inv
<1> SUFFICES ASSUME Init PROVE Inv
  OBVIOUS
<1> USE SizeAssumption DEF Init
<1>1. script.n \in Nat /\ script.end[0] = 0 /\ script.end[script.n] \in Nat
  BY ScriptFacts
<1>2. Types
  BY DEF Types
<1>3. Aligned
  <2>1. Parsed = 0 /\ Received = 0
    BY DEF Parsed, Received
  <2>. QED
    BY <1>1, <2>1 DEF Aligned
<1>4. Control /\ WbufRoom /\ RbufRoom
  BY DEF Control, WbufRoom, RbufRoom, Cap
<1>. QED
  BY <1>2, <1>3, <1>4 DEF Inv

\* The actions of the client.
LEMMA ClientInv == ASSUME Inv, ClientSend \/ ClientRead \/ ClientClose PROVE Inv'
<1> USE SizeAssumption
<1>1. script.n \in Nat /\ script.end[script.n] \in Nat
  BY ScriptFacts DEF Inv, Types
<1>2. UNCHANGED <<script, rbuf, state, wbuf, wsent, pc>>
  BY DEF ClientSend, ClientRead, ClientClose, client
<1>3. csent' \in Nat /\ csent <= csent' /\ csent' <= script.end[script.n]
  BY <1>1 DEF ClientSend, ClientRead, ClientClose, Inv, Types, Aligned, client
<1>4. Types'
  BY <1>2, <1>3 DEF Inv, Types, rbuf
<1>5. Aligned'
  BY <1>1, <1>2, <1>3 DEF Inv, Types, Aligned, Parsed, Received, rbuf
<1>6. Control' /\ WbufRoom' /\ RbufRoom'
  BY <1>2 DEF Inv, Control, WbufRoom, RbufRoom, Whole, TooLong, HasPrefix, LenAt, Parsed,
              Oversized, rbuf
<1>. QED
  BY <1>4, <1>5, <1>6 DEF Inv

\* Steps that leave the stream, rbuf and wbuf alone.
LEMMA SameBuffers ==
  ASSUME Inv, UNCHANGED <<client, rbuf, wbuf, wsent>>, state' \in {"REQ", "RES", "END"},
         Control', WbufRoom', RbufRoom'
  PROVE  Inv'
  BY DEF Inv, Types, Aligned, Parsed, Received, client, rbuf

LEMMA FillInv == ASSUME Inv, Fill PROVE Inv'
<1> USE SizeAssumption
<1>1. PICK n \in 1..Cap - size : Received + n <= csent /\ size' = size + n
  BY DEF Fill
<1>2. /\ remain' = size' /\ pc' = "parse" /\ state = "REQ" /\ wbuf = <<>> /\ remain = size
      /\ UNCHANGED <<script, csent, start, state, wbuf, wsent>>
  BY DEF Fill, client, Inv, Control, WbufRoom, RbufRoom
<1>3. size \in Nat /\ start \in Nat /\ csent \in Nat /\ Cap \in Nat
  BY DEF Inv, Types, Cap
<1>4. size' \in Nat /\ size' <= Cap
  BY <1>1, <1>3
<1>5. Types'
  BY <1>2, <1>4 DEF Inv, Types
<1>6. Parsed' = Parsed /\ Received' <= csent
  BY <1>1, <1>2, <1>3 DEF Parsed, Received
<1>7. Aligned'
  BY <1>2, <1>4, <1>6 DEF Inv, Aligned
<1>8. Control' /\ RbufRoom'
  BY <1>2, <1>4 DEF Inv, Control, RbufRoom
<1>9. WbufRoom'
  BY <1>2, <1>4, EmptySeq DEF WbufRoom
<1>. QED
  BY <1>5, <1>7, <1>8, <1>9 DEF Inv

LEMMA EchoInv == ASSUME Inv, Echo PROVE Inv'
<1> USE SizeAssumption
<1>. DEFINE n == Header + LenAt(Parsed)
            x == [i \in 1..n |-> Parsed + i]
<1>1. /\ wbuf' = wbuf \o x /\ remain' = remain - n
      /\ pc' = IF state = "REQ" THEN "parse" ELSE "batch"
      /\ UNCHANGED <<script, csent, start, size, state, wsent>>
  BY DEF Echo, client
<1>2. /\ start \in Nat /\ size \in Nat /\ remain \in Nat /\ csent \in Nat
      /\ remain <= size /\ size <= Cap /\ Cap \in Nat
      /\ wbuf \in Seq(Nat) /\ Len(wbuf) \in Nat /\ wsent \in 0..Len(wbuf)
  BY DEF Inv, Types, Aligned, RbufRoom, Cap
<1>3. LenAt(Parsed) <= KMaxMsg /\ n <= remain
  <2>1. Whole
    BY DEF Echo, Inv, Control
  <2>2. Parsed \in Nat
    BY <1>2 DEF Parsed
  <2>3. LenAt(Parsed) \in Int
    BY <2>2, LenInt DEF Inv, Types
  <2>. QED
    BY <2>1, <2>3 DEF Whole, TooLong
<1>4. Parsed \in Nat /\ LenAt(Parsed) \in Nat /\ \E i \in 1..script.n : Parsed + n = script.end[i]
  <2>1. Parsed \in Nat
    BY <1>2 DEF Parsed
  <2>2. PICK i \in 1..script.n :
           LenAt(Parsed) \in Nat /\ Parsed + Header + LenAt(Parsed) = script.end[i]
    BY <1>3, <2>1, LenFacts DEF Inv, Types
  <2>3. Parsed + n = script.end[i]
    BY <2>1, <2>2
  <2>. QED
    BY <2>1, <2>2, <2>3
<1>5. n \in Nat /\ n >= Header
  BY <1>4
<1>6. x \in Seq(Nat) /\ Len(x) = n
  BY <1>4, <1>5
<1>7. wbuf' \in Seq(Nat) /\ Len(wbuf') = Len(wbuf) + n
  BY <1>1, <1>2, <1>6, ConcatProperties
<1>8. remain' \in Nat /\ remain' <= size /\ remain' < Cap
  BY <1>1, <1>2, <1>3, <1>5
<1>9. Types'
  BY <1>1, <1>2, <1>5, <1>7, <1>8 DEF Inv, Types
<1>10. Parsed' = Parsed + n /\ Received' = Received
  BY <1>1, <1>2, <1>5 DEF Parsed, Received
<1>11. Aligned'
  <2>1. script.n \in Nat
    BY ScriptFacts DEF Inv, Types
  <2>2. Parsed' \in {script.end[i] : i \in 0..script.n}
    BY <1>4, <1>10, <2>1
  <2>. QED
    BY <1>1, <1>8, <1>10, <2>2 DEF Inv, Aligned
<1>12. Control' /\ RbufRoom'
  BY <1>1, <1>8 DEF Inv, Control, RbufRoom, Types
<1>13. WbufRoom'
  <2>1. Len(wbuf) + remain <= Cap
    BY DEF Inv, WbufRoom, Echo
  <2>2. Len(wbuf') + remain' <= Cap
    BY <1>1, <1>2, <1>5, <1>7, <2>1
  <2>. QED
    BY <1>1, <2>2 DEF WbufRoom
<1>. QED
  BY <1>9, <1>11, <1>12, <1>13 DEF Inv

LEMMA CompactInv == ASSUME Inv, Compact PROVE Inv'
<1>1. /\ size' = remain /\ start' = Parsed
      /\ UNCHANGED <<script, csent, remain, state, wbuf, wsent>>
      /\ pc = "compact"
      /\ \/ state = "REQ" /\ pc' = "fill"
         \/ state = "RES" /\ pc' = "wait"
         \/ state = "END" /\ pc' = "closed"
  BY DEF Compact, client, Inv, Types
<1>2. start \in Nat /\ size \in Nat /\ remain \in Nat /\ remain <= size
  BY DEF Inv, Types, Aligned
<1>3. Types'
  BY <1>1, <1>2 DEF Inv, Types, Parsed
<1>4. Parsed' = Parsed /\ Received' = Received
  BY <1>1, <1>2 DEF Parsed, Received
<1>5. Aligned'
  BY <1>1, <1>2, <1>4 DEF Inv, Aligned
<1>6. Control' /\ WbufRoom'
  BY <1>1 DEF Inv, Control, WbufRoom
<1>7. RbufRoom'
  BY <1>1, <1>2, SizeAssumption DEF Inv, RbufRoom, Oversized, Cap
<1>. QED
  BY <1>3, <1>5, <1>6, <1>7 DEF Inv

LEMMA FlushInv == ASSUME Inv, Flush PROVE Inv'
<1>1. PICK n \in 0..Len(wbuf) - wsent :
        IF wsent + n = Len(wbuf)
        THEN wbuf' = <<>> /\ wsent' = 0 /\ state' = "REQ" /\ pc' = After("REQ")
        ELSE wsent' = wsent + n /\ UNCHANGED <<wbuf, state, pc>>
  BY DEF Flush
<1>2. UNCHANGED <<script, csent, rbuf>> /\ pc \in {"make_room", "flush", "resume"}
  BY DEF Flush, Flushing, client
<1>3. wbuf \in Seq(Nat) /\ Len(wbuf) \in Nat /\ wsent \in 0..Len(wbuf)
  BY DEF Inv, Types
<1>4. wbuf' \in Seq(Nat) /\ Len(wbuf') <= Len(wbuf) /\ wsent' \in 0..Len(wbuf')
      /\ Len(wbuf') \in Nat
  <2>1. CASE wsent + n = Len(wbuf)
    BY <1>1, <1>3, <2>1, EmptySeq
  <2>2. CASE wsent + n # Len(wbuf)
    BY <1>1, <1>3, <2>2
  <2>. QED
    BY <2>1, <2>2
<1>5. Types'
  BY <1>1, <1>2, <1>4 DEF Inv, Types, rbuf
<1>6. Aligned'
  BY <1>2 DEF Inv, Aligned, Parsed, Received, rbuf
<1>7. \/ UNCHANGED <<wbuf, state, pc>>
      \/ wbuf' = <<>> /\ state' = "REQ" /\ pc = "make_room" /\ pc' = "echo"
      \/ wbuf' = <<>> /\ state' = "REQ" /\ pc = "flush" /\ pc' = "compact"
      \/ wbuf' = <<>> /\ state' = "REQ" /\ pc = "resume" /\ pc' = "wait"
  BY <1>1, <1>2 DEF After
<1>8. Control' /\ RbufRoom'
  BY <1>2, <1>7 DEF Inv, Control, RbufRoom, Whole, TooLong, HasPrefix, LenAt, Parsed,
                    Oversized, rbuf
<1>9. WbufRoom'
  <2>1. remain \in Nat /\ remain' = remain /\ Cap \in Nat
    BY <1>2, SizeAssumption DEF Inv, Types, rbuf, Cap
  <2>2. pc \in {"make_room", "echo"} => Len(wbuf') + remain' <= Cap
    BY <1>3, <1>4, <2>1 DEF Inv, WbufRoom
  <2>. QED
    BY <1>2, <1>7, <2>2 DEF Inv, Control, WbufRoom
<1>. QED
  BY <1>5, <1>6, <1>8, <1>9 DEF Inv

\* The steps between two system calls, and those that find nothing to do.
LEMMA ControlInv ==
  ASSUME Inv, \/ Wake \/ FillAborts \/ FillAgain \/ FillEnd
              \/ ParseTooLong \/ ParseMore \/ Request
              \/ BatchDone \/ FlushAgain \/ FlushEnd
  PROVE  Inv'
<1> USE SizeAssumption
<1> USE DEF Control, WbufRoom, RbufRoom, Whole, TooLong, HasPrefix, Parsed, Oversized, LenAt, rbuf, client
<1>1. UNCHANGED <<client, rbuf, wbuf, wsent>>
  BY DEF Wake, FillAborts, FillAgain, FillEnd, ParseTooLong, ParseMore, Request,
         BatchDone, FlushAgain, FlushEnd
<1>2. CASE Wake
  BY <1>1, <1>2, SameBuffers DEF Wake, Inv, Types
<1>3. CASE FillAborts
  BY <1>1, <1>3, SameBuffers DEF FillAborts, Inv, Types
<1>4. CASE FillAgain
  BY <1>1, <1>4, SameBuffers DEF FillAgain, Inv, Types
<1>5. CASE FillEnd
  BY <1>1, <1>5, SameBuffers DEF FillEnd, Inv, Types
<1>6. CASE ParseTooLong
  BY <1>1, <1>6, SameBuffers, Refused DEF ParseTooLong, Inv, Types
<1>7. CASE ParseMore
  <2>1. Parsed \in Nat
    BY DEF Inv, Types, Aligned
  <2>2. LenAt(Parsed) \in Int
    BY <2>1, LenInt DEF Inv, Types
  <2>3. remain < Cap
    BY <1>7, <2>2 DEF ParseMore, Inv, Types, Cap
  <2>. QED
    BY <1>1, <1>7, <2>3, SameBuffers DEF ParseMore, Inv, Types
<1>8. CASE Request
  BY <1>1, <1>8, SameBuffers DEF Request, Inv, Types
<1>9. CASE BatchDone
  BY <1>1, <1>9, SameBuffers DEF BatchDone, Inv, Types
<1>10. CASE FlushAgain
  BY <1>1, <1>10, SameBuffers DEF FlushAgain, Flushing, After, Inv, Types
<1>11. CASE FlushEnd
  BY <1>1, <1>11, SameBuffers DEF FlushEnd, Flushing, After, Inv, Types
<1>. QED
  BY <1>2, <1>3, <1>4, <1>5, <1>6, <1>7, <1>8, <1>9, <1>10, <1>11

LEMMA NextInv == Inv /\ [Next]_vars => Inv'
<1> SUFFICES ASSUME Inv, [Next]_vars PROVE Inv'
  OBVIOUS
<1>1. CASE UNCHANGED vars
  BY <1>1 DEF vars, client, rbuf, Inv, Types, Aligned, Control, WbufRoom, RbufRoom, Whole,
              TooLong, HasPrefix, LenAt, Parsed, Received, Oversized
<1>. QED
  BY <1>1, ClientInv, FillInv, EchoInv, CompactInv, FlushInv, ControlInv DEF Next, Server

LEMMA InvHolds == Spec => []Inv
  BY InitInv, NextInv, PTL DEF Spec
-----------------------------------------------------------------------------

\* wbuf has room for every copy of a response and, unless a message is too
\* long, rbuf for every read.
THEOREM Buffers == Spec => []BuffersSuffice
<1>1. ASSUME Inv PROVE BuffersSuffice
  <2>1. pc = "aborted" => Oversized
    BY <1>1 DEF Inv, RbufRoom
  <2>2. pc = "echo" => Len(wbuf) + Header + LenAt(Parsed) <= Cap
    <3>1. Parsed \in Nat /\ LenAt(Parsed) \in Int /\ Len(wbuf) \in Nat
      BY <1>1, LenInt DEF Inv, Types, Aligned, Parsed
    <3>2. pc = "echo" => Header + LenAt(Parsed) <= remain /\ Len(wbuf) + remain <= Cap
      BY <1>1 DEF Inv, Control, Whole, WbufRoom
    <3>. QED
      BY <1>1, <3>1, <3>2, SizeAssumption DEF Inv, Types, Cap
  <2>. QED
    BY <2>1, <2>2 DEF BuffersSuffice, Oversized
<1>. QED
  BY <1>1, InvHolds, PTL
-----------------------------------------------------------------------------
(* The order of the bytes *)

\* Byte by byte: what was written, and then what waits in wbuf.
Stream == /\ wire \in Seq(Nat)
          /\ Len(wire) + Len(wbuf) - wsent = Parsed
          /\ \A i \in 1..Len(wire) : wire[i] = i
          /\ \A i \in (wsent + 1)..Len(wbuf) : wbuf[i] = Len(wire) - wsent + i

\* A piece of wbuf, and what write() leaves on the wire.
LEMMA Piece ==
  ASSUME NEW s \in Seq(Nat), NEW m \in 0..Len(s), NEW n \in 0..(Len(s) - m)
  PROVE  /\ SubSeq(s, m + 1, m + n) \in Seq(Nat)
         /\ Len(SubSeq(s, m + 1, m + n)) = n
         /\ \A i \in 1..n : SubSeq(s, m + 1, m + n)[i] = s[m + i]
<1>1. Len(s) \in Nat /\ m \in Nat /\ n \in Nat /\ m + 1 \in Int /\ m + n \in Int
  OBVIOUS
<1>2. \A i \in (m + 1)..(m + n) : s[i] \in Nat
  <2>1. \A i \in (m + 1)..(m + n) : i \in 1..Len(s)
    BY <1>1
  <2>. QED
    BY <2>1, ElementOfSeq
<1>. DEFINE x == SubSeq(s, m + 1, m + n)
<1>3. /\ x \in Seq(Nat)
      /\ Len(x) = IF m + 1 <= m + n THEN (m + n) - (m + 1) + 1 ELSE 0
      /\ \A i \in 1..((m + n) - (m + 1) + 1) : x[i] = s[(m + 1) + i - 1]
  BY <1>1, <1>2, SubSeqProperties
<1>. HIDE DEF x
<1>4. Len(x) = n
  BY <1>1, <1>3
<1>5. ASSUME NEW i \in 1..n PROVE x[i] = s[m + i]
  <2>1. i \in 1..((m + n) - (m + 1) + 1) /\ (m + 1) + i - 1 = m + i
    BY <1>1
  <2>. QED
    BY <1>3, <2>1
<1>. QED
  BY <1>3, <1>4, <1>5 DEF x

\* The lengths of wire (a) and wbuf (b), wsent (c) and Parsed (p) after n more bytes.
LEMMA Grown ==
  ASSUME NEW a \in Int, NEW b \in Int, NEW c \in Int, NEW p \in Int, NEW n \in Int,
         a + b - c = p
  PROVE  /\ a + (b + n) - c = p + n
         /\ (a + n) + b - (c + n) = p
  OBVIOUS

LEMMA EchoStream == ASSUME Inv, Stream, Echo PROVE Stream'
<1>. DEFINE n == Header + LenAt(Parsed)
            x == [i \in 1..n |-> Parsed + i]
<1>1. /\ wbuf' = wbuf \o x /\ remain' = remain - n
      /\ UNCHANGED <<start, size, wsent, wire>>
  BY DEF Echo
<1>2. /\ start \in Nat /\ size \in Nat /\ remain \in Nat /\ Parsed \in Nat
      /\ wbuf \in Seq(Nat) /\ Len(wbuf) \in Nat /\ wsent \in 0..Len(wbuf)
      /\ wire \in Seq(Nat) /\ Len(wire) \in Nat
      /\ Len(wire) + Len(wbuf) - wsent = Parsed
  BY DEF Inv, Types, Aligned, Parsed, Stream
<1>3. n \in Nat
  <2>1. LenAt(Parsed) \in Int
    BY <1>2, LenInt DEF Inv, Types
  <2>2. LenAt(Parsed) <= KMaxMsg
    BY <2>1, SizeAssumption DEF Echo, Inv, Control, Whole, TooLong
  <2>3. LenAt(Parsed) \in Nat
    BY <1>2, <2>2, LenFacts DEF Inv, Types
  <2>. QED
    BY <2>3, SizeAssumption
<1>. HIDE DEF n
<1>4. x \in Seq(Nat) /\ Len(x) = n /\ \A i \in 1..n : x[i] = Parsed + i
  <2>1. Parsed \in Nat
    BY <1>2
  <2>. HIDE DEF Parsed
  <2>. QED
    BY <1>3, <2>1
<1>. HIDE DEF x
<1>5. /\ Len(wbuf') = Len(wbuf) + n
      /\ \A i \in 1..Len(wbuf) + n :
            wbuf'[i] = IF i <= Len(wbuf) THEN wbuf[i] ELSE x[i - Len(wbuf)]
  BY <1>1, <1>2, <1>4, ConcatProperties
<1>6. Parsed' = Parsed + n
  BY <1>1, <1>2, <1>3 DEF Parsed
<1>7. Len(wire') + Len(wbuf') - wsent' = Parsed'
  <2>1. Len(wire) + (Len(wbuf) + n) - wsent = Parsed + n
    BY <1>2, <1>3, Grown
  <2>2. Len(wire') = Len(wire) /\ wsent' = wsent /\ Len(wbuf') = Len(wbuf) + n
    BY <1>1, <1>5
  <2>. QED
    BY <1>6, <2>1, <2>2, Zenon
<1>8. ASSUME NEW i \in (wsent' + 1)..Len(wbuf')
      PROVE  wbuf'[i] = Len(wire') - wsent' + i
  <2>1. i \in Nat /\ i >= wsent + 1 /\ i <= Len(wbuf) + n /\ i \in 1..Len(wbuf) + n
    BY <1>1, <1>2, <1>3, <1>5
  <2>2. CASE i <= Len(wbuf)
    <3>1. i \in (wsent + 1)..Len(wbuf) /\ wbuf'[i] = wbuf[i]
      BY <1>2, <1>5, <2>1, <2>2
    <3>. QED
      BY <1>1, <3>1 DEF Stream
  <2>3. CASE i > Len(wbuf)
    <3>1. i - Len(wbuf) \in 1..n /\ wbuf'[i] = x[i - Len(wbuf)]
      BY <1>2, <1>3, <1>5, <2>1, <2>3
    <3>2. wbuf'[i] = Parsed + (i - Len(wbuf))
      BY <1>4, <3>1
    <3>3. Len(wire) - wsent + i = Parsed + (i - Len(wbuf))
      <4>1. /\ Len(wire) \in Int /\ Len(wbuf) \in Int /\ wsent \in Int /\ Parsed \in Int
            /\ i \in Int /\ Len(wire) + Len(wbuf) - wsent = Parsed
        BY <1>2, <2>1
      <4>. QED
        BY <4>1
    <3>4. Len(wire') = Len(wire) /\ wsent' = wsent
      BY <1>1
    <3>. QED
      BY <3>2, <3>3, <3>4, Zenon
  <2>. QED
    BY <1>2, <2>1, <2>2, <2>3
<1>. QED
  BY <1>1, <1>7, <1>8 DEF Stream

LEMMA FlushStream == ASSUME Inv, Stream, Flush PROVE Stream'
<1>1. PICK n \in 0..Len(wbuf) - wsent :
        /\ wire' = wire \o SubSeq(wbuf, wsent + 1, wsent + n)
        /\ \/ wsent + n = Len(wbuf) /\ wbuf' = <<>> /\ wsent' = 0
           \/ wsent' = wsent + n /\ wbuf' = wbuf
  BY DEF Flush
<1>. DEFINE x == SubSeq(wbuf, wsent + 1, wsent + n)
<1>2. /\ wbuf \in Seq(Nat) /\ Len(wbuf) \in Nat /\ wsent \in 0..Len(wbuf) /\ n \in Nat
      /\ wire \in Seq(Nat) /\ Len(wire) \in Nat /\ Parsed \in Int
      /\ Len(wire) + Len(wbuf) - wsent = Parsed
  BY DEF Inv, Types, Stream, Parsed
<1>3. /\ x \in Seq(Nat) /\ Len(x) = n
      /\ \A i \in 1..n : x[i] = Len(wire) + i
  <2>3. x \in Seq(Nat) /\ Len(x) = n /\ \A i \in 1..n : x[i] = wbuf[wsent + i]
    BY <1>2, Piece
  <2>4. \A i \in 1..n : x[i] = wbuf[wsent + i] /\ wsent + i \in (wsent + 1)..Len(wbuf)
    BY <1>1, <1>2, <2>3
  <2>5. \A i \in 1..n : x[i] = Len(wire) - wsent + (wsent + i)
    BY <2>4 DEF Stream
  <2>6. \A i \in 1..n : x[i] = Len(wire) + i
    BY <1>2, <2>5
  <2>. QED
    BY <2>3, <2>6
<1>. HIDE DEF x
<1>4. /\ wire' \in Seq(Nat) /\ Len(wire') = Len(wire) + n
      /\ \A i \in 1..Len(wire) + n :
            wire'[i] = IF i <= Len(wire) THEN wire[i] ELSE x[i - Len(wire)]
  <2>1. wire' = wire \o x
    BY <1>1 DEF x
  <2>. QED
    BY <1>2, <1>3, <2>1, ConcatProperties
<1>5. ASSUME NEW i \in 1..Len(wire') PROVE wire'[i] = i
  <2>1. CASE i <= Len(wire)
    <3>1. i \in 1..Len(wire) /\ wire'[i] = wire[i]
      BY <1>2, <1>4, <2>1
    <3>. QED
      BY <3>1 DEF Stream
  <2>2. CASE i > Len(wire)
    <3>1. i - Len(wire) \in 1..n /\ wire'[i] = x[i - Len(wire)]
      BY <1>2, <1>4, <2>2
    <3>. QED
      BY <1>2, <1>3, <3>1
  <2>. QED
    BY <1>2, <2>1, <2>2
<1>6. Parsed' = Parsed
  BY DEF Flush, rbuf, Parsed
<1>7. CASE wsent + n = Len(wbuf) /\ wbuf' = <<>> /\ wsent' = 0
  <2>1. Len(wire') + Len(wbuf') - wsent' = Parsed'
    <3>1. Len(wire) + n = Parsed
      <4>1. /\ Len(wire) \in Int /\ Len(wbuf) \in Int /\ wsent \in Int /\ Parsed \in Int
            /\ n \in Int /\ Len(wire) + Len(wbuf) - wsent = Parsed
        BY <1>2
      <4>. QED
        BY <1>7, <4>1
    <3>2. Len(wbuf') = 0 /\ wsent' = 0
      BY <1>7, EmptySeq
    <3>3. Len(wire') = Parsed' /\ Len(wire') \in Int
      BY <1>2, <1>4, <1>6, <3>1
    <3>. QED
      BY <3>2, <3>3
  <2>. QED
    BY <1>4, <1>5, <1>7, <2>1, EmptySeq DEF Stream
<1>8. CASE wsent' = wsent + n /\ wbuf' = wbuf
  <2>1. Len(wire') + Len(wbuf') - wsent' = Parsed'
    <3>1. (Len(wire) + n) + Len(wbuf) - (wsent + n) = Parsed
      BY <1>2, Grown
    <3>. QED
      BY <1>4, <1>6, <1>8, <3>1, Zenon
  <2>2. ASSUME NEW i \in (wsent' + 1)..Len(wbuf')
        PROVE  wbuf'[i] = Len(wire') - wsent' + i
    <3>1. i \in (wsent + 1)..Len(wbuf) /\ i \in Int
      BY <1>2, <1>8
    <3>2. wbuf[i] = Len(wire) - wsent + i
      BY <3>1 DEF Stream
    <3>. QED
      BY <1>2, <1>4, <1>8, <3>1, <3>2
  <2>. QED
    BY <1>4, <1>5, <2>1, <2>2 DEF Stream
<1>. QED
  BY <1>1, <1>7, <1>8

LEMMA NextStream == Inv /\ Stream /\ [Next]_vars => Stream'
<1> SUFFICES ASSUME Inv, Stream, [Next]_vars PROVE Stream'
  OBVIOUS
<1>1. ASSUME UNCHANGED <<wire, wbuf, wsent>>, Parsed' = Parsed PROVE Stream'
  BY <1>1 DEF Stream
<1>2. CASE Fill
  <2>1. Parsed' = Parsed
    BY <1>2 DEF Fill, Parsed, Inv, Types, Control, RbufRoom
  <2>. QED
    BY <1>1, <1>2, <2>1 DEF Fill
<1>3. CASE Compact
  <2>1. Parsed' = Parsed
    BY <1>3 DEF Compact, Parsed, Inv, Types
  <2>. QED
    BY <1>1, <1>3, <2>1 DEF Compact
<1>4. CASE UNCHANGED <<wire, rbuf, wbuf, wsent>>
  BY <1>1, <1>4 DEF rbuf, Parsed
<1>. QED
  BY <1>2, <1>3, <1>4, EchoStream, FlushStream
  DEF Next, Server, vars, ClientSend, ClientRead, ClientClose, Wake, FillAborts, FillAgain,
      FillEnd, ParseTooLong, ParseMore, Request, BatchDone, FlushAgain, FlushEnd

\* Requests and responses may be cut, batched and blocked in any way: the
\* bytes echoed are those of the requests parsed, in their order.
THEOREM Echoes == Spec => []EchoInOrder
<1>1. Init => Stream
  BY EmptySeq DEF Init, Stream, Parsed
<1>2. ASSUME Inv, Stream PROVE EchoInOrder
  <2>. DEFINE x == SubSeq(wbuf, wsent + 1, Len(wbuf))
              all == [i \in 1..Parsed |-> i]
  <2>1. /\ wbuf \in Seq(Nat) /\ Len(wbuf) \in Nat /\ wsent \in 0..Len(wbuf)
        /\ wire \in Seq(Nat) /\ Len(wire) \in Nat /\ Parsed \in Nat
        /\ Len(wire) + Len(wbuf) - wsent = Parsed
    BY <1>2 DEF Inv, Types, Aligned, Stream, Parsed
  <2>3. /\ x \in Seq(Nat)
        /\ Len(x) = Len(wbuf) - wsent
        /\ \A i \in 1..(Len(wbuf) - wsent) : x[i] = wbuf[wsent + i]
    <3>1. Len(wbuf) - wsent \in 0..(Len(wbuf) - wsent) /\ wsent + (Len(wbuf) - wsent) = Len(wbuf)
      BY <2>1
    <3>2. LET y == SubSeq(wbuf, wsent + 1, wsent + (Len(wbuf) - wsent))
          IN  /\ y \in Seq(Nat) /\ Len(y) = Len(wbuf) - wsent
              /\ \A i \in 1..(Len(wbuf) - wsent) : y[i] = wbuf[wsent + i]
      BY <2>1, <3>1, Piece
    <3>. QED
      BY <3>1, <3>2
  <2>. HIDE DEF x
  <2>4. /\ wire \o x \in Seq(Nat) /\ Len(wire \o x) = Len(wire) + Len(x)
        /\ \A i \in 1..Len(wire) + Len(x) :
              (wire \o x)[i] = IF i <= Len(wire) THEN wire[i] ELSE x[i - Len(wire)]
    BY <2>1, <2>3, ConcatProperties
  <2>5. Len(wire \o x) = Parsed
    BY <1>2, <2>1, <2>3, <2>4 DEF Stream
  <2>6. ASSUME NEW i \in 1..Parsed PROVE (wire \o x)[i] = i
    <3>1. CASE i <= Len(wire)
      BY <1>2, <2>1, <2>4, <2>5, <3>1 DEF Stream
    <3>2. CASE i > Len(wire)
      <4>1. i - Len(wire) \in 1..(Len(wbuf) - wsent) /\ (wire \o x)[i] = x[i - Len(wire)]
        BY <2>1, <2>3, <2>4, <2>5, <3>2
      <4>2. (wire \o x)[i] = wbuf[wsent + (i - Len(wire))]
        BY <2>3, <4>1
      <4>3. wsent + (i - Len(wire)) \in (wsent + 1)..Len(wbuf)
        BY <2>1, <4>1
      <4>4. (wire \o x)[i] = Len(wire) - wsent + (wsent + (i - Len(wire)))
        BY <1>2, <4>2, <4>3 DEF Stream
      <4>. QED
        BY <2>1, <4>4
    <3>3. i <= Len(wire) \/ i > Len(wire)
      BY <2>1
    <3>. QED
      BY <3>1, <3>2, <3>3, Zenon
  <2>7. all \in Seq(Nat) /\ Len(all) = Parsed /\ \A i \in 1..Parsed : all[i] = i
    BY <2>1
  <2>. HIDE DEF all
  <2>8. wire \o x = all
    BY <2>4, <2>5, <2>6, <2>7, SeqEqual
  <2>. QED
    BY <2>8 DEF EchoInOrder, x, all
<1>. QED
  BY <1>1, <1>2, InvHolds, NextStream, PTL DEF Spec
=============================================================================
