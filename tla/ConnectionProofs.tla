-------------------------- MODULE ConnectionProofs --------------------------
(***************************************************************************)
(* The assertions, the alignment of rbuf and the framing of the responses, *)
(* for every script of requests, every buffer size and every cut of the    *)
(* streams into reads and writes.  They are proved together: the room in   *)
(* rbuf depends on its alignment, the framing on the state of wbuf.        *)
(***************************************************************************)
EXTENDS Connection, TLAPS

\* The position in the code, Conn.state and wbuf agree.
Control ==
    /\ pc \in {"fill", "parse"} => state = "REQ"
    /\ pc \in {"flush", "flush_req"} => state = "RES"
    /\ (pc = "closed") <=> (state = "END")
    /\ state = "REQ" => wsize = 0 /\ wsent = 0
    /\ state = "RES" => wsize > 0
    /\ wsize = 0 => wsent = 0
    /\ wsize > 0 => done > 0 /\ wsize = RespSize(done) /\ wsent < wsize

\* rbuf holds received bytes, and is full only when it is about to be parsed.
Room == /\ lo <= hi /\ hi <= csent /\ csent <= script.end[script.n]
        /\ hi - lo <= RbufCap
        /\ pc \notin {"parse", "closed"} => hi - lo < RbufCap

Inv == TypeOK /\ Aligned /\ Control /\ Room /\ Framing

-----------------------------------------------------------------------------

\* What the assumption on scripts says of the script of this connection.
LEMMA ScriptFacts ==
  ASSUME script \in Scripts
  PROVE  /\ script.n \in Nat
         /\ script.end \in [0..script.n -> Nat] /\ script.end[0] = 0
         /\ \A i, j \in 0..script.n : i < j => script.end[j] >= script.end[i] + Header
         /\ script.out \in [1..script.n -> Nat]
         /\ script.ok \in [1..script.n -> BOOLEAN]
  BY ScriptAssumption

\* A reply fits in wbuf with its length prefix.
LEMMA RespFits ==
  ASSUME script \in Scripts, NEW i \in 1..script.n
  PROVE  RespSize(i) \in Nat /\ 0 < RespSize(i) /\ RespSize(i) <= RbufCap
<1>1. script.out[i] \in Nat
  BY ScriptFacts
<1>. QED
  BY <1>1, SizeAssumption DEF RespSize, OutSize, RbufCap

\* At the end of the requests executed, the length prefix is that of the next
\* one, and there is none after the last.
LEMMA NextLength ==
  ASSUME script \in Scripts, done \in 0..script.n, lo = script.end[done]
  PROVE  /\ done = script.n => LenAt(lo) = KMaxMsg + 1
         /\ done < script.n =>
                /\ LenAt(lo) = script.end[done + 1] - lo - Header
                /\ LenAt(lo) \in Nat
<1> USE SizeAssumption
<1>1. /\ script.n \in Nat
      /\ \A i \in 0..script.n : script.end[i] \in Nat
      /\ \A i, j \in 0..script.n : i < j => script.end[j] >= script.end[i] + Header
  BY ScriptFacts
<1>2. \A i \in 0..script.n : script.end[i] = lo => i = done
  <2>1. ASSUME NEW i \in 0..script.n, script.end[i] = lo, i # done PROVE FALSE
    <3>1. CASE i < done
      BY <1>1, <2>1, <3>1
    <3>2. CASE done < i
      BY <1>1, <2>1, <3>2
    <3>. QED
      BY <1>1, <2>1, <3>1, <3>2
  <2>. QED
    BY <2>1
<1>3. CASE done = script.n
  <2>1. ~ \E i \in 1..script.n : script.end[i - 1] = lo
    BY <1>1, <1>2, <1>3
  <2>. QED
    BY <1>1, <1>3, <2>1 DEF LenAt
<1>4. CASE done < script.n
  <2>1. done + 1 \in 1..script.n /\ script.end[(done + 1) - 1] = lo
    BY <1>1, <1>4
  <2>2. \A j \in 1..script.n : script.end[j - 1] = lo => j = done + 1
    BY <1>1, <1>2
  <2>3. (CHOOSE j \in 1..script.n : script.end[j - 1] = lo) = done + 1
    BY <2>1, <2>2
  <2>4. LenAt(lo) = script.end[done + 1] - lo - Header
    BY <2>1, <2>3 DEF LenAt
  <2>5. script.end[done + 1] >= lo + Header /\ script.end[done + 1] \in Nat /\ lo \in Nat
    BY <1>1, <1>4
  <2>6. LenAt(lo) \in Nat
    BY <2>4, <2>5
  <2>. QED
    BY <1>4, <2>4, <2>6
<1>. QED
  BY <1>1, <1>3, <1>4

-----------------------------------------------------------------------------

LEMMA InitInv == Init => Inv
<1> SUFFICES ASSUME Init PROVE Inv
  OBVIOUS
<1> USE SizeAssumption DEF Init
<1>1. /\ script.n \in Nat /\ script.end[0] = 0
      /\ \A i \in 0..script.n : script.end[i] \in Nat
  BY ScriptFacts
<1>2. TypeOK
  <2>1. hangup \in BOOLEAN
    BY Zenon
  <2>2. done \in 0..script.n /\ wsize \in 0..RbufCap
    BY <1>1 DEF RbufCap
  <2>3. written \in [1..script.n -> Nat]
    OBVIOUS
  <2>. QED
    BY <2>1, <2>2, <2>3 DEF TypeOK
<1>4. Aligned /\ Control
  BY <1>1 DEF Aligned, Control
<1>3. Room /\ Framing
  BY <1>1 DEF Room, Framing, RbufCap
<1>. QED
  BY <1>2, <1>3, <1>4 DEF Inv

\* The actions of the client.
LEMMA ClientInv == ASSUME Inv, ClientSend \/ ClientRead \/ ClientClose PROVE Inv'
<1> USE SizeAssumption
<1>1. /\ script.n \in Nat
      /\ \A i \in 0..script.n : script.end[i] \in Nat
  BY ScriptFacts DEF Inv, TypeOK
<1>2. UNCHANGED <<script, rbuf, state, wbuf, done, written, pc>>
  BY DEF ClientSend, ClientRead, ClientClose, client
<1>3. csent' \in Nat /\ csent <= csent' /\ csent' <= script.end[script.n]
  BY <1>1 DEF ClientSend, ClientRead, ClientClose, Inv, TypeOK, Room, client
<1>4. unread' \in Nat
  BY DEF ClientSend, ClientRead, ClientClose, Inv, TypeOK, client
<1>a. hangup' \in BOOLEAN
  BY Zenon DEF ClientSend, ClientRead, ClientClose, Inv, TypeOK, client
<1>5. TypeOK'
  BY <1>2, <1>3, <1>4, <1>a DEF Inv, TypeOK, rbuf, wbuf
<1>6. Room'
  BY <1>2, <1>3 DEF Inv, TypeOK, Room, rbuf
<1>7. Aligned' /\ Control' /\ Framing'
  BY <1>2 DEF Inv, Aligned, Control, Framing, RespSize, OutSize, rbuf, wbuf
<1>. QED
  BY <1>5, <1>6, <1>7 DEF Inv

\* Steps that move the program counter, and perhaps end the connection.
LEMMA ControlInv ==
  ASSUME Inv, UNCHANGED <<client, unread, rbuf, wbuf, done, written>>,
         Control', Room', pc' \in {"poll", "fill", "parse", "flush", "flush_req", "closed"},
         state' \in {"REQ", "RES", "END"}
  PROVE  Inv'
<1>1. TypeOK' /\ Aligned'
  BY DEF Inv, TypeOK, Aligned, client, rbuf, wbuf
<1>2. Framing'
  BY DEF Inv, Framing, RespSize, OutSize, client, wbuf
<1>. QED
  BY <1>1, <1>2 DEF Inv

LEMMA WakeInv == ASSUME Inv, Wake PROVE Inv'
<1>1. Control' /\ Room'
  BY DEF Wake, Inv, Control, Room, RespSize, OutSize, client, rbuf, wbuf
<1>. QED
  BY <1>1, ControlInv DEF Wake, Inv, TypeOK

LEMMA FillInv == ASSUME Inv, Fill PROVE Inv'
<1> USE SizeAssumption DEF Fill
<1>1. /\ hi' \in Nat /\ hi < hi' /\ hi' - lo <= RbufCap /\ hi' <= csent
  BY DEF Inv, TypeOK, Room, RbufCap
<1>2. TypeOK' /\ Aligned'
  BY <1>1 DEF Inv, TypeOK, Aligned, client, wbuf
<1>3. Control' /\ Framing'
  BY DEF Inv, Control, Framing, RespSize, OutSize, client, wbuf
<1>4. Room'
  BY <1>1 DEF Inv, TypeOK, Room, client, wbuf
<1>. QED
  BY <1>2, <1>3, <1>4 DEF Inv

\* EAGAIN, end of file and errors.
LEMMA StopInv == ASSUME Inv, FillAgain \/ FillEnd \/ FlushAgain \/ FlushEnd PROVE Inv'
<1>1. Control' /\ Room'
  BY DEF FillAgain, FillEnd, FlushAgain, FlushEnd, Blocked, End, Inv, Control, Room,
     RespSize, OutSize, client, rbuf, wbuf
<1>. QED
  BY <1>1, ControlInv DEF FillAgain, FillEnd, FlushAgain, FlushEnd, Blocked, End, Inv, TypeOK

LEMMA ParseMoreInv == ASSUME Inv, ParseMore PROVE Inv'
<1> USE SizeAssumption DEF ParseMore
<1>1. LenAt(lo) \in Nat
  <2>1. script \in Scripts /\ done \in 0..script.n /\ lo = script.end[done]
    BY DEF Inv, TypeOK, Aligned
  <2>2. script.n \in Nat
    BY <2>1, ScriptFacts
  <2>3. done = script.n \/ done < script.n
    BY <2>1, <2>2
  <2>4. KMaxMsg + 1 \in Nat
    OBVIOUS
  <2>. QED
    BY <2>1, <2>3, <2>4, NextLength
<1>2. hi - lo < RbufCap
  BY <1>1 DEF Inv, TypeOK, RbufCap
<1>3. Control' /\ Room'
  BY <1>2 DEF Inv, Control, Room, RespSize, OutSize, client, rbuf, wbuf
<1>. QED
  BY <1>3, ControlInv DEF Inv, TypeOK

LEMMA ParseEndInv == ASSUME Inv, ParseEnd PROVE Inv'
<1>1. Control' /\ Room'
  BY DEF ParseEnd, End, Inv, Control, Room, RespSize, OutSize, client, rbuf, wbuf
<1>. QED
  BY <1>1, ControlInv DEF ParseEnd, End, Inv, TypeOK

\* A request is executed: rbuf moves on by its whole length.
LEMMA ExecuteInv == ASSUME Inv, Execute PROVE Inv'
<1> USE SizeAssumption DEF Execute, Consume
<1>0. script \in Scripts /\ done \in 0..script.n /\ lo = script.end[done]
      /\ lo \in Nat /\ hi \in Nat
  BY DEF Inv, TypeOK, Aligned
<1>1. /\ script.n \in Nat
      /\ \A i \in 0..script.n : script.end[i] \in Nat
  BY <1>0, ScriptFacts
<1>2. done < script.n
  BY <1>0, <1>1, NextLength
<1>3. /\ LenAt(lo) = script.end[done + 1] - lo - Header /\ LenAt(lo) \in Nat
  BY <1>0, <1>2, NextLength
<1>4. done' \in 1..script.n /\ done' = done + 1 /\ script' = script
  BY <1>0, <1>1, <1>2 DEF client
<1>5. lo' = script.end[done'] /\ lo' \in Nat /\ lo + Header <= lo' /\ lo' <= hi /\ hi' = hi
  BY <1>0, <1>1, <1>3, <1>4 DEF Complete
<1>6. RespSize(done') \in Nat /\ 0 < RespSize(done') /\ RespSize(done') <= RbufCap
  BY <1>0, <1>4, RespFits
<1>7. wsize = 0 /\ wsent = 0
  BY DEF Inv, Control
<1>8. TypeOK'
  BY <1>4, <1>5, <1>6 DEF Inv, TypeOK, client, RbufCap
<1>9. Aligned' /\ Control'
  BY <1>4, <1>5, <1>6, <1>7 DEF Aligned, Control, RespSize, OutSize
<1>10. Room'
  BY <1>0, <1>4, <1>5 DEF Inv, Room, client, RbufCap
<1>11. Framing'
  <2>1. ASSUME NEW i \in 1..script.n
        PROVE  written[i] = IF i > done' THEN 0
                            ELSE IF i = done' /\ wsize' > 0 THEN wsent' ELSE RespSize(i)
    <3>1. written[i] = IF i > done THEN 0 ELSE RespSize(i)
      BY <1>7 DEF Inv, Framing
    <3>. QED
      BY <1>0, <1>1, <1>4, <1>6, <1>7, <3>1
  <2>. QED
    BY <1>4, <2>1 DEF Framing, RespSize, OutSize
<1>. QED
  BY <1>8, <1>9, <1>10, <1>11 DEF Inv

\* write() accepts n bytes of the response to the last request executed.
LEMMA FlushInv == ASSUME Inv, Flush PROVE Inv'
<1> USE SizeAssumption
<1>0. /\ script \in Scripts /\ done \in 0..script.n /\ unread \in Nat
      /\ wsize \in Nat /\ wsent \in Nat /\ written \in [1..script.n -> Nat]
  BY DEF Inv, TypeOK, RbufCap
<1>1. /\ state = "RES" /\ wsize > 0 /\ done > 0
      /\ wsize = RespSize(done) /\ wsent < wsize
  BY DEF Flush, Inv, Control
<1>2. PICK n \in 1..wsize - wsent :
         /\ unread' = unread + n
         /\ written' = [written EXCEPT ![done] = @ + n]
         /\ \/ /\ wsent + n < wsize
               /\ wsent' = wsent + n
               /\ UNCHANGED <<wsize, state, pc>>
            \/ /\ wsent + n = wsize
               /\ wsent' = 0 /\ wsize' = 0
               /\ state' = "REQ"
               /\ pc' = IF pc = "flush" THEN "poll" ELSE "parse"
  BY DEF Flush, Sent
<1>3. UNCHANGED <<client, rbuf, done>> /\ pc \in {"flush", "flush_req"}
  BY DEF Flush
<1>4. script.n \in Nat /\ done \in 1..script.n
  BY <1>0, <1>1, ScriptFacts
<1>5. TypeOK'
  <2>1. unread' \in Nat /\ wsent' \in Nat /\ wsize' \in 0..RbufCap
    BY <1>0, <1>2 DEF Inv, TypeOK, RbufCap
  <2>2. written' \in [1..script.n -> Nat]
    BY <1>0, <1>2, <1>4
  <2>3. state' \in {"REQ", "RES", "END"}
        /\ pc' \in {"poll", "fill", "parse", "flush", "flush_req", "closed"}
    BY <1>1, <1>2, <1>3
  <2>. QED
    BY <1>3, <2>1, <2>2, <2>3 DEF Inv, TypeOK, client, rbuf
<1>6. Aligned' /\ Room'
  BY <1>2, <1>3 DEF Inv, Aligned, Room, client, rbuf
<1>7. RespSize(done)' = RespSize(done)
  BY <1>3 DEF RespSize, OutSize, client
<1>8. Control'
  <2>1. CASE wsent + n < wsize /\ wsent' = wsent + n /\ UNCHANGED <<wsize, state, pc>>
    BY <1>0, <1>1, <1>3, <1>7, <2>1 DEF Inv, Control
  <2>2. CASE wsent' = 0 /\ wsize' = 0 /\ state' = "REQ"
             /\ pc' = IF pc = "flush" THEN "poll" ELSE "parse"
    BY <1>3, <2>2 DEF Control
  <2>. QED
    BY <1>2, <2>1, <2>2
<1>9. written[done] = wsent
  BY <1>1, <1>4 DEF Inv, Framing
<1>10. written'[done] = wsent + n /\ \A i \in 1..script.n : i # done => written'[i] = written[i]
  BY <1>0, <1>2, <1>4, <1>9
<1>11. \A i \in 1..script.n : RespSize(i)' = RespSize(i)
  BY <1>3 DEF RespSize, OutSize, client
<1>12. ASSUME NEW i \in 1..script.n
       PROVE  written'[i] = IF i > done THEN 0
                            ELSE IF i = done /\ wsize' > 0 THEN wsent' ELSE RespSize(i)
  <2>1. CASE i = done
    BY <1>0, <1>1, <1>2, <1>4, <1>10, <2>1
  <2>2. CASE i # done
    <3>1. written[i] = IF i > done THEN 0 ELSE RespSize(i)
      BY <2>2 DEF Inv, Framing
    <3>. QED
      BY <1>10, <2>2, <3>1
  <2>. QED
    BY <2>1, <2>2
<1>13. Framing'
  BY <1>3, <1>11, <1>12 DEF Framing, client
<1>. QED
  BY <1>5, <1>6, <1>8, <1>13 DEF Inv

LEMMA NextInv == Inv /\ [Next]_vars => Inv'
<1> SUFFICES ASSUME Inv, [Next]_vars PROVE Inv'
  OBVIOUS
<1>1. CASE UNCHANGED vars
  <2>1. Control' /\ Room'
    BY <1>1 DEF vars, Inv, Control, Room, RespSize, OutSize, client, rbuf, wbuf
  <2>. QED
    BY <1>1, <2>1, ControlInv DEF vars, Inv, TypeOK
<1>. QED
  BY <1>1, ClientInv, WakeInv, FillInv, StopInv, ParseMoreInv, ParseEndInv, ExecuteInv,
     FlushInv DEF Next, Server

LEMMA InvHolds == Spec => []Inv
  BY InitInv, NextInv, PTL DEF Spec

-----------------------------------------------------------------------------
(* The theorems *)

\* Types of the connection, and a wbuf that no response overflows.
THEOREM TypesHold == Spec => []TypeOK
  BY InvHolds, PTL DEF Inv

\* The assertions of try_fill_buffer and try_flush_buffer never fail.
THEOREM Assertions == Spec => []AssertsHold
<1>1. Inv => AssertsHold
  BY SizeAssumption DEF Inv, TypeOK, Control, Room, AssertsHold, RbufCap
<1>. QED
  BY <1>1, InvHolds, PTL

\* However the stream of requests is cut into reads, parsing restarts at the
\* first byte of a request.
THEOREM Alignment == Spec => []Aligned
  BY InvHolds, PTL DEF Inv

\* However the responses are cut into writes, each goes out once, whole, and
\* in the order of the requests.
THEOREM ResponseFraming == Spec => []Framing
  BY InvHolds, PTL DEF Inv
=============================================================================
