--------------------------- MODULE ServersProofs ---------------------------
(***************************************************************************)
(* What is proved of the servers of stages 04, 06 and 07 with their        *)
(* clients, and of the thread pool that the server of stage 14 hands its   *)
(* large objects to.                                                       *)
(***************************************************************************)
EXTENDS BlockingServer, PollServer, ThreadPool,
        FiniteSetTheorems, SequenceTheorems, TLAPS

-----------------------------------------------------------------------------
(* The blocking server and its client stay at the boundaries of messages,  *)
(* and the server never closes the connection of a client that wants more, *)
(* for any number of processes, any length of messages and of queries, and *)
(* any room in the kernel.  The invariant follows the bytes of a           *)
(* connection: what is in flight and what has been read make up what was   *)
(* written, and one side at most has anything in flight.                   *)

\* Nothing of a request is under way.
Idle(c) == /\ cpc[c] \in {"start", "query"}
           /\ up[c] = 0 /\ down[c] = 0 /\ rpos[c] = 0 /\ cpos[c] = 0
           /\ c = cur => spc = "head" /\ sleft = Header

\* c has written its request, or part of it, and the server not read it all.
Asking(c) ==
  /\ \/ /\ cpc[c] = "write" /\ cleft[c] \in 1..Request(c)
        /\ up[c] + rpos[c] = Request(c) - cleft[c]
     \/ /\ cpc[c] = "head" /\ cleft[c] = Header
        /\ up[c] + rpos[c] = Request(c)
  /\ down[c] = 0 /\ cpos[c] = 0
  /\ c # cur => rpos[c] = 0
  /\ c = cur => \/ spc = "head" /\ sleft \in 1..Header /\ rpos[c] = Header - sleft
                \/ spc = "body" /\ sleft \in 1..len[c] /\ rpos[c] = Request(c) - sleft

\* The server has written its reply, or part of it, and c not read it all.
Answering(c) ==
  /\ c = cur /\ up[c] = 0 /\ rpos[c] = 0
  /\ \/ cpc[c] = "head" /\ cleft[c] \in 1..Header /\ cpos[c] = Header - cleft[c]
     \/ cpc[c] = "body" /\ cleft[c] \in 1..ReplyLen /\ cpos[c] = Answer - cleft[c]
  /\ \/ spc = "reply" /\ sleft \in 1..Answer /\ down[c] + cpos[c] = Answer - sleft
     \/ spc = "head" /\ sleft = Header /\ down[c] + cpos[c] = Answer

Exchange == \A c \in Procs : cpc[c] # "done" /\ ~closed[c] =>
                               Idle(c) \/ Asking(c) \/ Answering(c)

\* The server has one connection, and each open one is served or waits once.
Connected ==
  /\ cur = NoClient <=> spc = "accept"
  /\ cur # NoClient => ~closed[cur]
  /\ \A i \in DOMAIN backlog : backlog[i] # cur /\ ~closed[backlog[i]]
  /\ \A i, j \in DOMAIN backlog : backlog[i] = backlog[j] => i = j
  /\ \A c \in Procs : cpc[c] = "start" =>
       c # cur /\ ~closed[c] /\ \A i \in DOMAIN backlog : backlog[i] # c

\* query has refused what is too long.
Checked == \A c \in Clients : cpc[c] \in {"write", "head", "body"} => len[c] <= KMaxMsg04

BInv == BTypeOK /\ Connected /\ Exchange /\ Checked /\ NotCut
-----------------------------------------------------------------------------

LEMMA Sizes ==
  ASSUME BTypeOK, NEW c \in Procs
  PROVE  /\ len[c] \in Nat /\ Header \in Nat /\ Header >= 1 /\ ReplyLen \in Nat /\ ReplyLen >= 1
         /\ KMaxMsg04 \in Nat /\ ReplyLen <= KMaxMsg04
         /\ Request(c) = Header + len[c] /\ Answer = Header + ReplyLen
         /\ Request(c) \in Nat /\ Answer \in Nat
<1>1. len[c] \in Nat
  BY BSizeAssumption DEF BTypeOK
<1>. QED BY <1>1, BSizeAssumption DEF Request, Answer

LEMMA Bytes ==
  ASSUME BTypeOK, NEW c \in Procs
  PROVE  /\ cleft[c] \in Nat /\ cpos[c] \in Nat /\ asked[c] \in Nat
         /\ up[c] \in Nat /\ down[c] \in Nat /\ rpos[c] \in Nat /\ sleft \in Nat
BY DEF BTypeOK

LEMMA Counts ==
  ASSUME NEW f \in [Procs -> Nat], NEW c \in Procs, NEW n \in Nat
  PROVE  [f EXCEPT ![c] = n] \in [Procs -> Nat]
OBVIOUS

LEMMA BInitInv == BInit => BInv
<1>. SUFFICES ASSUME BInit PROVE BInv
  OBVIOUS
<1>. USE DEF BInit
<1>1. BTypeOK
  BY BSizeAssumption DEF BTypeOK
<1>2. Connected /\ Exchange /\ Checked /\ NotCut
  BY BProcAssumption DEF Connected, Exchange, Idle, Checked, NotCut, Procs
<1>. QED BY <1>1, <1>2 DEF BInv

-----------------------------------------------------------------------------
(* the client *)

LEMMA ConnectInv ==
  ASSUME BInv, NEW c \in Procs, Connect(c)
  PROVE  BInv'
<1>. USE DEF BInv, Connect, clientVars, serverVars
<1>1. BTypeOK'
  <2>1. backlog \in Seq(Procs)
    BY DEF BTypeOK
  <2>2. backlog' \in Seq(Procs)
    BY <2>1
  <2>. QED BY <2>2 DEF BTypeOK
<1>2. Connected'
  <2>1. /\ backlog \in Seq(Procs) /\ Len(backlog) \in Nat
        /\ DOMAIN backlog = 1..Len(backlog) /\ DOMAIN backlog' = 1..(Len(backlog) + 1)
        /\ \A i \in 1..Len(backlog) : backlog'[i] = backlog[i]
        /\ backlog'[Len(backlog) + 1] = c
    BY DEF BTypeOK
  <2>2. c # cur /\ ~closed[c] /\ \A i \in DOMAIN backlog : backlog[i] # c
    BY DEF Connected
  <2>3. \A d \in Procs : cpc'[d] = "start" => cpc[d] = "start" /\ d # c
    BY DEF BTypeOK
  <2>. QED BY <2>1, <2>2, <2>3 DEF Connected
<1>3. Exchange'
  <2>1. \A d \in Procs : cpc'[d] = IF d = c THEN "query" ELSE cpc[d]
    BY DEF BTypeOK
  <2>2. \A d \in Procs : Request(d)' = Request(d)
    BY DEF Request
  <2>. SUFFICES ASSUME NEW d \in Procs, cpc'[d] # "done", ~closed'[d]
                PROVE  (Idle(d) \/ Asking(d) \/ Answering(d))'
    BY DEF Exchange
  <2>3. Idle(d) \/ Asking(d) \/ Answering(d)
    BY <2>1 DEF Exchange
  <2>4. CASE d = c
    BY <2>1, <2>3, <2>4 DEF Idle, Asking, Answering
  <2>5. CASE d # c
    BY <2>1, <2>2, <2>3, <2>5 DEF Idle, Asking, Answering, Answer
  <2>. QED BY <2>4, <2>5
<1>4. Checked' /\ NotCut'
  <2>1. \A d \in Procs : cpc'[d] = IF d = c THEN "query" ELSE cpc[d]
    BY DEF BTypeOK
  <2>2. ~closed[c]
    BY DEF Connected
  <2>. QED BY <2>1, <2>2 DEF Checked, NotCut, Procs
<1>. QED BY <1>1, <1>2, <1>3, <1>4

\* A step of client c that leaves the connections alone.
LEMMA ClientFrame ==
  ASSUME BInv, NEW c \in Procs, cpc[c] \notin {"start", "done"},
         BTypeOK', UNCHANGED <<len, rpos, backlog, spc, cur, sleft, closed>>,
         \E p \in {"query", "write", "head", "body", "done"} : cpc' = [cpc EXCEPT ![c] = p],
         \A d \in Procs \ {c} : /\ up'[d] = up[d] /\ down'[d] = down[d]
                                /\ cleft'[d] = cleft[d] /\ cpos'[d] = cpos[d],
         ~closed[c] /\ cpc'[c] # "done" => (Idle(c) \/ Asking(c) \/ Answering(c))',
         c \in Clients /\ cpc'[c] \in {"write", "head", "body"} => len[c] <= KMaxMsg04,
         c \in Clients /\ closed[c] => cpc'[c] = "done"
  PROVE  BInv'
<1>. USE DEF BInv
<1>1. /\ cpc'[c] # "start"
      /\ \A d \in Procs \ {c} : cpc'[d] = cpc[d]
  BY DEF BTypeOK
<1>2. Connected'
  BY <1>1 DEF Connected
<1>3. Exchange'
  <2>. SUFFICES ASSUME NEW d \in Procs, cpc'[d] # "done", ~closed'[d], d # c
                PROVE  (Idle(d) \/ Asking(d) \/ Answering(d))'
    BY DEF Exchange
  <2>1. Idle(d) \/ Asking(d) \/ Answering(d)
    BY <1>1 DEF Exchange
  <2>2. Request(d)' = Request(d) /\ Answer' = Answer
    BY DEF Request, Answer
  <2>. QED BY <1>1, <2>1, <2>2 DEF Idle, Asking, Answering
<1>4. Checked' /\ NotCut'
  BY <1>1 DEF Checked, NotCut, Procs
<1>. QED BY <1>2, <1>3, <1>4

LEMMA QueryInv ==
  ASSUME BInv, NEW c \in Procs, Query(c)
  PROVE  BInv'
<1>. USE DEF BInv, Query, serverVars
<1>1. BTypeOK'
  <2>1. Request(c) \in Nat
    BY Sizes
  <2>2. asked' \in [Procs -> Nat] /\ cleft' \in [Procs -> Nat]
    <3>1. asked \in [Procs -> Nat] /\ cleft \in [Procs -> Nat] /\ asked[c] + 1 \in Nat
      BY Bytes DEF BTypeOK
    <3>2. asked' = [asked EXCEPT ![c] = asked[c] + 1] /\ cleft' = [cleft EXCEPT ![c] = Request(c)]
      OBVIOUS
    <3>. QED BY ONLY <2>1, <3>1, <3>2, c \in Procs, Counts
  <2>3. cpc' \in [Procs -> {"start", "query", "write", "head", "body", "done"}]
    BY DEF BTypeOK
  <2>. QED BY <2>2, <2>3 DEF BTypeOK
<1>2. /\ cpc'[c] = "write" /\ cleft'[c] = Request(c)
      /\ \A d \in Procs \ {c} : cleft'[d] = cleft[d]
  BY DEF BTypeOK
<1>3. ~closed[c] => Asking(c)'
  <2>. SUFFICES ASSUME ~closed[c] PROVE Asking(c)'
    OBVIOUS
  <2>1. Idle(c)
    BY DEF Exchange, Idle, Asking, Answering
  <2>2. Request(c)' = Request(c)
    BY DEF Request
  <2>. QED BY <1>2, <2>1, <2>2, Sizes, Bytes DEF Idle, Asking
<1>4. c \in Clients => len[c] <= KMaxMsg04 /\ ~closed[c]
  BY BProcAssumption DEF NotCut
<1>. QED BY <1>1, <1>2, <1>3, <1>4, ClientFrame

LEMMA CloseInv ==
  ASSUME BInv, NEW c \in Procs, Close(c)
  PROVE  BInv'
<1>. USE DEF BInv, Close, serverVars
<1>1. BTypeOK'
  BY DEF BTypeOK
<1>2. cpc'[c] = "done" /\ cpc[c] \notin {"start", "done"}
  BY DEF BTypeOK
<1>. QED BY <1>1, <1>2, ClientFrame

LEMMA CWriteInv ==
  ASSUME BInv, NEW c \in Procs, CWrite(c)
  PROVE  BInv'
<1>. USE DEF BInv, CWrite, serverVars
<1>. PICK n \in 1..cleft[c] :
       /\ up[c] + n <= Room
       /\ up' = [up EXCEPT ![c] = @ + n]
       /\ \/ /\ n = cleft[c]
             /\ cpc' = [cpc EXCEPT ![c] = "head"]
             /\ cleft' = [cleft EXCEPT ![c] = Header]
          \/ /\ n < cleft[c]
             /\ cleft' = [cleft EXCEPT ![c] = @ - n]
             /\ UNCHANGED cpc
  OBVIOUS
<1>1. cleft[c] \in Nat /\ n \in Nat /\ n >= 1 /\ n <= cleft[c] /\ up[c] \in Nat
  BY Bytes
<1>2. BTypeOK'
  <2>1. cleft[c] - n \in Nat /\ up[c] + n \in Nat /\ Header \in Nat
    BY <1>1, BSizeAssumption
  <2>2. cleft' \in [Procs -> Nat] /\ up' \in [Procs -> Nat]
    <3>1. cleft \in [Procs -> Nat] /\ up \in [Procs -> Nat]
      BY DEF BTypeOK
    <3>2. /\ up' = [up EXCEPT ![c] = up[c] + n]
          /\ \E l \in Nat : cleft' = [cleft EXCEPT ![c] = l]
      BY <2>1
    <3>. QED BY ONLY <2>1, <3>1, <3>2, c \in Procs, Counts
  <2>3. cpc' \in [Procs -> {"start", "query", "write", "head", "body", "done"}]
    BY DEF BTypeOK
  <2>. QED BY <2>2, <2>3 DEF BTypeOK
<1>3. /\ up'[c] = up[c] + n
      /\ \A d \in Procs \ {c} : cleft'[d] = cleft[d] /\ up'[d] = up[d]
      /\ \/ cpc'[c] = "head" /\ n = cleft[c] /\ cleft'[c] = Header
         \/ cpc'[c] = "write" /\ n < cleft[c] /\ cleft'[c] = cleft[c] - n
  BY DEF BTypeOK
<1>4. ~closed[c] => Asking(c)'
  <2>. SUFFICES ASSUME ~closed[c] PROVE Asking(c)'
    OBVIOUS
  <2>1. Asking(c)
    BY DEF Exchange, Idle, Asking, Answering
  <2>2. Request(c)' = Request(c)
    BY DEF Request
  <2>. QED BY <1>1, <1>3, <2>1, <2>2, Sizes, Bytes DEF Asking
<1>5. c \in Clients => len[c] <= KMaxMsg04 /\ ~closed[c]
  BY DEF Checked, NotCut
<1>6. \E p \in {"query", "write", "head", "body", "done"} : cpc' = [cpc EXCEPT ![c] = p]
  BY DEF BTypeOK
<1>. QED BY <1>2, <1>3, <1>4, <1>5, <1>6, ClientFrame

LEMMA CReadInv ==
  ASSUME BInv, NEW c \in Procs, CRead(c)
  PROVE  BInv'
<1>. USE DEF BInv, CRead, serverVars
<1>. PICK n \in 1..cleft[c] :
       /\ n <= down[c]
       /\ down' = [down EXCEPT ![c] = @ - n]
       /\ cpos' = [cpos EXCEPT ![c] = Advance(@, n, Answer)]
       /\ \/ /\ n < cleft[c]
             /\ cleft' = [cleft EXCEPT ![c] = @ - n]
             /\ UNCHANGED cpc
          \/ /\ n = cleft[c] /\ cpc[c] = "head"
             /\ \E l \in Prefix(cpos'[c], Answer, ReplyLen) :
                  /\ cpc' = [cpc EXCEPT ![c] = IF l > KMaxMsg04 THEN "done"
                                              ELSE IF l = 0 THEN "query" ELSE "body"]
                  /\ cleft' = [cleft EXCEPT ![c] = l]
          \/ /\ n = cleft[c] /\ cpc[c] = "body"
             /\ cpc' = [cpc EXCEPT ![c] = "query"]
             /\ cleft' = [cleft EXCEPT ![c] = 0]
  OBVIOUS
<1>1. /\ cleft[c] \in Nat /\ n \in Nat /\ n >= 1 /\ n <= cleft[c]
      /\ down[c] \in Nat /\ cpos[c] \in Nat
  BY Bytes
<1>2. /\ down'[c] = down[c] - n /\ cpos'[c] = Advance(cpos[c], n, Answer)
      /\ \A d \in Procs \ {c} : cleft'[d] = cleft[d] /\ down'[d] = down[d] /\ cpos'[d] = cpos[d]
  BY DEF BTypeOK
<1>3. BTypeOK'
  <2>1. cleft[c] - n \in Nat /\ down[c] - n \in Nat /\ Advance(cpos[c], n, Answer) \in Nat
    BY <1>1, Sizes DEF Advance
  <2>2. Prefix(cpos'[c], Answer, ReplyLen) \subseteq Nat
    BY Sizes DEF Prefix
  <2>3. \E l \in Nat : cleft' = [cleft EXCEPT ![c] = l]
    BY <2>1, <2>2
  <2>4. cleft' \in [Procs -> Nat] /\ down' \in [Procs -> Nat] /\ cpos' \in [Procs -> Nat]
    <3>1. cleft \in [Procs -> Nat] /\ down \in [Procs -> Nat] /\ cpos \in [Procs -> Nat]
      BY DEF BTypeOK
    <3>2. /\ down' = [down EXCEPT ![c] = down[c] - n]
          /\ cpos' = [cpos EXCEPT ![c] = Advance(cpos[c], n, Answer)]
      OBVIOUS
    <3>. QED BY ONLY <2>1, <2>3, <3>1, <3>2, c \in Procs, Counts
  <2>5. cpc' \in [Procs -> {"start", "query", "write", "head", "body", "done"}]
    BY DEF BTypeOK
  <2>6. BTypeOK /\ UNCHANGED <<len, asked, up, rpos, backlog, spc, cur, sleft, closed>>
    OBVIOUS
  <2>. QED BY ONLY <2>4, <2>5, <2>6 DEF BTypeOK
<1>4. \E p \in {"query", "write", "head", "body", "done"} : cpc' = [cpc EXCEPT ![c] = p]
  <2>1. CASE UNCHANGED cpc
    <3>1. cpc' = [cpc EXCEPT ![c] = cpc[c]]
      BY <2>1 DEF BTypeOK
    <3>. QED BY <3>1
  <2>2. CASE n = cleft[c] /\ cpc[c] = "head"
    <3>. PICK l \in Prefix(cpos'[c], Answer, ReplyLen) :
           cpc' = [cpc EXCEPT ![c] = IF l > KMaxMsg04 THEN "done"
                                     ELSE IF l = 0 THEN "query" ELSE "body"]
      BY <2>2
    <3>. QED BY DEF Prefix
  <2>3. CASE cpc' = [cpc EXCEPT ![c] = "query"]
    BY <2>3
  <2>. QED BY <2>1, <2>2, <2>3
<1>5. ASSUME ~closed[c], cpc'[c] # "done"
      PROVE  (Idle(c) \/ Asking(c) \/ Answering(c))'
  <2>1. Answering(c)
    BY <1>1, <1>5 DEF Exchange, Idle, Asking, Answering
  <2>2. Answer' = Answer
    BY DEF Answer
  <2>3. CASE n < cleft[c]
    <3>1. cpc'[c] = cpc[c] /\ cleft'[c] = cleft[c] - n
      BY <2>3 DEF BTypeOK
    <3>2. cpos'[c] = cpos[c] + n
      BY <1>1, <1>2, <2>1, <2>3, Sizes DEF Answering, Advance
    <3>. QED BY <1>1, <1>2, <2>1, <2>2, <2>3, <3>1, <3>2, Sizes, Bytes DEF Answering
  <2>4. CASE n = cleft[c] /\ cpc[c] = "head"
    <3>1. cpos'[c] = Header /\ Prefix(cpos'[c], Answer, ReplyLen) = {ReplyLen}
      BY <1>1, <1>2, <2>1, <2>4, Sizes DEF Answering, Advance, Prefix
    <3>2. cpc' = [cpc EXCEPT ![c] = "body"] /\ cleft' = [cleft EXCEPT ![c] = ReplyLen]
      BY <2>4, <3>1, Sizes
    <3>3. cpc'[c] = "body" /\ cleft'[c] = ReplyLen
      BY <3>2 DEF BTypeOK
    <3>. QED BY <1>1, <1>2, <2>1, <2>2, <2>4, <3>1, <3>3, Sizes, Bytes DEF Answering
  <2>5. CASE n = cleft[c] /\ cpc[c] = "body"
    <3>1. cpos'[c] = 0
      BY <1>1, <1>2, <2>1, <2>5, Sizes DEF Answering, Advance
    <3>2. cpc'[c] = "query"
      BY <2>5 DEF BTypeOK
    <3>3. spc = "head" /\ sleft = Header /\ down'[c] = 0
      BY <1>1, <1>2, <2>1, <2>5, Sizes, Bytes DEF Answering
    <3>. QED BY <2>1, <3>1, <3>2, <3>3 DEF Answering, Idle
  <2>. QED BY <2>3, <2>4, <2>5
<1>6. c \in Clients => len[c] <= KMaxMsg04 /\ ~closed[c]
  BY DEF Checked, NotCut
<1>. QED BY <1>2, <1>3, <1>4, <1>5, <1>6, ClientFrame
-----------------------------------------------------------------------------
(* the server *)

\* A step of the server for its connection that closes nothing.
LEMMA ServerFrame ==
  ASSUME BInv, cur # NoClient, BTypeOK',
         UNCHANGED <<len, cpc, asked, cleft, cpos, backlog, cur, closed>>, spc' # "accept",
         \A d \in Procs \ {cur} : up'[d] = up[d] /\ down'[d] = down[d] /\ rpos'[d] = rpos[d],
         cpc[cur] # "done" => (Idle(cur) \/ Asking(cur) \/ Answering(cur))'
  PROVE  BInv'
<1>. USE DEF BInv
<1>1. Connected'
  BY DEF Connected
<1>2. Exchange'
  <2>. SUFFICES ASSUME NEW d \in Procs, cpc'[d] # "done", ~closed'[d], d # cur
                PROVE  (Idle(d) \/ Asking(d) \/ Answering(d))'
    BY DEF Exchange
  <2>1. Idle(d) \/ Asking(d) \/ Answering(d)
    BY DEF Exchange
  <2>2. Request(d)' = Request(d) /\ Answer' = Answer
    BY DEF Request, Answer
  <2>. QED BY <2>1, <2>2 DEF Idle, Asking, Answering
<1>3. Checked' /\ NotCut'
  BY DEF Checked, NotCut
<1>. QED BY <1>1, <1>2, <1>3

LEMMA CurProc == ASSUME BInv, spc # "accept" PROVE cur \in Procs /\ cur # NoClient /\ ~closed[cur]
BY DEF BInv, Connected, BTypeOK

LEMMA AcceptInv ==
  ASSUME BInv, Accept
  PROVE  BInv'
<1>. USE DEF BInv, Accept, clientVars
<1>1. /\ backlog \in Seq(Procs) /\ backlog # <<>> /\ cur = NoClient
      /\ Len(backlog) \in Nat /\ Len(backlog) >= 1 /\ DOMAIN backlog = 1..Len(backlog)
      /\ DOMAIN backlog' = 1..(Len(backlog) - 1) /\ backlog' \in Seq(Procs)
      /\ \A i \in 1..(Len(backlog) - 1) : backlog'[i] = backlog[i + 1]
      /\ cur' = backlog[1] /\ backlog[1] \in Procs
  BY DEF BTypeOK, Connected
<1>2. BTypeOK'
  BY <1>1, BSizeAssumption DEF BTypeOK
<1>3. Connected'
  BY <1>1, BProcAssumption DEF Connected
<1>4. Exchange'
  <2>. SUFFICES ASSUME NEW d \in Procs, cpc'[d] # "done", ~closed'[d]
                PROVE  (Idle(d) \/ Asking(d) \/ Answering(d))'
    BY DEF Exchange
  <2>1. (Idle(d) \/ Asking(d)) /\ d # cur
    BY <1>1, BProcAssumption DEF Exchange, Answering
  <2>2. Request(d)' = Request(d)
    BY DEF Request
  <2>. QED BY <2>1, <2>2, Sizes DEF Idle, Asking
<1>5. Checked' /\ NotCut'
  BY DEF Checked, NotCut
<1>. QED BY <1>2, <1>3, <1>4, <1>5

\* main closes the connection of a client that has left or asked too much.
LEMMA HangUpInv ==
  ASSUME BInv, spc # "accept", HangUp,
         UNCHANGED <<len, cpc, asked, cleft, cpos, down, backlog>>,
         up' \in [Procs -> Nat], rpos' \in [Procs -> Nat],
         \A d \in Procs \ {cur} : up'[d] = up[d] /\ rpos'[d] = rpos[d],
         cur \in Clients => cpc[cur] = "done"
  PROVE  BInv'
<1>. USE DEF BInv, HangUp
<1>1. cur \in Procs /\ cur # NoClient /\ ~closed[cur]
  BY CurProc
<1>2. BTypeOK'
  BY <1>1 DEF BTypeOK
<1>3. closed'[cur] /\ \A d \in Procs \ {cur} : closed'[d] = closed[d]
  BY <1>1 DEF BTypeOK
<1>4. Connected'
  <2>1. \A i \in DOMAIN backlog : backlog[i] \in Procs
    BY DEF BTypeOK
  <2>. QED BY <1>1, <1>3, <2>1, BProcAssumption DEF Connected
<1>5. Exchange'
  <2>. SUFFICES ASSUME NEW d \in Procs, cpc'[d] # "done", ~closed'[d]
                PROVE  (Idle(d) \/ Asking(d) \/ Answering(d))'
    BY DEF Exchange
  <2>1. d # cur /\ d # NoClient
    BY <1>3, BProcAssumption
  <2>2. Idle(d) \/ Asking(d)
    BY <1>3, <2>1 DEF Exchange, Answering
  <2>3. Request(d)' = Request(d)
    BY DEF Request
  <2>. QED BY <2>1, <2>2, <2>3 DEF Idle, Asking
<1>6. Checked' /\ NotCut'
  BY <1>1, <1>3 DEF Checked, NotCut, Procs
<1>. QED BY <1>2, <1>4, <1>5, <1>6

LEMMA GoneInv ==
  ASSUME BInv, Gone
  PROVE  BInv'
BY HangUpInv DEF Gone, clientVars, BInv, BTypeOK

LEMMA SWriteInv ==
  ASSUME BInv, SWrite
  PROVE  BInv'
<1>. USE DEF BInv, SWrite, clientVars
<1>. PICK n \in 1..sleft :
       /\ down[cur] + n <= Room
       /\ down' = [down EXCEPT ![cur] = @ + n]
       /\ \/ n < sleft /\ sleft' = sleft - n /\ UNCHANGED spc
          \/ n = sleft /\ spc' = "head" /\ sleft' = Header
  OBVIOUS
<1>1. cur \in Procs /\ cur # NoClient /\ ~closed[cur]
  BY CurProc
<1>2. n \in Nat /\ n >= 1 /\ n <= sleft /\ sleft \in Nat /\ down[cur] \in Nat
  BY <1>1, Bytes
<1>3. /\ down'[cur] = down[cur] + n
      /\ \A d \in Procs \ {cur} : down'[d] = down[d]
  BY <1>1 DEF BTypeOK
<1>4. BTypeOK'
  <2>1. down' \in [Procs -> Nat]
    <3>1. down \in [Procs -> Nat] /\ down' = [down EXCEPT ![cur] = down[cur] + n]
      BY DEF BTypeOK
    <3>. QED BY ONLY <1>1, <1>2, <3>1, Counts
  <2>2. sleft' \in Nat /\ spc' \in {"head", "reply"}
    BY <1>2, BSizeAssumption
  <2>. QED BY <2>1, <2>2 DEF BTypeOK
<1>5. ASSUME cpc[cur] # "done"
      PROVE  (Idle(cur) \/ Asking(cur) \/ Answering(cur))'
  <2>1. Answering(cur)
    BY <1>1, <1>5 DEF Exchange, Idle, Asking, Answering
  <2>2. Answer' = Answer
    BY DEF Answer
  <2>. QED BY <1>1, <1>2, <1>3, <2>1, <2>2, Sizes, Bytes DEF Answering
<1>. QED BY <1>1, <1>3, <1>4, <1>5, ServerFrame

LEMMA SReadInv ==
  ASSUME BInv, SRead
  PROVE  BInv'
<1>. USE DEF BInv, SRead, clientVars
<1>. PICK n \in 1..sleft :
       /\ n <= up[cur]
       /\ up' = [up EXCEPT ![cur] = @ - n]
       /\ rpos' = [rpos EXCEPT ![cur] = Advance(@, n, Request(cur))]
       /\ \/ /\ n < sleft
             /\ sleft' = sleft - n
             /\ UNCHANGED <<spc, cur, closed>>
          \/ /\ n = sleft /\ spc = "head"
             /\ \E l \in Prefix(rpos'[cur], Request(cur), len[cur]) :
                  \/ TooLong(l) /\ HangUp
                  \/ ~TooLong(l) /\ l = 0 /\ ToReply
                  \/ /\ ~TooLong(l) /\ l > 0
                     /\ spc' = "body" /\ sleft' = l
                     /\ UNCHANGED <<cur, closed>>
          \/ n = sleft /\ spc = "body" /\ ToReply
  OBVIOUS
<1>1. cur \in Procs /\ cur # NoClient /\ ~closed[cur]
  BY CurProc
<1>2. /\ n \in Nat /\ n >= 1 /\ n <= sleft /\ sleft \in Nat
      /\ up[cur] \in Nat /\ rpos[cur] \in Nat
  BY <1>1, Bytes
<1>3. /\ up'[cur] = up[cur] - n /\ rpos'[cur] = Advance(rpos[cur], n, Request(cur))
      /\ \A d \in Procs \ {cur} : up'[d] = up[d] /\ rpos'[d] = rpos[d]
  BY <1>1 DEF BTypeOK
<1>4. up' \in [Procs -> Nat] /\ rpos' \in [Procs -> Nat]
  <2>1. up[cur] - n \in Nat /\ Advance(rpos[cur], n, Request(cur)) \in Nat
    BY <1>1, <1>2, Sizes DEF Advance
  <2>2. /\ up \in [Procs -> Nat] /\ up' = [up EXCEPT ![cur] = up[cur] - n]
        /\ rpos \in [Procs -> Nat]
        /\ rpos' = [rpos EXCEPT ![cur] = Advance(rpos[cur], n, Request(cur))]
    BY DEF BTypeOK
  <2>. QED BY ONLY <1>1, <2>1, <2>2, Counts
<1>5. cpc[cur] # "done" => Asking(cur)
  BY <1>1, <1>2 DEF Exchange, Idle, Answering
<1>6. Answer' = Answer /\ (cur' = cur => Request(cur)' = Request(cur))
  BY DEF Request, Answer
<1>7. ASSUME n < sleft, sleft' = sleft - n, UNCHANGED <<spc, cur, closed>>
      PROVE  BInv'
  <2>1. BTypeOK'
    BY <1>2, <1>4, <1>7 DEF BTypeOK
  <2>2. cpc[cur] # "done" => Asking(cur)'
    BY <1>1, <1>2, <1>3, <1>5, <1>6, <1>7, Sizes, Bytes DEF Asking, Advance
  <2>. QED BY <1>1, <1>3, <1>7, <2>1, <2>2, ServerFrame
<1>8. ASSUME ToReply, n = sleft, spc = "body" \/ (spc = "head" /\ (cpc[cur] # "done" => len[cur] = 0))
      PROVE  BInv'
  <2>1. BTypeOK'
    BY <1>1, <1>2, <1>4, <1>8, Sizes DEF BTypeOK, ToReply
  <2>2. ASSUME cpc[cur] # "done" PROVE Answering(cur)'
    <3>1. rpos[cur] + n = Request(cur)
      BY <1>1, <1>2, <1>5, <1>8, <2>2, Sizes DEF Asking
    <3>2. cpc[cur] = "head" /\ cleft[cur] = Header /\ up[cur] = n /\ down[cur] = 0 /\ cpos[cur] = 0
      BY <1>1, <1>2, <1>5, <2>2, <3>1, Sizes, Bytes DEF Asking
    <3>3. up'[cur] = 0 /\ rpos'[cur] = 0
      BY <1>1, <1>2, <1>3, <3>1, <3>2, Sizes DEF Advance
    <3>. QED BY <1>1, <1>6, <1>8, <3>2, <3>3, Sizes DEF Answering, ToReply
  <2>. QED BY <1>1, <1>3, <1>8, <2>1, <2>2, ServerFrame DEF ToReply
<1>9. ASSUME n = sleft, spc = "head", NEW l \in Prefix(rpos'[cur], Request(cur), len[cur]),
             \/ TooLong(l) /\ HangUp
             \/ ~TooLong(l) /\ l = 0 /\ ToReply
             \/ /\ ~TooLong(l) /\ l > 0
                /\ spc' = "body" /\ sleft' = l
                /\ UNCHANGED <<cur, closed>>
      PROVE  BInv'
  <2>1. cpc[cur] # "done" => l = len[cur]
    BY <1>1, <1>2, <1>3, <1>5, <1>9, Sizes DEF Asking, Advance, Prefix
  <2>2. l \in Nat
    BY <1>1, Sizes DEF Prefix
  <2>3. CASE TooLong(l) /\ HangUp
    <3>1. cur \in Clients => cpc[cur] = "done"
      BY <1>1, <1>5, <2>1, <2>3, Sizes DEF Checked, Asking, TooLong
    <3>. QED BY <1>3, <1>4, <1>9, <2>3, <3>1, HangUpInv
  <2>4. CASE l = 0 /\ ToReply
    BY <1>8, <1>9, <2>1, <2>4
  <2>5. CASE l > 0 /\ spc' = "body" /\ sleft' = l /\ UNCHANGED <<cur, closed>>
    <3>1. BTypeOK'
      BY <1>4, <2>2, <2>5 DEF BTypeOK
    <3>2. cpc[cur] # "done" => Asking(cur)'
      BY <1>1, <1>2, <1>3, <1>5, <1>6, <1>9, <2>1, <2>5, Sizes, Bytes DEF Asking, Advance
    <3>. QED BY <1>1, <1>3, <2>5, <3>1, <3>2, ServerFrame
  <2>. QED BY <1>9, <2>3, <2>4, <2>5
<1>. QED BY <1>7, <1>8, <1>9

-----------------------------------------------------------------------------

LEMMA BNextInv == BInv /\ [BNext]_bVars => BInv'
<1>. SUFFICES ASSUME BInv, [BNext]_bVars PROVE BInv'
  OBVIOUS
<1>1. CASE ServerStep
  BY <1>1, AcceptInv, SReadInv, SWriteInv, GoneInv DEF ServerStep
<1>2. ASSUME NEW c \in Procs, Connect(c) \/ ClientStep(c)
      PROVE  BInv'
  BY <1>2, ConnectInv, QueryInv, CloseInv, CWriteInv, CReadInv DEF ClientStep
<1>3. CASE UNCHANGED bVars
  BY <1>3 DEF bVars, BInv, BTypeOK, Connected, Exchange, Idle, Asking, Answering, Request,
              Answer, Checked, NotCut
<1>. QED BY <1>1, <1>2, <1>3 DEF BNext

LEMMA InvHalfDuplex == BInv => HalfDuplex
BY DEF BInv, Exchange, Idle, Asking, Answering, HalfDuplex, BTypeOK

LEMMA BInvHolds == BSpec => []BInv
BY BInitInv, BNextInv, PTL DEF BSpec

\* read_full and write_all, on both sides, keep the streams at the boundaries
\* of messages, however the kernel cuts them and whenever a process dies: the
\* length that one_request or query reads is the length that was sent.
THEOREM Lockstep == BSpec => []HalfDuplex
BY BInvHolds, InvHalfDuplex, PTL

\* one_request returns an error for no client that keeps to k_max_msg and waits
\* for its reply: the server closes its connection only after it has left.
THEOREM NeverCut == BSpec => []NotCut
<1>1. BInv => NotCut
  BY DEF BInv
<1>. QED BY <1>1, BInvHolds, PTL

-----------------------------------------------------------------------------
(* The event loop server implements KvService, for any clients, requests,  *)
(* sizes of buffers and interleaving.  The invariant says which parts of a *)
(* connection are in use in each of its states; given it, every step of    *)
(* the loop is a step of the service for one client, or changes nothing    *)
(* that the service has.                                                   *)

Replies == {[code |-> "RES_OK", val |-> v] : v \in Vals07}
             \cup {[code |-> x] : x \in {"RES_OK", "RES_NX", "RES_ERR"}}

PTypes ==
  /\ script \in [Users -> Seq(Requests)] /\ nsent \in [Users -> Nat]
  /\ upc \in [Users -> {"start", "send", "recv", "done"}]
  /\ got \in [Users -> Seq(Replies)]
  /\ outq \in [Users -> Seq(Replies)]
  /\ wbuf \in [Users -> Seq(Replies)]
  /\ inq \in [Users -> Seq(Requests)]
  /\ rbuf \in [Users -> Seq(Requests)]
  /\ state \in [Users -> {"none", "REQ", "RES", "closed"}]
  /\ \A c \in Users : Len(rbuf[c]) <= RBuf
  /\ waiting \in Seq(Users) /\ ready \subseteq Users
  /\ DOMAIN g_map \subseteq Keys07 /\ \A k \in DOMAIN g_map : g_map[k] \in Vals07

\* The loop serves open connections, each in the state its phase is for.
Serving ==
  /\ ppc \in {"poll", "pick", "fill", "parse", "flush", "resume"}
  /\ ppc \in {"fill", "parse"} => at \in Users /\ state[at] = "REQ"
  /\ ppc \in {"flush", "resume"} => at \in Users /\ state[at] = "RES"
  /\ ppc \notin {"poll", "pick"} => at \notin ready
  /\ \A c \in ready : state[c] \in {"REQ", "RES"}

\* A response is kept only in STATE_RES.
NoResponse == \A c \in Users : state[c] \in {"none", "REQ"} => wbuf[c] = <<>>

\* The backlog holds the clients that have connected and have no Conn.
Backlog ==
  /\ listening => waiting # <<>>
  /\ \A i \in DOMAIN waiting : state[waiting[i]] = "none"
  /\ \A i, j \in DOMAIN waiting : waiting[i] = waiting[j] => i = j
  /\ \A c \in Users : upc[c] = "start" =>
       state[c] = "none" /\ \A i \in DOMAIN waiting : waiting[i] # c

PInv == PTypes /\ Serving /\ NoResponse /\ Backlog
-----------------------------------------------------------------------------
(* steps of the service, for one client *)

OthersSame(c) == \A d \in Users \ {c} : /\ Pending(d)' = Pending(d)
                                        /\ Answers(d)' = Answers(d)
                                        /\ Gone07(d)' = Gone07(d)

LEMMA Stutter ==
  ASSUME g_map' = g_map,
         \A d \in Users : /\ Pending(d)' = Pending(d) /\ Answers(d)' = Answers(d)
                          /\ Gone07(d)' = Gone07(d)
  PROVE  UNCHANGED Svc!kvVars
BY DEF Svc!kvVars

LEMMA AskStep ==
  ASSUME NEW c \in Users, NEW r \in Requests, g_map' = g_map, OthersSame(c),
         Pending(c)' = Append(Pending(c), r), Answers(c)' = Answers(c), Gone07(c)' = Gone07(c)
  PROVE  Svc!KNext
<1>1. Svc!KAsk(c, r)
  BY DEF Svc!KAsk, OthersSame
<1>. QED BY <1>1 DEF Svc!KNext, Svc!Requests, Requests

LEMMA AnswerStep ==
  ASSUME NEW c \in Users, OthersSame(c), Gone07(c)' = Gone07(c),
         Pending(c) # <<>>, Head(Pending(c)).op # "bad",
         g_map' = After(g_map, Head(Pending(c))), Pending(c)' = Tail(Pending(c)),
         Answers(c)' = IF Gone07(c) THEN Answers(c)
                       ELSE Append(Answers(c), ReplyTo(g_map, Head(Pending(c))))
  PROVE  Svc!KNext
<1>1. \A m, r : /\ Svc!After(m, r) = After(m, r) /\ Svc!ReplyTo(m, r) = ReplyTo(m, r)
  BY DEF Svc!After, After, Svc!ReplyTo, ReplyTo, Svc!DoGet07, DoGet07, Svc!DoSet07, DoSet07,
         Svc!DoDel07, DoDel07
<1>2. Svc!KAnswer(c)
  BY <1>1 DEF Svc!KAnswer, OthersSame
<1>. QED BY <1>2 DEF Svc!KNext

LEMMA DropStep ==
  ASSUME NEW c \in Users, g_map' = g_map, OthersSame(c),
         Pending(c)' = <<>>, Answers(c)' = Answers(c), Gone07(c)' = Gone07(c),
         Gone07(c) \/ (Pending(c) # <<>> /\ Head(Pending(c)).op = "bad")
  PROVE  Svc!KNext
<1>1. Svc!KDrop(c)
  BY DEF Svc!KDrop, OthersSame
<1>. QED BY <1>1 DEF Svc!KNext

LEMMA LeaveStep ==
  ASSUME NEW c \in Users, g_map' = g_map, OthersSame(c),
         Pending(c)' = Pending(c), Answers(c)' = <<>>, Gone07(c)'
  PROVE  Svc!KNext
<1>1. Svc!KLeave(c)
  BY DEF Svc!KLeave, OthersSame
<1>. QED BY <1>1 DEF Svc!KNext

LEMMA InitStep == PInit => PInv /\ Svc!KInit
<1>. SUFFICES ASSUME PInit PROVE PInv /\ Svc!KInit
  OBVIOUS
<1>1. PInv
  BY PSizeAssumption DEF PInit, PInv, PTypes, Serving, NoResponse, Backlog, Empty, EmptyMap
<1>2. \A c \in Users : Pending(c) = <<>> /\ Answers(c) = <<>> /\ ~Gone07(c)
  <2>1. \A c \in Users : Pending(c) = <<>> \o <<>> /\ Answers(c) = <<>> \o <<>> \o <<>> /\ ~Gone07(c)
    BY DEF PInit, Pending, Answers, Gone07, Empty
  <2>2. <<>> \o <<>> = <<>>
    BY ConcatEmptySeq, EmptySeq
  <2>. QED BY <2>1, <2>2
<1>3. \A c \in Users : Gone07(c) = FALSE
  BY <1>2
<1>4. g_map = Svc!EmptyMap
  BY DEF PInit, Svc!EmptyMap, EmptyMap
<1>. QED BY <1>1, <1>2, <1>3, <1>4 DEF Svc!KInit

-----------------------------------------------------------------------------
(* the clients *)

LEMMA ConnectStep ==
  ASSUME PInv, NEW c \in Users, UConnect(c)
  PROVE  PInv' /\ UNCHANGED Svc!kvVars
<1>. USE DEF PInv, UConnect, connVars, loopVars
<1>1. PTypes'
  BY AppendProperties DEF PTypes
<1>2. upc'[c] = "send" /\ \A d \in Users : d # c => upc'[d] = upc[d]
  BY DEF PTypes
<1>3. Serving' /\ NoResponse'
  BY DEF Serving, NoResponse
<1>4. Backlog'
  <2>1. /\ waiting' # <<>> /\ Len(waiting') = Len(waiting) + 1 /\ Len(waiting) \in Nat
        /\ DOMAIN waiting = 1..Len(waiting) /\ DOMAIN waiting' = 1..Len(waiting')
        /\ \A i \in 1..Len(waiting) : waiting'[i] = waiting[i]
        /\ waiting'[Len(waiting) + 1] = c
    <3>1. waiting \in Seq(Users) /\ waiting' = Append(waiting, c) /\ waiting' \in Seq(Users)
      BY <1>1 DEF PTypes
    <3>. QED BY <3>1, AppendProperties, LenProperties
  <2>2. state[c] = "none" /\ \A i \in DOMAIN waiting : waiting[i] # c
    BY DEF Backlog
  <2>. QED BY <1>2, <2>1, <2>2 DEF Backlog
<1>5. \A d \in Users : /\ Pending(d)' = Pending(d) /\ Answers(d)' = Answers(d)
                       /\ Gone07(d)' = Gone07(d)
  BY <1>2 DEF Pending, Answers, Gone07
<1>. QED BY <1>1, <1>3, <1>4, <1>5, Stutter

LEMMA ConcatLast ==
  \A s, t \in Seq(Requests), e \in Requests : s \o Append(t, e) = Append(s \o t, e)
<1>. SUFFICES ASSUME NEW s \in Seq(Requests), NEW t \in Seq(Requests), NEW e \in Requests
              PROVE  s \o Append(t, e) = Append(s \o t, e)
  OBVIOUS
<1>1. <<e>> \in Seq(Requests) /\ s \o t \in Seq(Requests)
  BY ConcatProperties
<1>2. Append(t, e) = t \o <<e>>
  BY AppendIsConcat
<1>3. Append(s \o t, e) = (s \o t) \o <<e>>
  BY <1>1, AppendIsConcat
<1>4. (s \o t) \o <<e>> = s \o (t \o <<e>>)
  BY <1>1, ConcatAssociative
<1>. QED BY <1>2, <1>3, <1>4

LEMMA SendStep ==
  ASSUME PInv, NEW c \in Users, USend(c)
  PROVE  PInv' /\ Svc!KNext
<1>. USE DEF PInv, USend, connVars, loopVars
<1>. DEFINE r == script[c][nsent[c] + 1]
<1>1. r \in Requests
  BY ElementOfSeq, LenProperties DEF PTypes
<1>2. PTypes'
  BY <1>1, AppendProperties DEF PTypes
<1>3. Serving' /\ NoResponse' /\ Backlog'
  BY DEF Serving, NoResponse, Backlog
<1>4. inq'[c] = Append(inq[c], r) /\ \A d \in Users \ {c} : inq'[d] = inq[d]
  BY DEF PTypes
<1>5. rbuf[c] \o Append(inq[c], r) = Append(rbuf[c] \o inq[c], r)
  <2>1. rbuf[c] \in Seq(Requests) /\ inq[c] \in Seq(Requests)
    BY DEF PTypes
  <2>2. \A e \in Requests : rbuf[c] \o Append(inq[c], e) = Append(rbuf[c] \o inq[c], e)
    BY ONLY <2>1, ConcatLast, Zenon
  <2>. QED BY ONLY <1>1, <2>2, Zenon
<1>6. OthersSame(c)
  BY <1>4 DEF OthersSame, Pending, Answers, Gone07
<1>7. Pending(c)' = Append(Pending(c), r) /\ Answers(c)' = Answers(c) /\ Gone07(c)' = Gone07(c)
  BY <1>4, <1>5 DEF Pending, Answers, Gone07
<1>. QED BY <1>1, <1>2, <1>3, <1>6, <1>7, AskStep

LEMMA SentStep ==
  ASSUME PInv, NEW c \in Users, USent(c)
  PROVE  PInv' /\ UNCHANGED Svc!kvVars
<1>. USE DEF PInv, USent, connVars, loopVars
<1>1. PTypes'
  BY DEF PTypes
<1>2. upc'[c] = "recv" /\ \A d \in Users : d # c => upc'[d] = upc[d]
  BY DEF PTypes
<1>3. Serving' /\ NoResponse' /\ Backlog'
  BY <1>2 DEF Serving, NoResponse, Backlog
<1>4. \A d \in Users : /\ Pending(d)' = Pending(d) /\ Answers(d)' = Answers(d)
                       /\ Gone07(d)' = Gone07(d)
  BY <1>2 DEF Pending, Answers, Gone07
<1>. QED BY <1>1, <1>3, <1>4, Stutter

LEMMA MoveHead ==
  ASSUME NEW S, NEW s \in Seq(S), NEW t \in Seq(S), t # <<>>
  PROVE  /\ Append(s, Head(t)) \in Seq(S) /\ Tail(t) \in Seq(S)
         /\ Append(s, Head(t)) \o Tail(t) = s \o t
<1>1. Head(t) \in S /\ Tail(t) \in Seq(S) /\ <<Head(t)>> \in Seq(S)
  BY HeadTailProperties
<1>2. <<Head(t)>> \o Tail(t) = t
  BY <1>1, HeadTailProperties, ConcatProperties, SeqEqual, LenProperties
<1>. QED BY <1>1, <1>2, AppendProperties, AppendIsConcat, ConcatAssociative

LEMMA RecvStep ==
  ASSUME PInv, NEW c \in Users, URecv(c)
  PROVE  PInv' /\ UNCHANGED Svc!kvVars
<1>. USE DEF PInv, URecv, connVars, loopVars
<1>1. got[c] \in Seq(Replies) /\ outq[c] \in Seq(Replies) /\ outq[c] # <<>>
  BY DEF PTypes
<1>2. /\ got'[c] \in Seq(Replies) /\ outq'[c] \in Seq(Replies)
      /\ got'[c] \o outq'[c] = got[c] \o outq[c]
      /\ \A d \in Users \ {c} : got'[d] = got[d] /\ outq'[d] = outq[d]
  <2>1. /\ got'[c] = Append(got[c], Head(outq[c])) /\ outq'[c] = Tail(outq[c])
        /\ \A d \in Users \ {c} : got'[d] = got[d] /\ outq'[d] = outq[d]
    BY DEF PTypes
  <2>2. /\ Append(got[c], Head(outq[c])) \in Seq(Replies) /\ Tail(outq[c]) \in Seq(Replies)
        /\ Append(got[c], Head(outq[c])) \o Tail(outq[c]) = got[c] \o outq[c]
    BY ONLY <1>1, MoveHead, Zenon
  <2>. QED BY ONLY <2>1, <2>2, Zenon
<1>3. PTypes'
  BY <1>1, MoveHead DEF PTypes
<1>4. Serving' /\ NoResponse' /\ Backlog'
  BY DEF Serving, NoResponse, Backlog
<1>5. \A d \in Users : /\ Pending(d)' = Pending(d) /\ Answers(d)' = Answers(d)
                       /\ Gone07(d)' = Gone07(d)
  <2>1. \A d \in Users : got'[d] \o outq'[d] = got[d] \o outq[d]
    BY <1>2
  <2>2. /\ upc' = upc /\ wbuf' = wbuf /\ state' = state /\ rbuf' = rbuf /\ inq' = inq
    OBVIOUS
  <2>. QED BY ONLY <2>1, <2>2 DEF Pending, Answers, Gone07
<1>. QED BY <1>3, <1>4, <1>5, Stutter

LEMMA CloseStep ==
  ASSUME PInv, NEW c \in Users, UClose(c)
  PROVE  PInv' /\ Svc!KNext
<1>. USE DEF PInv, UClose, connVars, loopVars
<1>1. PTypes'
  BY DEF PTypes
<1>2. upc'[c] = "done" /\ \A d \in Users : d # c => upc'[d] = upc[d]
  BY DEF PTypes
<1>3. Serving' /\ NoResponse' /\ Backlog'
  BY <1>2 DEF Serving, NoResponse, Backlog
<1>4. OthersSame(c)
  BY <1>2 DEF OthersSame, Pending, Answers, Gone07
<1>5. Pending(c)' = Pending(c) /\ Answers(c)' = <<>> /\ Gone07(c)'
  BY <1>2 DEF Pending, Answers, Gone07
<1>. QED BY <1>1, <1>3, <1>4, <1>5, LeaveStep

-----------------------------------------------------------------------------
(* the loop of main *)

LEMMA RoundStep ==
  ASSUME PInv, Poll \/ (\E c \in Users : Pick(c)) \/ EndRound
  PROVE  PInv' /\ UNCHANGED Svc!kvVars
<1>. USE DEF PInv
<1>1. CASE Poll
  <2>. USE <1>1 DEF Poll, connVars, userVars
  <2>1. PTypes' /\ NoResponse'
    BY DEF PTypes, NoResponse, ReadyFds
  <2>2. Serving' /\ Backlog'
    BY DEF Serving, Backlog, ReadyFds
  <2>3. UNCHANGED Svc!kvVars
    BY Stutter DEF Pending, Answers, Gone07
  <2>. QED BY <2>1, <2>2, <2>3
<1>2. ASSUME NEW c \in Users, Pick(c)
      PROVE  PInv' /\ UNCHANGED Svc!kvVars
  <2>. USE <1>2 DEF Pick, connVars, userVars
  <2>1. PTypes' /\ NoResponse'
    BY DEF PTypes, NoResponse
  <2>2. Serving' /\ Backlog'
    BY DEF Serving, Backlog
  <2>3. UNCHANGED Svc!kvVars
    BY Stutter DEF Pending, Answers, Gone07
  <2>. QED BY <2>1, <2>2, <2>3
<1>3. CASE EndRound /\ ~listening
  <2>. USE <1>3 DEF EndRound, userVars
  <2>1. PTypes' /\ NoResponse'
    BY DEF PTypes, NoResponse
  <2>2. Serving' /\ Backlog'
    BY DEF Serving, Backlog
  <2>3. UNCHANGED Svc!kvVars
    BY Stutter DEF Pending, Answers, Gone07
  <2>. QED BY <2>1, <2>2, <2>3
<1>4. CASE EndRound /\ listening
  <2>. USE <1>4 DEF EndRound, userVars
  <2>. DEFINE c == Head(waiting)
  <2>1. /\ waiting \in Seq(Users) /\ waiting # <<>>
        /\ waiting' = Tail(waiting) /\ state' = [state EXCEPT ![c] = "REQ"]
    BY DEF PTypes, Backlog
  <2>2. /\ c \in Users /\ c = waiting[1] /\ waiting' \in Seq(Users) /\ Len(waiting) \in Nat
        /\ DOMAIN waiting = 1..Len(waiting) /\ DOMAIN waiting' = 1..(Len(waiting) - 1)
        /\ \A i \in DOMAIN waiting' : waiting'[i] = waiting[i + 1]
        /\ 1 \in DOMAIN waiting
    BY <2>1, HeadTailProperties, LenProperties, EmptySeq
  <2>3. state[c] = "none" /\ upc[c] # "start"
    BY <2>2 DEF Backlog
  <2>4. state'[c] = "REQ" /\ \A d \in Users : d # c => state'[d] = state[d]
    BY <2>1, <2>2 DEF PTypes
  <2>. HIDE DEF c
  <2>5. PTypes' /\ Serving'
    <3>1. state' \in [Users -> {"none", "REQ", "RES", "closed"}]
      BY <2>1, <2>2 DEF PTypes
    <3>2. PTypes'
      BY <2>2, <3>1 DEF PTypes
    <3>. QED BY <3>2 DEF Serving
  <2>6. NoResponse' /\ Backlog'
    <3>1. NoResponse'
      BY <2>2, <2>3, <2>4 DEF NoResponse
    <3>2. \A i \in DOMAIN waiting' : i + 1 \in DOMAIN waiting /\ i + 1 # 1 /\ waiting'[i] = waiting[i + 1]
      BY <2>2
    <3>3. \A i \in DOMAIN waiting' : waiting'[i] # c
      BY <2>2, <3>2 DEF Backlog
    <3>4. \A i \in DOMAIN waiting' : state'[waiting'[i]] = "none"
      <4>1. \A i \in DOMAIN waiting' : waiting'[i] \in Users
        BY <2>2, LenProperties, ElementOfSeq
      <4>. QED BY <2>4, <3>2, <3>3, <4>1 DEF Backlog
    <3>5. \A i, j \in DOMAIN waiting' : waiting'[i] = waiting'[j] => i = j
      <4>. SUFFICES ASSUME NEW i \in DOMAIN waiting', NEW j \in DOMAIN waiting',
                           waiting'[i] = waiting'[j]
                    PROVE  i = j
        OBVIOUS
      <4>1. i + 1 = j + 1
        BY <3>2 DEF Backlog
      <4>. QED BY <2>2, <4>1
    <3>6. \A d \in Users : upc'[d] = "start" =>
            state'[d] = "none" /\ \A i \in DOMAIN waiting' : waiting'[i] # d
      BY <2>3, <2>4, <3>2 DEF Backlog
    <3>. QED BY <3>1, <3>4, <3>5, <3>6 DEF Backlog
  <2>7. \A d \in Users : /\ Pending(d)' = Pending(d) /\ Answers(d)' = Answers(d)
                         /\ Gone07(d)' = Gone07(d)
    BY <2>3, <2>4 DEF Pending, Answers, Gone07
  <2>. QED BY <2>5, <2>6, <2>7, Stutter
<1>. QED BY <1>1, <1>2, <1>3, <1>4

-----------------------------------------------------------------------------
(* connection_io *)

\* A step in connection_io leaves the backlog alone: the connection at hand is
\* not in it, nor in what is left of the round.
LEMMA BacklogKept ==
  ASSUME PInv, at \in Users, state[at] \in {"REQ", "RES"},
         UNCHANGED <<upc, waiting, listening>>,
         \A d \in Users : d # at => state'[d] = state[d]
  PROVE  Backlog'
<1>1. \A i \in DOMAIN waiting : waiting[i] \in Users /\ waiting[i] # at
  <2>1. waiting \in Seq(Users)
    BY DEF PInv, PTypes
  <2>2. \A i \in DOMAIN waiting : waiting[i] \in Users
    BY <2>1, LenProperties, ElementOfSeq
  <2>. QED BY <2>2 DEF PInv, Backlog
<1>2. upc[at] # "start"
  BY DEF PInv, Backlog
<1>. QED BY <1>1, <1>2 DEF PInv, Backlog

\* connection_io returns.
LEMMA ReturnInv ==
  ASSUME PInv, at \in Users, ppc \notin {"poll", "pick"}, state[at] \in {"REQ", "RES"},
         NEW x \in {"REQ", "RES", "END"}, Return(x),
         UNCHANGED <<room, script, upc, nsent, got, inq, waiting, rbuf, g_map, ready, listening>>,
         outq' \in [Users -> Seq(Replies)], wbuf' \in [Users -> Seq(Replies)],
         \A d \in Users : d # at => wbuf'[d] = wbuf[d],
         x = "REQ" => wbuf'[at] = <<>>
  PROVE  /\ PInv'
         /\ state'[at] = IF x = "END" THEN "closed" ELSE x
         /\ \A d \in Users : d # at => state'[d] = state[d]
<1>. USE DEF PInv
<1>1. /\ state'[at] = IF x = "END" THEN "closed" ELSE x
      /\ \A d \in Users : d # at => state'[d] = state[d]
  BY DEF PTypes, Return
<1>2. PTypes'
  BY DEF PTypes, Return
<1>3. Serving'
  BY <1>1 DEF Serving, Return
<1>4. NoResponse'
  <2>. SUFFICES ASSUME NEW d \in Users, state'[d] \in {"none", "REQ"} PROVE wbuf'[d] = <<>>
    BY DEF NoResponse
  <2>1. CASE d = at
    BY <1>1, <2>1
  <2>2. CASE d # at
    BY <1>1, <2>2 DEF NoResponse
  <2>. QED BY <2>1, <2>2
<1>. QED BY <1>1, <1>2, <1>3, <1>4, BacklogKept

LEMMA SplitConcat ==
  \A s, t \in Seq(Requests) : \A n \in 0..Len(t) :
    /\ s \o SubSeq(t, 1, n) \in Seq(Requests) /\ SubSeq(t, n + 1, Len(t)) \in Seq(Requests)
    /\ (s \o SubSeq(t, 1, n)) \o SubSeq(t, n + 1, Len(t)) = s \o t
    /\ Len(s \o SubSeq(t, 1, n)) = Len(s) + n
<1>. SUFFICES ASSUME NEW s \in Seq(Requests), NEW t \in Seq(Requests), NEW n \in 0..Len(t)
              PROVE  /\ s \o SubSeq(t, 1, n) \in Seq(Requests)
                     /\ SubSeq(t, n + 1, Len(t)) \in Seq(Requests)
                     /\ (s \o SubSeq(t, 1, n)) \o SubSeq(t, n + 1, Len(t)) = s \o t
                     /\ Len(s \o SubSeq(t, 1, n)) = Len(s) + n
  OBVIOUS
<1>. DEFINE a == SubSeq(t, 1, n)
            b == SubSeq(t, n + 1, Len(t))
<1>1. Len(t) \in Nat /\ \A i \in 1..Len(t) : t[i] \in Requests
  BY LenProperties, ElementOfSeq
<1>2. a \in Seq(Requests) /\ b \in Seq(Requests) /\ Len(a) = n
  <2>1. a \in Seq(Requests) /\ Len(a) = n
    BY <1>1, SubSeqProperties
  <2>2. b \in Seq(Requests)
    BY <1>1, SubSeqProperties
  <2>. QED BY <2>1, <2>2
<1>3. a \o b = t
  <2>1. 1 \in 1..(Len(t) + 1) /\ n \in (1 - 1)..Len(t) /\ Len(t) \in n..Len(t)
    BY <1>1
  <2>2. a \o b = SubSeq(t, 1, Len(t))
    BY <2>1, ConcatAdjacentSubSeq, Zenon
  <2>. QED BY <2>2, SubSeqFull
<1>. HIDE DEF a, b
<1>4. (s \o a) \o b = s \o (a \o b)
  BY <1>2, ConcatAssociative
<1>5. s \o a \in Seq(Requests) /\ Len(s \o a) = Len(s) + n
  BY <1>2, ConcatProperties
<1>. QED BY <1>2, <1>3, <1>4, <1>5 DEF a, b

LEMMA Takes ==
  ASSUME NEW a \in Nat, NEW b \in Nat, NEW k \in Nat, b <= k
  PROVE  Least(a, k - b) \in 0..a /\ b + Least(a, k - b) <= k
BY DEF Least

LEMMA FillStep ==
  ASSUME PInv, Fill
  PROVE  PInv' /\ (Svc!KNext \/ UNCHANGED Svc!kvVars)
<1>. USE DEF PInv, Fill, userVars
<1>1. at \in Users /\ state[at] = "REQ" /\ wbuf[at] = <<>> /\ at \notin ready
  BY DEF Serving, NoResponse
<1>2. CASE inq[at] # <<>> /\ ppc' = "parse"
  <2>. DEFINE n == Least(Len(inq[at]), RBuf - Len(rbuf[at]))
  <2>1. /\ inq[at] \in Seq(Requests) /\ rbuf[at] \in Seq(Requests)
        /\ Len(inq[at]) \in Nat /\ Len(rbuf[at]) \in Nat /\ Len(rbuf[at]) <= RBuf
    BY <1>1, LenProperties DEF PTypes
  <2>2. n \in 0..Len(inq[at]) /\ Len(rbuf[at]) + n <= RBuf
    <3>1. RBuf \in Nat
      BY PSizeAssumption
    <3>. QED BY ONLY <2>1, <3>1, Takes DEF n
  <2>3. /\ rbuf' = [rbuf EXCEPT ![at] = rbuf[at] \o SubSeq(inq[at], 1, n)]
        /\ inq' = [inq EXCEPT ![at] = SubSeq(inq[at], n + 1, Len(inq[at]))]
        /\ UNCHANGED <<state, at>>
    BY <1>2 DEF Return
  <2>. HIDE DEF n
  <2>4. /\ rbuf[at] \o SubSeq(inq[at], 1, n) \in Seq(Requests)
        /\ SubSeq(inq[at], n + 1, Len(inq[at])) \in Seq(Requests)
        /\ (rbuf[at] \o SubSeq(inq[at], 1, n)) \o SubSeq(inq[at], n + 1, Len(inq[at]))
             = rbuf[at] \o inq[at]
        /\ Len(rbuf[at] \o SubSeq(inq[at], 1, n)) = Len(rbuf[at]) + n
    BY ONLY <2>1, <2>2, SplitConcat, Zenon
  <2>5. /\ rbuf' \in [Users -> Seq(Requests)] /\ inq' \in [Users -> Seq(Requests)]
        /\ rbuf'[at] = rbuf[at] \o SubSeq(inq[at], 1, n)
        /\ inq'[at] = SubSeq(inq[at], n + 1, Len(inq[at]))
        /\ \A d \in Users : d # at => rbuf'[d] = rbuf[d] /\ inq'[d] = inq[d]
    BY <1>1, <2>3, <2>4 DEF PTypes
  <2>6. rbuf'[at] \o inq'[at] = rbuf[at] \o inq[at] /\ Len(rbuf'[at]) <= RBuf
    BY <2>2, <2>4, <2>5
  <2>7. PTypes'
    BY <2>3, <2>5, <2>6 DEF PTypes
  <2>8. Serving' /\ NoResponse' /\ Backlog'
    BY <1>1, <1>2, <2>3 DEF Serving, NoResponse, Backlog
  <2>9. \A d \in Users : rbuf'[d] \o inq'[d] = rbuf[d] \o inq[d]
    BY <2>5, <2>6
  <2>10. UNCHANGED <<g_map, upc, got, outq, wbuf, state>>
    BY <2>3
  <2>11. UNCHANGED Svc!kvVars
    BY ONLY <2>9, <2>10, Stutter DEF Pending, Answers, Gone07
  <2>. QED BY <2>7, <2>8, <2>11
<1>3. CASE Return("REQ") /\ UNCHANGED <<inq, rbuf>>
  <2>1. PInv' /\ state'[at] = "REQ" /\ \A d \in Users : d # at => state'[d] = state[d]
    BY <1>1, <1>3, ReturnInv DEF PTypes
  <2>2. UNCHANGED Svc!kvVars
    BY <1>1, <1>3, <2>1, Stutter DEF Pending, Answers, Gone07
  <2>. QED BY <2>1, <2>2
<1>4. CASE Gone07(at) /\ Return("END") /\ UNCHANGED <<inq, rbuf>>
  <2>. PICK c \in Users : c = at
    BY <1>1
  <2>1. PInv' /\ state'[c] = "closed" /\ \A d \in Users : d # c => state'[d] = state[d]
    BY <1>1, <1>4, ReturnInv DEF PTypes
  <2>2. OthersSame(c)
    BY <1>4, <2>1 DEF OthersSame, Pending, Answers, Gone07
  <2>3. Pending(c)' = <<>>
    BY <2>1 DEF Pending
  <2>4. Answers(c)' = Answers(c) /\ Gone07(c)' = Gone07(c)
    BY DEF Answers, Gone07
  <2>. QED BY <1>4, <2>1, <2>2, <2>3, <2>4, DropStep
<1>. QED BY <1>2, <1>3, <1>4

LEMMA HeadOfConcat ==
  \A s, t \in Seq(Requests) : s # <<>> =>
    /\ Head(s) \in Requests /\ Tail(s) \in Seq(Requests) /\ Len(Tail(s)) = Len(s) - 1
    /\ s \o t # <<>> /\ Head(s \o t) = Head(s) /\ Tail(s \o t) = Tail(s) \o t
<1>. SUFFICES ASSUME NEW s \in Seq(Requests), NEW t \in Seq(Requests), s # <<>>
              PROVE  /\ Head(s) \in Requests /\ Tail(s) \in Seq(Requests)
                     /\ Len(Tail(s)) = Len(s) - 1 /\ s \o t # <<>>
                     /\ Head(s \o t) = Head(s) /\ Tail(s \o t) = Tail(s) \o t
  OBVIOUS
<1>1. /\ Head(s) \in Requests /\ Tail(s) \in Seq(Requests) /\ Len(Tail(s)) = Len(s) - 1
      /\ \A i \in 1..Len(Tail(s)) : Tail(s)[i] = s[i + 1]
  BY HeadTailProperties
<1>2. Len(s) \in Nat /\ Len(t) \in Nat /\ Len(s) >= 1
  BY LenProperties, EmptySeq
<1>3. /\ s \o t \in Seq(Requests) /\ Len(s \o t) = Len(s) + Len(t)
      /\ \A i \in 1..(Len(s) + Len(t)) : (s \o t)[i] = IF i <= Len(s) THEN s[i] ELSE t[i - Len(s)]
  BY ConcatProperties
<1>4. s \o t # <<>>
  BY <1>2, <1>3, EmptySeq
<1>5. Head(s \o t) = (s \o t)[1] /\ Head(s) = s[1]
  OBVIOUS
<1>6. /\ Tail(s \o t) \in Seq(Requests) /\ Len(Tail(s \o t)) = Len(s \o t) - 1
      /\ \A i \in 1..Len(Tail(s \o t)) : Tail(s \o t)[i] = (s \o t)[i + 1]
  BY <1>3, <1>4, HeadTailProperties
<1>7. /\ Tail(s) \o t \in Seq(Requests) /\ Len(Tail(s) \o t) = Len(Tail(s)) + Len(t)
      /\ \A i \in 1..(Len(Tail(s)) + Len(t)) :
           (Tail(s) \o t)[i] = IF i <= Len(Tail(s)) THEN Tail(s)[i] ELSE t[i - Len(Tail(s))]
  BY <1>1, ConcatProperties
<1>8. Len(Tail(s \o t)) = Len(Tail(s) \o t)
  BY <1>1, <1>2, <1>3, <1>6, <1>7
<1>9. ASSUME NEW i \in 1..Len(Tail(s \o t))
      PROVE  Tail(s \o t)[i] = (Tail(s) \o t)[i]
  <2>1. /\ i \in 1..(Len(s) + Len(t) - 1) /\ i + 1 \in 1..(Len(s) + Len(t))
        /\ i \in 1..(Len(Tail(s)) + Len(t))
    BY <1>1, <1>2, <1>3, <1>6
  <2>2. Tail(s \o t)[i] = IF i + 1 <= Len(s) THEN s[i + 1] ELSE t[i + 1 - Len(s)]
    BY <1>3, <1>6, <2>1
  <2>3. (Tail(s) \o t)[i] = IF i <= Len(s) - 1 THEN s[i + 1] ELSE t[i - (Len(s) - 1)]
    BY <1>1, <1>2, <1>7, <2>1
  <2>4. i + 1 - Len(s) = i - (Len(s) - 1) /\ (i + 1 <= Len(s) <=> i <= Len(s) - 1)
    BY <1>2
  <2>. QED BY <2>2, <2>3, <2>4
<1>10. Tail(s \o t) = Tail(s) \o t
  BY <1>6, <1>7, <1>8, <1>9, SeqEqual
<1>. QED BY <1>1, <1>2, <1>3, <1>4, <1>5, <1>10

\* the answers to a client grow by the reply in wbuf
LEMMA Answered ==
  \A g, o \in Seq(Replies), p \in Replies :
    (g \o o) \o <<p>> = Append((g \o o) \o <<>>, p)
<1>. SUFFICES ASSUME NEW g \in Seq(Replies), NEW o \in Seq(Replies), NEW p \in Replies
              PROVE  (g \o o) \o <<p>> = Append((g \o o) \o <<>>, p)
  OBVIOUS
<1>1. g \o o \in Seq(Replies)
  BY ConcatProperties
<1>2. (g \o o) \o <<>> = g \o o
  BY <1>1, ConcatEmptySeq
<1>3. Append(g \o o, p) = (g \o o) \o <<p>>
  BY <1>1, AppendIsConcat
<1>. QED BY <1>2, <1>3

\* and do not change when it goes from wbuf to the kernel
LEMMA Flushed ==
  \A g, o, x \in Seq(Replies) :
    o \o x \in Seq(Replies) /\ (g \o (o \o x)) \o <<>> = (g \o o) \o x
<1>. SUFFICES ASSUME NEW g \in Seq(Replies), NEW o \in Seq(Replies), NEW x \in Seq(Replies)
              PROVE  o \o x \in Seq(Replies) /\ (g \o (o \o x)) \o <<>> = (g \o o) \o x
  OBVIOUS
<1>1. o \o x \in Seq(Replies)
  BY ConcatProperties
<1>2. g \o (o \o x) \in Seq(Replies)
  BY <1>1, ConcatProperties
<1>3. (g \o (o \o x)) \o <<>> = g \o (o \o x)
  BY <1>2, ConcatEmptySeq
<1>4. (g \o o) \o x = g \o (o \o x)
  BY ConcatAssociative
<1>. QED BY <1>1, <1>3, <1>4

\* what do_request does to g_map and answers is of the right type
LEMMA RequestTypes ==
  ASSUME PTypes, NEW r \in Requests, r.op # "bad"
  PROVE  /\ ReplyTo(g_map, r) \in Replies
         /\ DOMAIN After(g_map, r) \subseteq Keys07
         /\ \A k \in DOMAIN After(g_map, r) : After(g_map, r)[k] \in Vals07
<1>1. r.key \in Keys07 /\ r.val \in Vals07 /\ r.op \in {"get", "set", "del", "unknown"}
  BY DEF Requests
<1>2. ReplyTo(g_map, r) \in Replies
  BY <1>1 DEF PTypes, ReplyTo, DoGet07, Replies
<1>3. /\ DOMAIN After(g_map, r) \subseteq Keys07
      /\ \A k \in DOMAIN After(g_map, r) : After(g_map, r)[k] \in Vals07
  <2>1. CASE r.op = "set"
    BY <1>1, <2>1 DEF PTypes, After, DoSet07
  <2>2. CASE r.op = "del"
    BY <1>1, <2>2 DEF PTypes, After, DoDel07
  <2>3. CASE r.op \in {"get", "unknown"}
    BY <2>3 DEF PTypes, After
  <2>. QED BY <1>1, <2>1, <2>2, <2>3
<1>. QED BY <1>2, <1>3

LEMMA ParseStep ==
  ASSUME PInv, Parse
  PROVE  PInv' /\ (Svc!KNext \/ UNCHANGED Svc!kvVars)
<1>. USE DEF PInv, Parse, userVars
<1>1. at \in Users /\ state[at] = "REQ" /\ wbuf[at] = <<>> /\ at \notin ready
  BY DEF Serving, NoResponse
<1>. PICK c \in Users : c = at
  BY <1>1
<1>2. rbuf[c] \in Seq(Requests) /\ inq[c] \in Seq(Requests)
  BY DEF PTypes
<1>3. CASE rbuf[at] = <<>>
  <2>. USE <1>3
  <2>1. PInv'
    BY <1>1 DEF PTypes, Serving, NoResponse, Backlog
  <2>2. UNCHANGED Svc!kvVars
    BY Stutter DEF Pending, Answers, Gone07
  <2>. QED BY <2>1, <2>2
<1>4. CASE rbuf[at] # <<>> /\ Head(rbuf[at]).op = "bad"
  <2>1. PInv' /\ state'[c] = "closed" /\ \A d \in Users : d # c => state'[d] = state[d]
    BY <1>1, <1>4, ReturnInv DEF PTypes
  <2>2. OthersSame(c)
    BY <1>4, <2>1 DEF OthersSame, Pending, Answers, Gone07
  <2>3. Pending(c)' = <<>> /\ Answers(c)' = Answers(c) /\ Gone07(c)' = Gone07(c)
    BY <1>4, <2>1 DEF Pending, Answers, Gone07
  <2>4. Pending(c) # <<>> /\ Head(Pending(c)) = Head(rbuf[c])
    <3>1. Pending(c) = rbuf[c] \o inq[c]
      BY <1>1 DEF Pending
    <3>2. rbuf[c] \o inq[c] # <<>> /\ Head(rbuf[c] \o inq[c]) = Head(rbuf[c])
      BY <1>2, <1>4, HeadOfConcat, Zenon
    <3>. QED BY <3>1, <3>2, Zenon
  <2>. QED BY <1>4, <2>1, <2>2, <2>3, <2>4, DropStep
<1>5. CASE rbuf[at] # <<>> /\ Head(rbuf[at]).op # "bad"
  <2>. DEFINE r == Head(rbuf[c])
              p == ReplyTo(g_map, r)
  <2>1. /\ r \in Requests /\ Tail(rbuf[c]) \in Seq(Requests)
        /\ Len(Tail(rbuf[c])) = Len(rbuf[c]) - 1
        /\ rbuf[c] \o inq[c] # <<>> /\ Head(rbuf[c] \o inq[c]) = r
        /\ Tail(rbuf[c] \o inq[c]) = Tail(rbuf[c]) \o inq[c]
    BY <1>2, <1>5, HeadOfConcat, Zenon
  <2>2. /\ g_map' = After(g_map, r) /\ wbuf' = [wbuf EXCEPT ![c] = <<p>>]
        /\ rbuf' = [rbuf EXCEPT ![c] = Tail(rbuf[c])]
        /\ state' = [state EXCEPT ![c] = "RES"] /\ ppc' = "flush"
        /\ UNCHANGED <<at, script, upc, nsent, got, inq, outq, waiting, ready, listening>>
    BY <1>5 DEF Consume
  <2>3. r.op # "bad"
    BY <1>5
  <2>. HIDE DEF r
  <2>4. /\ p \in Replies /\ DOMAIN g_map' \subseteq Keys07
        /\ \A k \in DOMAIN g_map' : g_map'[k] \in Vals07
    BY <2>1, <2>2, <2>3, RequestTypes
  <2>. HIDE DEF p
  <2>5. <<p>> \in Seq(Replies)
    BY <2>4
  <2>6. /\ wbuf' \in [Users -> Seq(Replies)] /\ rbuf' \in [Users -> Seq(Requests)]
        /\ state' \in [Users -> {"none", "REQ", "RES", "closed"}]
        /\ wbuf'[c] = <<p>> /\ rbuf'[c] = Tail(rbuf[c]) /\ state'[c] = "RES"
        /\ \A d \in Users : d # c => /\ wbuf'[d] = wbuf[d] /\ rbuf'[d] = rbuf[d]
                                     /\ state'[d] = state[d]
    BY <2>1, <2>2, <2>5 DEF PTypes
  <2>7. PTypes'
    <3>1. Len(rbuf'[c]) <= RBuf
      BY <1>2, <2>1, <2>6, PSizeAssumption, LenProperties DEF PTypes
    <3>2. \A d \in Users : Len(rbuf'[d]) <= RBuf
      BY <2>6, <3>1 DEF PTypes
    <3>. QED BY <2>2, <2>4, <2>6, <3>2 DEF PTypes
  <2>8. Serving' /\ NoResponse' /\ Backlog'
    <3>1. Serving'
      BY <1>1, <2>2, <2>6 DEF Serving
    <3>2. NoResponse'
      BY <2>6 DEF NoResponse
    <3>. QED BY <1>1, <2>2, <2>6, <3>1, <3>2, BacklogKept
  <2>9. OthersSame(c)
    BY <2>2, <2>6 DEF OthersSame, Pending, Answers, Gone07
  <2>10. Pending(c) = rbuf[c] \o inq[c] /\ Pending(c)' = Tail(rbuf[c]) \o inq[c]
    BY <1>1, <2>2, <2>6 DEF Pending
  <2>11. Gone07(c)' = Gone07(c)
    BY <2>2 DEF Gone07
  <2>12. Answers(c)' = IF Gone07(c) THEN Answers(c) ELSE Append(Answers(c), p)
    <3>1. got[c] \in Seq(Replies) /\ outq[c] \in Seq(Replies)
      BY DEF PTypes
    <3>2. (got[c] \o outq[c]) \o <<p>> = Append((got[c] \o outq[c]) \o <<>>, p)
      BY ONLY <3>1, <2>4, Answered, Zenon
    <3>3. CASE Gone07(c)
      BY <2>11, <3>3 DEF Answers
    <3>4. CASE ~Gone07(c)
      <4>1. Answers(c) = (got[c] \o outq[c]) \o <<>>
        BY <1>1, <3>4 DEF Answers
      <4>2. Answers(c)' = (got[c] \o outq[c]) \o <<p>>
        BY <2>2, <2>6, <2>11, <3>4 DEF Answers
      <4>. QED BY <3>2, <3>4, <4>1, <4>2, Zenon
    <3>. QED BY <3>3, <3>4
  <2>13. /\ Pending(c) # <<>> /\ Head(Pending(c)) = r /\ Pending(c)' = Tail(Pending(c))
    BY <2>1, <2>10, Zenon
  <2>14. Svc!KNext
    BY <2>2, <2>3, <2>9, <2>11, <2>12, <2>13, AnswerStep DEF p
  <2>. QED BY <2>7, <2>8, <2>14
<1>. QED BY <1>3, <1>4, <1>5

LEMMA FlushStep ==
  ASSUME PInv, Flush
  PROVE  PInv' /\ (Svc!KNext \/ UNCHANGED Svc!kvVars)
<1>. USE DEF PInv, Flush, userVars
<1>1. at \in Users /\ state[at] = "RES" /\ at \notin ready
  BY DEF Serving
<1>. PICK c \in Users : c = at
  BY <1>1
<1>2. CASE /\ outq' = [outq EXCEPT ![at] = @ \o wbuf[at]]
           /\ wbuf' = [wbuf EXCEPT ![at] = <<>>]
           /\ \/ ppc = "flush" /\ GoOn
              \/ ppc = "resume" /\ Return("REQ")
  <2>1. got[c] \in Seq(Replies) /\ outq[c] \in Seq(Replies) /\ wbuf[c] \in Seq(Replies)
    BY DEF PTypes
  <2>2. /\ outq[c] \o wbuf[c] \in Seq(Replies)
        /\ (got[c] \o (outq[c] \o wbuf[c])) \o <<>> = (got[c] \o outq[c]) \o wbuf[c]
    BY ONLY <2>1, Flushed
  <2>3. /\ outq' \in [Users -> Seq(Replies)] /\ wbuf' \in [Users -> Seq(Replies)]
        /\ outq'[c] = outq[c] \o wbuf[c] /\ wbuf'[c] = <<>>
        /\ \A d \in Users : d # c => outq'[d] = outq[d] /\ wbuf'[d] = wbuf[d]
    BY <1>2, <2>2 DEF PTypes
  <2>4. /\ state' = [state EXCEPT ![c] = "REQ"]
        /\ state'[c] = "REQ" /\ \A d \in Users : d # c => state'[d] = state[d]
    BY <1>2 DEF PTypes, GoOn, Return
  <2>5. PInv'
    <3>1. CASE Return("REQ")
      BY <1>1, <2>3, <3>1, ReturnInv
    <3>2. CASE GoOn
      <4>1. PTypes'
        BY <2>3, <2>4 DEF PTypes
      <4>2. Serving' /\ NoResponse'
        BY <1>1, <2>3, <2>4, <3>2 DEF Serving, NoResponse, GoOn
      <4>. QED BY <1>1, <2>4, <4>1, <4>2, BacklogKept
    <3>. QED BY <1>2, <3>1, <3>2
  <2>6. \A d \in Users : (got[d] \o outq'[d]) \o wbuf'[d] = (got[d] \o outq[d]) \o wbuf[d]
    BY <2>2, <2>3
  <2>7. \A d \in Users : Answers(d)' = Answers(d) /\ Gone07(d)' = Gone07(d)
    <3>1. got' = got /\ upc' = upc
      OBVIOUS
    <3>. QED BY ONLY <2>6, <3>1 DEF Answers, Gone07
  <2>8. \A d \in Users : Pending(d)' = Pending(d)
    BY <1>1, <2>4 DEF Pending
  <2>. QED BY <2>5, <2>7, <2>8, Stutter
<1>3. CASE Return("RES") /\ UNCHANGED <<outq, wbuf>>
  <2>1. PInv' /\ state'[c] = "RES" /\ \A d \in Users : d # c => state'[d] = state[d]
    BY <1>1, <1>3, ReturnInv DEF PTypes
  <2>2. UNCHANGED Svc!kvVars
    BY <1>1, <1>3, <2>1, Stutter DEF Pending, Answers, Gone07
  <2>. QED BY <2>1, <2>2
<1>4. CASE Gone07(at) /\ Return("END") /\ UNCHANGED <<outq, wbuf>>
  <2>1. PInv' /\ state'[c] = "closed" /\ \A d \in Users : d # c => state'[d] = state[d]
    BY <1>1, <1>4, ReturnInv DEF PTypes
  <2>2. OthersSame(c)
    BY <1>4, <2>1 DEF OthersSame, Pending, Answers, Gone07
  <2>3. Pending(c)' = <<>> /\ Answers(c)' = Answers(c) /\ Gone07(c)' = Gone07(c)
    BY <1>4, <2>1 DEF Pending, Answers, Gone07
  <2>. QED BY <1>4, <2>1, <2>2, <2>3, DropStep
<1>. QED BY <1>2, <1>3, <1>4

-----------------------------------------------------------------------------

LEMMA NextStep == PInv /\ [PNext]_pVars => PInv' /\ [Svc!KNext]_Svc!kvVars
<1>. SUFFICES ASSUME PInv, [PNext]_pVars PROVE PInv' /\ [Svc!KNext]_Svc!kvVars
  OBVIOUS
<1>1. CASE PServer
  BY <1>1, RoundStep, FillStep, ParseStep, FlushStep DEF PServer
<1>2. ASSUME NEW c \in Users, UConnect(c) \/ PUser(c)
      PROVE  PInv' /\ [Svc!KNext]_Svc!kvVars
  BY <1>2, ConnectStep, SendStep, SentStep, RecvStep, CloseStep DEF PUser
<1>3. CASE UNCHANGED pVars
  <2>. USE <1>3 DEF pVars, userVars, connVars, loopVars
  <2>1. PInv'
    BY DEF PInv, PTypes, Serving, NoResponse, Backlog
  <2>2. UNCHANGED Svc!kvVars
    BY Stutter DEF Pending, Answers, Gone07
  <2>. QED BY <2>1, <2>2
<1>. QED BY <1>1, <1>2, <1>3 DEF PNext

\* The server of stage 07 gives its clients one map: whatever they send and
\* however the loop interleaves their connections, each request is executed
\* once, in the order of its connection, and its reply, from the map of that
\* moment, reaches its client complete and in order.
THEOREM Implements == PSpec => ImplementsKvService
<1>1. PInit => PInv /\ Svc!KInit
  BY InitStep
<1>2. PInv /\ [PNext]_pVars => PInv' /\ [Svc!KNext]_Svc!kvVars
  BY NextStep
<1>. QED BY <1>1, <1>2, PTL DEF PSpec, ImplementsKvService, Svc!KSpec

-----------------------------------------------------------------------------
(* What the thread pool guarantees for any number of workers and any set   *)
(* of jobs.  Mutex and job ownership form one inductive invariant, PoolInv;    *)
(* work conservation is inductive relative to it.                          *)

\* What a thread's local Work holds at each point of its code.
WorkSlots ==
    /\ \A t \in Workers : (w[t] # None) <=> (pc[t] \in {"unlock", "work"})
    /\ (w[Main] # None) <=> (pc[Main] \in {"qlock", "push"})

PoolInv == TypeOK /\ MutualExclusion /\ WorkSlots

-----------------------------------------------------------------------------

\* Types, lock ownership and the contents of Work hold initially.
LEMMA PoolInitInv == Init => PoolInv
  BY ThreadAssumption, JobAssumption, SMT
  DEF Init, PoolInv, TypeOK, PcOK, MutualExclusion, InCritical, WorkSlots, Threads

\* ... and every step of worker() and thread_pool_queue() preserves them.
LEMMA PoolNextInv == PoolInv /\ [Next]_vars => PoolInv'
<1> SUFFICES ASSUME PoolInv, [Next]_vars PROVE PoolInv'
  OBVIOUS
<1> USE ThreadAssumption, JobAssumption, BoundAssumption
<1> USE DEF PoolInv, TypeOK, PcOK, MutualExclusion, InCritical, WorkSlots, Threads
<1>1. ASSUME NEW t \in Workers, Lock(t) PROVE PoolInv'
  BY <1>1 DEF Lock, Goto
<1>2. ASSUME NEW t \in Workers, Wait(t) PROVE PoolInv'
  BY <1>2 DEF Wait, Goto
<1>3. ASSUME NEW t \in Workers, SpuriousWakeup(t) PROVE PoolInv'
  BY <1>3 DEF SpuriousWakeup, Goto
<1>4. ASSUME NEW t \in Workers, Take(t) PROVE PoolInv'
  <2>1. /\ Head(queue) \in Jobs
        /\ Tail(queue) \in Seq(Jobs)
    BY <1>4, HeadTailProperties DEF Take
  <2>. QED
    BY <1>4, <2>1 DEF Take, Goto
<1>5. ASSUME NEW t \in Workers, Unlock(t) PROVE PoolInv'
  BY <1>5 DEF Unlock, Goto
<1>6. ASSUME NEW t \in Workers, DoWork(t) PROVE PoolInv'
  BY <1>6 DEF DoWork, Goto
<1>7. ASSUME NEW j \in Jobs, Post(j) PROVE PoolInv'
  BY <1>7 DEF Post, Goto
<1>8. CASE QLock
  BY <1>8 DEF QLock, Goto
<1>9. CASE Push
  <2>1. w[Main] \in Jobs
    BY <1>9 DEF Push
  <2>2. Append(queue, w[Main]) \in Seq(Jobs)
    BY <2>1
  <2>. QED
    BY <1>9, <2>2 DEF Push, Goto
<1>10. CASE Signal
  BY <1>10 DEF Signal, Waiters
<1>11. CASE QUnlock
  BY <1>11 DEF QUnlock, Goto
<1>12. CASE UNCHANGED vars
  BY <1>12 DEF vars
<1>. QED
  BY <1>1, <1>2, <1>3, <1>4, <1>5, <1>6, <1>7, <1>8, <1>9, <1>10, <1>11, <1>12
  DEF Next, Worker, Producer

LEMMA PoolInvariant == Spec => []PoolInv
  BY PoolInitInv, PoolNextInv, PTL DEF Spec

-----------------------------------------------------------------------------
(* Each job is run at most once *)

\* Before any call no job is anywhere.
LEMMA InitAtMostOnce == Init => AtMostOnce
  BY JobAssumption DEF Init, AtMostOnce

\* A job moves from the producer to the deque, to one worker, to the jobs
\* that ran, and leaves the place it comes from.
LEMMA NextAtMostOnce == PoolInv /\ AtMostOnce /\ [Next]_vars => AtMostOnce'
<1> SUFFICES ASSUME PoolInv, AtMostOnce, [Next]_vars PROVE AtMostOnce'
  OBVIOUS
<1> USE ThreadAssumption, JobAssumption DEF Threads
<1>0. /\ queue \in Seq(Jobs)
      /\ w \in [Threads -> Jobs \cup {None}]
      /\ ran \in [Jobs -> Nat]
  BY DEF PoolInv, TypeOK
<1>1. ASSUME UNCHANGED <<queue, w, ran>> PROVE AtMostOnce'
  BY <1>1 DEF AtMostOnce
<1>2. ASSUME NEW t \in Workers, Take(t) PROVE AtMostOnce'
  <2>1. /\ queue # <<>>
        /\ w' = [w EXCEPT ![t] = Head(queue)]
        /\ queue' = Tail(queue)
        /\ ran' = ran
    BY <1>2 DEF Take
  <2>2. /\ Len(queue) \in Nat \ {0} /\ DOMAIN queue = 1..Len(queue)
        /\ DOMAIN queue' = 1..(Len(queue) - 1)
        /\ \A i \in DOMAIN queue' : i + 1 \in DOMAIN queue /\ queue'[i] = queue[i + 1]
        /\ 1 \in DOMAIN queue /\ Head(queue) = queue[1] /\ queue[1] \in Jobs
    BY <1>0, <2>1
  <2>3. \A i, k \in DOMAIN queue' : queue'[i] = queue'[k] => i = k
    BY <2>2 DEF AtMostOnce
  <2>4. \A i \in DOMAIN queue' : queue'[i] # queue[1]
    BY <2>2 DEF AtMostOnce
  <2>5. \A u \in Threads : w[u] # queue[1]
    BY <2>2 DEF AtMostOnce
  <2>6. w' = [w EXCEPT ![t] = queue[1]] /\ ran[queue[1]] = 0
    BY <2>1, <2>2 DEF AtMostOnce
  <2>7. \A j \in Jobs : \A i \in DOMAIN queue' : queue'[i] = j => \E k \in DOMAIN queue : queue[k] = j
    BY <2>2
  <2>8. ASSUME NEW j \in Jobs, NEW u \in Threads, w'[u] = j
        PROVE  /\ ran[j] = 0
               /\ \A v \in Threads : w'[v] = j => v = u
               /\ \A i \in DOMAIN queue' : queue'[i] # j
    <3>1. CASE u = t
      BY <3>1, <2>8, <2>4, <2>5, <2>6, <1>0
    <3>2. CASE u # t
      <4>1. w[u] = j /\ j # queue[1]
        BY <3>2, <2>8, <2>5, <2>6, <1>0
      <4>. QED
        BY <4>1, <2>6, <2>7, <1>0 DEF AtMostOnce
    <3>. QED
      BY <3>1, <3>2
  <2>. QED
    BY <2>1, <2>3, <2>7, <2>8 DEF AtMostOnce
<1>3. ASSUME NEW t \in Workers, DoWork(t) PROVE AtMostOnce'
  <2>1. w[t] \in Jobs
    BY <1>3, <1>0 DEF DoWork, PoolInv, WorkSlots
  <2>. QED
    BY <2>1, <1>3, <1>0 DEF DoWork, AtMostOnce
<1>4. ASSUME NEW j \in Jobs, Post(j) PROVE AtMostOnce'
  BY <1>4, <1>0 DEF Post, Posted, AtMostOnce
<1>5. CASE Push
  <2>1. w[Main] \in Jobs
    BY <1>5, <1>0 DEF Push, PoolInv, WorkSlots
  <2>2. /\ Len(queue) \in Nat /\ DOMAIN queue = 1..Len(queue)
        /\ DOMAIN queue' = 1..(Len(queue) + 1)
        /\ \A i \in DOMAIN queue : queue'[i] = queue[i]
        /\ queue'[Len(queue) + 1] = w[Main]
    BY <1>5, <2>1, <1>0 DEF Push
  <2>3. ran' = ran /\ w' = [w EXCEPT ![Main] = None]
    BY <1>5 DEF Push
  <2>4. \A i \in DOMAIN queue' : i \in DOMAIN queue \/ i = Len(queue) + 1
    BY <2>2
  <2>5. \A i \in DOMAIN queue : queue[i] # w[Main]
    BY <2>1 DEF AtMostOnce
  <2>6. \A i, k \in DOMAIN queue' : queue'[i] = queue'[k] => i = k
    BY <2>2, <2>4, <2>5 DEF AtMostOnce
  <2>7. ASSUME NEW j \in Jobs, NEW u \in Threads, w'[u] = j
        PROVE  w[u] = j /\ j # w[Main]
    BY <2>1, <2>3, <2>7, <1>0 DEF AtMostOnce
  <2>. QED
    BY <2>1, <2>2, <2>3, <2>4, <2>6, <2>7, <1>0 DEF AtMostOnce
<1>. QED
  BY <1>1, <1>2, <1>3, <1>4, <1>5 DEF Next, Worker, Producer, Lock, Wait,
     SpuriousWakeup, Unlock, QLock, Signal, QUnlock, vars

-----------------------------------------------------------------------------
(* No worker sleeps on work it could do *)

LEMMA AwakeFinite == IsFiniteSet(Awake) /\ Cardinality(Awake) \in Nat
  BY ThreadAssumption, FS_Subset, FS_CardinalityType DEF Awake

\* The bound survives any step that wakes workers and leaves the deque alone.
LEMMA WakeMore ==
  ASSUME Awake \subseteq Awake', IsFiniteSet(Awake')
  PROVE  Cardinality(Awake) <= Cardinality(Awake')
  BY FS_Subset

LEMMA InitWork == Init => WorkConserving
  BY ThreadAssumption DEF Init, WorkConserving, Waiters, Threads

\* A take uses up one job and one awake worker, a push is excused until its
\* signal, and the signal wakes somebody if anybody sleeps.
LEMMA NextWork == PoolInv /\ PoolInv' /\ WorkConserving /\ [Next]_vars => WorkConserving'
<1> SUFFICES ASSUME PoolInv, PoolInv', WorkConserving, [Next]_vars PROVE WorkConserving'
  OBVIOUS
<1> USE ThreadAssumption, JobAssumption DEF Threads
<1>0. /\ queue \in Seq(Jobs) /\ Len(queue) \in Nat
      /\ DOMAIN pc = Threads
      /\ \A t \in Workers : pc[t] # "signal"
  <2>1. queue \in Seq(Jobs)
    BY DEF PoolInv, TypeOK
  <2>2. PcOK
    BY DEF PoolInv, TypeOK
  <2>3. DOMAIN pc = Threads /\ \A t \in Workers : pc[t] # "signal"
    BY <2>2 DEF PcOK
  <2>. QED
    BY <2>1, <2>3
<1>a. IsFiniteSet(Awake) /\ Cardinality(Awake) \in Nat
  BY AwakeFinite
<1>b. IsFiniteSet(Awake') /\ Cardinality(Awake') \in Nat
  BY FS_Subset, FS_CardinalityType DEF Awake
<1>c. Unsignalled \in Nat /\ Unsignalled' \in Nat
  BY DEF Unsignalled
<1>1. ASSUME Waiters' \subseteq Waiters, Awake \subseteq Awake',
             queue' = queue, Unsignalled' = Unsignalled
      PROVE  WorkConserving'
  <2>1. Cardinality(Awake) <= Cardinality(Awake')
    BY <1>1, <1>b, WakeMore
  <2>. QED
    BY <1>1, <2>1, <1>0, <1>a, <1>b, <1>c DEF WorkConserving
<1>2. ASSUME NEW t \in Workers, Lock(t) PROVE WorkConserving'
  BY <1>1, <1>2, <1>0 DEF Lock, Goto, Waiters, Awake, Unsignalled
<1>3. ASSUME NEW t \in Workers, Wait(t) PROVE WorkConserving'
  <2>1. Len(queue') = 0
    BY <1>3 DEF Wait
  <2>. QED
    BY <2>1, <1>b, <1>c DEF WorkConserving
<1>4. ASSUME NEW t \in Workers, SpuriousWakeup(t) PROVE WorkConserving'
  BY <1>1, <1>4, <1>0 DEF SpuriousWakeup, Goto, Waiters, Awake, Unsignalled
<1>5. ASSUME NEW t \in Workers, Take(t) PROVE WorkConserving'
  <2>1. Awake' = Awake \ {t} /\ t \in Awake /\ Waiters' = Waiters /\ Unsignalled' = Unsignalled
    BY <1>5, <1>0 DEF Take, Goto, Awake, Waiters, Unsignalled
  <2>2. Cardinality(Awake') = Cardinality(Awake) - 1
    BY <2>1, <1>a, FS_RemoveElement
  <2>3. Len(queue') = Len(queue) - 1
    BY <1>5, <1>0 DEF Take
  <2>. QED
    BY <2>1, <2>2, <2>3, <1>0, <1>a, <1>c DEF WorkConserving
<1>6. ASSUME NEW t \in Workers, Unlock(t) PROVE WorkConserving'
  BY <1>1, <1>6, <1>0 DEF Unlock, Goto, Waiters, Awake, Unsignalled
<1>7. ASSUME NEW t \in Workers, DoWork(t) PROVE WorkConserving'
  BY <1>1, <1>7, <1>0 DEF DoWork, Goto, Waiters, Awake, Unsignalled
<1>8. ASSUME NEW j \in Jobs, Post(j) PROVE WorkConserving'
  BY <1>1, <1>8, <1>0 DEF Post, Goto, Waiters, Awake, Unsignalled
<1>9. CASE QLock
  BY <1>1, <1>9, <1>0 DEF QLock, Goto, Waiters, Awake, Unsignalled
<1>10. CASE Push
  <2>1. Awake' = Awake /\ Waiters' = Waiters /\ Unsignalled = 0 /\ Unsignalled' = 1
    BY <1>10, <1>0 DEF Push, Goto, Awake, Waiters, Unsignalled
  <2>2. Len(queue') = Len(queue) + 1
    BY <1>10, <1>0 DEF Push
  <2>. QED
    BY <2>1, <2>2, <1>0, <1>a DEF WorkConserving
<1>11. CASE Signal
  <2>1. PICK S \in SUBSET Waiters :
           /\ S = {} => Waiters = {}
           /\ pc' = [t \in Threads |-> IF t = Main THEN "qunlock"
                                       ELSE IF t \in S THEN "lock" ELSE pc[t]]
    BY <1>11 DEF Signal
  <2>2. Unsignalled = 1 /\ Unsignalled' = 0 /\ queue' = queue
    BY <1>11, <2>1 DEF Signal, Unsignalled
  <2>3. Awake \subseteq Awake' /\ S \subseteq Awake' /\ S \cap Awake = {}
        /\ Waiters' = Waiters \ S
    BY <2>1, <1>0 DEF Awake, Waiters
  <2>4. CASE S = {}
    BY <2>1, <2>3, <2>4 DEF WorkConserving
  <2>5. CASE S # {}
    <3>1. PICK t \in S : TRUE
      BY <2>5
    <3>2. Cardinality(Awake \cup {t}) = Cardinality(Awake) + 1
      BY <3>1, <2>3, <1>a, FS_AddElement
    <3>3. Awake \cup {t} \subseteq Awake'
      BY <3>1, <2>3
    <3>4. Cardinality(Awake \cup {t}) <= Cardinality(Awake')
      BY <3>3, <1>b, FS_Subset
    <3>5. Waiters # {}
      BY <3>1
    <3>. QED
      BY <3>2, <3>4, <3>5, <2>2, <1>0, <1>a, <1>b DEF WorkConserving
  <2>. QED
    BY <2>4, <2>5
<1>12. CASE QUnlock
  BY <1>1, <1>12, <1>0 DEF QUnlock, Goto, Waiters, Awake, Unsignalled
<1>13. CASE UNCHANGED vars
  BY <1>1, <1>13 DEF vars, Waiters, Awake, Unsignalled
<1>. QED
  BY <1>2, <1>3, <1>4, <1>5, <1>6, <1>7, <1>8, <1>9, <1>10, <1>11, <1>12, <1>13
  DEF Next, Worker, Producer

-----------------------------------------------------------------------------
(* The pool implements the abstract queue of jobs *)

LEMMA PoolInitMaps == Init => Abstract!JInit
<1> SUFFICES ASSUME Init PROVE Abstract!JInit
  OBVIOUS
<1>1. InHand = {}
  BY JobAssumption DEF Init, InHand, Threads
<1>2. {j \in Jobs : ran[j] > 0} = {}
  BY DEF Init
<1>. QED
  BY <1>1, <1>2 DEF Init, Abstract!JInit

\* Push is the acceptance of a job, Take its start and DoWork its end; the
\* other steps change nothing that the abstract queue can see.
LEMMA PoolNextMaps == PoolInv /\ AtMostOnce /\ [Next]_vars => [Abstract!JNext]_(Abstract!jobVars)
<1> SUFFICES ASSUME PoolInv, AtMostOnce, [Next]_vars PROVE [Abstract!JNext]_(Abstract!jobVars)
  OBVIOUS
<1> USE ThreadAssumption, JobAssumption DEF Threads
<1> DEFINE Done == {j \in Jobs : ran[j] > 0}
<1>0. /\ queue \in Seq(Jobs)
      /\ w \in [Threads -> Jobs \cup {None}]
      /\ ran \in [Jobs -> Nat]
  BY DEF PoolInv, TypeOK
<1>1. ASSUME queue' = queue, ran' = ran, \A t \in Workers : w'[t] = w[t]
      PROVE  UNCHANGED Abstract!jobVars
  BY <1>1 DEF InHand, Abstract!jobVars
<1>2. ASSUME NEW t \in Workers, Take(t) PROVE Abstract!Start
  <2>1. Head(queue) \in Jobs
    BY <1>0, <1>2, HeadTailProperties DEF Take
  <2>2. w[t] = None
    BY <1>0, <1>2 DEF Take, PoolInv, WorkSlots
  <2>3. InHand' = InHand \cup {Head(queue)}
    BY <1>0, <1>2, <2>1, <2>2 DEF Take, InHand
  <2>. QED
    BY <1>2, <2>3 DEF Take, Abstract!Start
<1>3. ASSUME NEW t \in Workers, DoWork(t) PROVE \E j \in Jobs : Abstract!Finish(j)
  <2>1. w[t] \in Jobs
    BY <1>0, <1>3 DEF DoWork, PoolInv, WorkSlots
  <2>2. InHand' = InHand \ {w[t]} /\ w[t] \in InHand
    BY <1>0, <1>3, <2>1 DEF DoWork, InHand, AtMostOnce
  <2>3. Done' = Done \cup {w[t]}
    BY <1>0, <1>3, <2>1 DEF DoWork
  <2>. QED
    BY <1>3, <2>1, <2>2, <2>3 DEF DoWork, Abstract!Finish
<1>4. ASSUME Push PROVE \E j \in Jobs : Abstract!Accept(j)
  <2>1. w[Main] \in Jobs
    BY <1>0, <1>4 DEF Push, PoolInv, WorkSlots
  <2>2. w[Main] \notin Abstract!Known
    BY <1>0, <2>1 DEF AtMostOnce, InHand, Abstract!Known
  <2>3. InHand' = InHand /\ Done' = Done
    BY <1>0, <1>4 DEF Push, InHand
  <2>. QED
    BY <1>4, <2>1, <2>2, <2>3 DEF Push, Abstract!Accept
<1>5. CASE \E t \in Workers : Lock(t) \/ Wait(t) \/ SpuriousWakeup(t) \/ Unlock(t)
  BY <1>5, <1>1 DEF Lock, Wait, SpuriousWakeup, Unlock
<1>6. CASE \E j \in Jobs : Post(j)
  BY <1>6, <1>1, <1>0 DEF Post
<1>7. CASE QLock \/ Signal \/ QUnlock \/ UNCHANGED vars
  BY <1>7, <1>1 DEF QLock, Signal, QUnlock, vars
<1>. QED
  BY <1>2, <1>3, <1>4, <1>5, <1>6, <1>7 DEF Next, Worker, Producer, Abstract!JNext

-----------------------------------------------------------------------------
(* The theorems *)

\* Every variable keeps its type: Work.arg is a posted job or unset.
THEOREM PoolTypes == Spec => []TypeOK
  BY PoolInvariant, PTL DEF PoolInv

\* The deque and the condition variable are touched under tp->mu only, for
\* any number of workers.
THEOREM Exclusion == Spec => []MutualExclusion
  BY PoolInvariant, PTL DEF PoolInv

\* No Entry is destroyed twice or sits in two places at once, whatever the
\* number of workers and jobs.
THEOREM RunOnce == Spec => []AtMostOnce
  BY PoolInvariant, InitAtMostOnce, NextAtMostOnce, PTL DEF Spec

\* One signal per push is enough: no worker sleeps while a job that was
\* signalled has no awake worker to take it.
THEOREM NoLostWakeup == Spec => []WorkConserving
  BY PoolInvariant, InitWork, NextWork, PTL DEF Spec

\* The pool with its mutex and condition variable is an implementation of
\* the first-in first-out queue of jobs.
THEOREM PoolImplementsJobQueue == Spec => ImplementsJobQueue
<1>1. PoolInv /\ AtMostOnce /\ [Next]_vars => [Abstract!JNext]_(Abstract!jobVars)
  BY PoolNextMaps
<1>. QED
  BY <1>1, PoolInvariant, RunOnce, PoolInitMaps, PTL DEF Spec, ImplementsJobQueue, Abstract!JSpec
=============================================================================
