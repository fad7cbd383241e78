------------------------------ MODULE Protocol ------------------------------
(***************************************************************************)
(* The typed protocol of server/11 and its client: parse_req, the commands *)
(* with the out_ functions they answer with, the packing of the response,  *)
(* and client/11_client.cpp, which sends one command line and prints what  *)
(* on_response makes of the reply.                                         *)
(*                                                                         *)
(* A request or a response is a sequence of fields, each of some width; a  *)
(* sorted set is the sequence of its tuples in the order of the tree; a    *)
(* word is a string, with its length in Bytes.  Requests are executed one  *)
(* at a time, so one client at a time is enough: PollServer has many.  A   *)
(* command is written here in the one spelling of cmd_is's many.           *)
(***************************************************************************)
EXTENDS Integers, Sequences, SequencesExt

CONSTANTS Commands, Bytes, Lex, AsDouble, AsInt, KMaxMsg,  \* as in TypedStore
          KMaxArgs   \* k_max_args

VARIABLES db,       \* g_data.db: keys to entries
          stage,    \* of the exchange: idle, request, response, cut
          data,     \* the fields in flight
          printed   \* what the latest client has printed

tVars == <<db, stage, data, printed>>

TInit == db = <<>> /\ stage = "idle" /\ data = <<>> /\ printed = <<"none">>

Tag(t) == <<"tag", t>>
U32(n) == <<"u32", n>>
Word(w) == <<"bytes", w>>

Width(field) == CASE field[1] = "tag" -> 1
                  [] field[1] = "u32" -> 4
                  [] field[1] \in {"int", "dbl"} -> 8
                  [] field[1] = "bytes" -> Bytes[field[2]]

Size(fields) == FoldSeq(LAMBDA f, n : n + Width(f), 0, fields)

Counted(w) == <<U32(Bytes[w]), Word(w)>>
-----------------------------------------------------------------------------
(* the server's replies: the out_ functions *)

OutNil == <<Tag("nil")>>
OutStr(w) == <<Tag("str")>> \o Counted(w)
OutInt(n) == <<Tag("int"), <<"int", n>>>>
OutDbl(x) == <<Tag("dbl"), <<"dbl", x>>>>
OutErr(code, text) == <<Tag("err"), U32(code)>> \o Counted(text)
OutArr(n) == <<Tag("arr"), U32(n)>>
OutUpdateArr_Not(out, n) == out
OutUpdateArr(out, n) == [out EXCEPT ![2] = U32(n)]

ErrType(text) == OutErr(3, text)
ErrArg(text) == OutErr(4, text)
-----------------------------------------------------------------------------
(* sorted sets: sequences of tuples <<score, name>> *)

Zless(t, s, n) == t[1] < s \/ (t[1] = s /\ Lex[t[2]] < Lex[n])

TreeAdd(z, s, n) == SelectSeq(z, LAMBDA t : Zless(t, s, n)) \o <<<<s, n>>>>
                    \o SelectSeq(z, LAMBDA t : ~Zless(t, s, n))

Without(z, n) == SelectSeq(z, LAMBDA t : t[2] # n)

Scored(z, n) == {t[1] : t \in {u \in Range(z) : u[2] = n}}

ZSetAdd(z, s, n) == IF s \in Scored(z, n) THEN z ELSE TreeAdd(Without(z, n), s, n)

\* where zset_query ends in z; 0 is NULL
ZSetQuery(z, s, n, offset) ==
  LET i == SelectInSeq(z, LAMBDA t : ~Zless(t, s, n))
  IN  IF i # 0 /\ i + offset \in DOMAIN z THEN i + offset ELSE 0
-----------------------------------------------------------------------------
(* the commands: each gives a reply and the key space after it *)

Result(out) == [out |-> out, db |-> db]

Put(k, entry) == [i \in DOMAIN db \cup {k} |-> IF i = k THEN entry ELSE db[i]]

Has(k, type) == k \in DOMAIN db /\ db[k].type = type

DoGet(k) == IF k \notin DOMAIN db THEN Result(OutNil)
            ELSE IF Has(k, "T_ZSET") THEN Result(ErrType("expect string type"))
            ELSE Result(OutStr(db[k].val))

DoSet(k, v) == IF Has(k, "T_ZSET") THEN Result(ErrType("expect string type"))
               ELSE [out |-> OutNil, db |-> Put(k, [type |-> "T_STR", val |-> v])]

DoDel(k) == [out |-> OutInt(IF k \in DOMAIN db THEN 1 ELSE 0),
             db |-> [i \in DOMAIN db \ {k} |-> db[i]]]

\* order is the order of the keys in the two tables
DoKeys(order) == Result(OutArr(Len(order)) \o FlattenSeq([i \in DOMAIN order |-> OutStr(order[i])]))

DoZadd(k, s, n) ==
  IF s \notin DOMAIN AsDouble THEN Result(ErrArg("expect fp number"))
  ELSE IF Has(k, "T_STR") THEN Result(ErrType("expect zset"))
  ELSE LET z == IF k \in DOMAIN db THEN db[k].zset ELSE <<>>
       IN  [out |-> OutInt(IF Scored(z, n) = {} THEN 1 ELSE 0),
            db |-> Put(k, [type |-> "T_ZSET", zset |-> ZSetAdd(z, AsDouble[s], n)])]

\* expect_zset's two replies when k is not a sorted set
NotZset(k) == IF k \in DOMAIN db THEN Result(ErrType("expect zset")) ELSE Result(OutNil)

DoZrem(k, n) ==
  IF ~Has(k, "T_ZSET") THEN NotZset(k)
  ELSE [out |-> OutInt(IF Scored(db[k].zset, n) = {} THEN 0 ELSE 1),
        db |-> Put(k, [type |-> "T_ZSET", zset |-> Without(db[k].zset, n)])]

DoZscore(k, n) ==
  IF ~Has(k, "T_ZSET") THEN NotZset(k)
  ELSE Result(IF Scored(db[k].zset, n) = {} THEN OutNil
             ELSE OutDbl(CHOOSE s \in Scored(db[k].zset, n) : TRUE))

\* the output loop of zquery: what it writes from tuple i on, n items being
\* there, and how many items are there at the end
Output(z, from, limit) ==
  LET Loop[i \in from..(Len(z) + 1)] ==
        LET n == 2 * (i - from)
        IN  IF i > Len(z) \/ n >= limit THEN [out |-> <<>>, n |-> n]
            ELSE [out |-> OutStr(z[i][2]) \o OutDbl(z[i][1]) \o Loop[i + 1].out,
                  n |-> Loop[i + 1].n]
  IN  IF from = 0 THEN [out |-> <<>>, n |-> 0] ELSE Loop[from]

DoZquery(k, s, n, offset, limit) ==
  IF s \notin DOMAIN AsDouble THEN Result(ErrArg("expect fp number"))
  ELSE IF offset \notin DOMAIN AsInt \/ limit \notin DOMAIN AsInt THEN Result(ErrArg("expect int"))
  ELSE IF k \notin DOMAIN db THEN Result(OutArr(0))
  ELSE IF Has(k, "T_STR") THEN NotZset(k)
  ELSE IF AsInt[limit] <= 0 THEN Result(OutArr(0))
  ELSE LET z == db[k].zset
           items == Output(z, ZSetQuery(z, AsDouble[s], n, AsInt[offset]), AsInt[limit])
       IN  Result(OutUpdateArr(OutArr(0) \o items.out, items.n))

Is(cmd, word, n) == Len(cmd) = n /\ cmd[1] = word

DoRequest(cmd, order) ==
  CASE Is(cmd, "keys", 1) -> DoKeys(order)
    [] Is(cmd, "get", 2) -> DoGet(cmd[2])
    [] Is(cmd, "set", 3) -> DoSet(cmd[2], cmd[3])
    [] Is(cmd, "del", 2) -> DoDel(cmd[2])
    [] Is(cmd, "zadd", 4) -> DoZadd(cmd[2], cmd[3], cmd[4])
    [] Is(cmd, "zrem", 3) -> DoZrem(cmd[2], cmd[3])
    [] Is(cmd, "zscore", 3) -> DoZscore(cmd[2], cmd[3])
    [] Is(cmd, "zquery", 6) -> DoZquery(cmd[2], cmd[3], cmd[4], cmd[5], cmd[6])
    [] OTHER -> Result(OutErr(1, "Unknown cmd"))
-----------------------------------------------------------------------------
(* try_one_request *)

\* parse_req: as many words as the count says and nothing after them
ParseReq(fields) ==
  LET n == fields[1][2]
      ok == /\ n <= KMaxArgs
            /\ Len(fields) = 1 + 2 * n
            /\ \A i \in 1..n : fields[2 * i] = U32(Bytes[fields[2 * i + 1][2]])
  IN  [ok |-> ok, cmd |-> IF ok THEN [i \in 1..n |-> fields[2 * i + 1][2]] ELSE <<>>]

Pack_Unchecked(out) == out

Pack(out) == IF 4 + Size(out) > KMaxMsg THEN OutErr(2, "response is too big") ELSE out

TryOneRequest ==
  /\ stage = "request"
  /\ LET req == ParseReq(data) IN
       \/ /\ ~req.ok
          /\ stage' = "cut" /\ data' = <<>>
          /\ UNCHANGED db
       \/ /\ req.ok
          /\ \E order \in SetToSeqs(DOMAIN db) :
               LET r == DoRequest(req.cmd, order)
               IN  db' = r.db /\ data' = Pack(r.out)
          /\ stage' = "response"
  /\ UNCHANGED printed
-----------------------------------------------------------------------------
(* the client *)

Encode(cmd, n) == <<U32(n)>> \o FlattenSeq([i \in DOMAIN cmd |-> Counted(cmd[i])])

SendReq(cmd) ==
  /\ stage = "idle"
  /\ \/ /\ Size(Encode(cmd, Len(cmd))) > KMaxMsg
        /\ UNCHANGED <<stage, data>>
     \/ /\ Size(Encode(cmd, Len(cmd))) <= KMaxMsg
        /\ stage' = "request" /\ data' = Encode(cmd, Len(cmd))
  /\ printed' = <<"none">>
  /\ UNCHANGED db

\* some other program counts one word too few or too many
SendJunk(cmd) ==
  /\ stage = "idle"
  /\ \E n \in {Len(cmd) - 1, Len(cmd) + 1} \cap Nat : data' = Encode(cmd, n)
  /\ stage' = "request"
  /\ printed' = <<"none">>
  /\ UNCHANGED db

\* on_response for k values in a row from field p of d on: the values, and the
\* field after them, or 0 when the reply is bad
OnResponse(d, kAll) ==
  LET bad == [vals |-> <<>>, next |-> 0]
      Values[k \in 0..Len(d), p \in 1..(Len(d) + 1)] ==
        LET field(i) == IF p + i \in DOMAIN d THEN d[p + i] ELSE <<"end", 0>>
            fits(i) == field(i)[1] = "bytes" /\ field(i - 1) = U32(Bytes[field(i)[2]])
            items == Values[field(1)[2], p + 2]
            then(v, next) == LET rest == Values[k - 1, next]
                             IN  IF rest.next = 0 THEN bad
                                 ELSE [vals |-> <<v>> \o rest.vals, next |-> rest.next]
        IN  CASE k = 0 -> [vals |-> <<>>, next |-> p]
              [] k > 0 /\ field(0) = Tag("nil") -> then(<<"nil">>, p + 1)
              [] k > 0 /\ field(0) = Tag("err") /\ fits(3) -> then(<<"err", field(3)[2]>>, p + 4)
              [] k > 0 /\ field(0) = Tag("str") /\ fits(2) -> then(<<"str", field(2)[2]>>, p + 3)
              [] k > 0 /\ field(0) = Tag("int") -> then(<<"int", field(1)[2]>>, p + 2)
              [] k > 0 /\ field(0) = Tag("dbl") -> then(<<"dbl", field(1)[2]>>, p + 2)
              [] k > 0 /\ field(0) = Tag("arr") /\ field(1)[2] <= Len(d) /\ items.next # 0 ->
                   then(<<"arr", items.vals>>, items.next)
              [] OTHER -> bad
  IN  Values[kAll, 1]

\* read_res: the length, one value, and nothing after it
ReadRes(d) == LET r == OnResponse(d, 1)
              IN  IF Size(d) > KMaxMsg THEN <<"too long">>
                  ELSE IF r.next # Len(d) + 1 THEN <<"bad response">>
                  ELSE r.vals[1]

Receive == /\ stage \in {"response", "cut"}
           /\ printed' = IF stage = "cut" THEN <<"none">> ELSE ReadRes(data)
           /\ stage' = "idle" /\ data' = <<>>
           /\ UNCHANGED db

TNext == \/ TryOneRequest \/ Receive
         \/ \E cmd \in Commands : SendReq(cmd) \/ SendJunk(cmd)

TSpec == TInit /\ [][TNext]_tVars
-----------------------------------------------------------------------------
Typed == INSTANCE TypedStore WITH
  kv <- [k \in DOMAIN db |->
           IF db[k].type = "T_STR" THEN <<"str", db[k].val>>
           ELSE <<"zset", [n \in {t[2] : t \in Range(db[k].zset)} |->
                             CHOOSE s \in Scored(db[k].zset, n) : TRUE]>>],
  asked <- IF stage = "request"
           THEN IF ParseReq(data).ok THEN <<"cmd", ParseReq(data).cmd>> ELSE <<"junk">>
           ELSE IF stage = "cut" THEN <<"junk">> ELSE <<"none">>,
  told <- IF stage = "response" THEN ReadRes(data) ELSE printed

\* To every command line the client prints the value that the map of keys to
\* strings and sorted sets gives for it: the fields that the out_ functions
\* write are the fields on_response reads, the array of zquery counts what
\* follows it, and a reply that is too big is replaced by one that fits.
ImplementsTypedStore == Typed!TSSpec
=============================================================================
