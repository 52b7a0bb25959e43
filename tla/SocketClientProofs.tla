------------------------- MODULE SocketClientProofs -------------------------
(***************************************************************************)
(* SocketClient: every request is given its own response, and FlushSync is  *)
(* a barrier for the CheckTx calls queued before it.                        *)
(***************************************************************************)
EXTENDS SocketClient, SequenceTheorems, TLAPS

Msg == Callers \cup {"flushSync", "recheck", "flushAsync", "timerFlush", "none"}

(***************************************************************************)
(* The sequences: what is read and not delivered, what is taken and not     *)
(* written, and everything in between, first sent first.                    *)
(***************************************************************************)
Reading == IF recvPc = "deliver" THEN <<recvd>> ELSE <<>>
Writing == IF sendPc = "write" THEN <<taken>> ELSE <<>>
Between == back \o (sbuf \o (wire \o wbuf))
Sent == Reading \o Between
Flight == Sent \o Writing

SocketType ==
  /\ reqQueue \in Seq(Msg) /\ reqSent \in Seq(Msg)
  /\ back \in Seq(Msg) /\ sbuf \in Seq(Msg) /\ wire \in Seq(Msg) /\ wbuf \in Seq(Msg)
  /\ taken \in Msg /\ recvd \in Msg

(***************************************************************************)
(* The responses still to come are those of the first requests of reqSent:  *)
(* of all of them until the send routine loses one.                         *)
(***************************************************************************)
Sending == sendPc \in {"select", "willSend", "write", "flushTimer"}

InStep ==
  /\ \E lost \in Seq(Msg) : reqSent = Flight \o lost
  /\ Sending => reqSent = Flight

OrderInv ==
  /\ SocketType
  /\ ~ panicked => InStep
  /\ OwnResponse

-----------------------------------------------------------------------------
(***************************************************************************)
(* Sequences.                                                               *)
(***************************************************************************)
LEMMA HeadFirst ==
  ASSUME NEW S, NEW s \in Seq(S), s # <<>>
  PROVE  /\ Head(s) \in S /\ Tail(s) \in Seq(S) /\ s = <<Head(s)>> \o Tail(s)
<1>1. Head(s) \in S /\ Tail(s) \in Seq(S) /\ Len(Tail(s)) = Len(s) - 1
      /\ \A i \in 1 .. Len(Tail(s)) : Tail(s)[i] = s[i + 1]
  BY HeadTailProperties
<1>2. <<Head(s)>> \in Seq(S) /\ Len(<<Head(s)>>) = 1 /\ <<Head(s)>>[1] = Head(s)
  BY <1>1
<1> DEFINE t == <<Head(s)>> \o Tail(s)
<1>3. t \in Seq(S) /\ Len(t) = 1 + Len(Tail(s))
      /\ \A i \in 1 .. 1 + Len(Tail(s)) : t[i] = IF i <= 1 THEN <<Head(s)>>[i] ELSE Tail(s)[i - 1]
  BY <1>1, <1>2, ConcatProperties
<1> HIDE DEF t
<1>4. Len(s) \in Nat /\ Len(s) >= 1 /\ Head(s) = s[1]
  BY EmptySeq, LenProperties
<1>5. \A i \in 1 .. Len(s) : t[i] = s[i]
  BY <1>1, <1>2, <1>3, <1>4
<1>6. Len(t) = Len(s)
  BY <1>1, <1>3, <1>4
<1> QED
  BY <1>1, <1>3, <1>5, <1>6, SeqEqual DEF t

LEMMA ConsProperties ==
  ASSUME NEW S, NEW x \in S, NEW s \in Seq(S)
  PROVE  /\ <<x>> \o s \in Seq(S) /\ <<x>> \o s # <<>>
         /\ Head(<<x>> \o s) = x /\ Tail(<<x>> \o s) = s
<1> DEFINE t == <<x>> \o s
<1>1. <<x>> \in Seq(S) /\ Len(<<x>>) = 1 /\ <<x>>[1] = x
  OBVIOUS
<1>2. Len(s) \in Nat
  BY LenProperties
<1>3. t \in Seq(S) /\ Len(t) = 1 + Len(s)
      /\ \A i \in 1 .. 1 + Len(s) : t[i] = IF i <= 1 THEN <<x>>[i] ELSE s[i - 1]
  BY <1>1, ConcatProperties
<1> HIDE DEF t
<1>4. t # <<>>
  BY <1>2, <1>3, EmptySeq
<1>5. Head(t) = x
  BY <1>1, <1>2, <1>3
<1>6. Tail(t) \in Seq(S) /\ Len(Tail(t)) = Len(s) /\ \A i \in 1 .. Len(Tail(t)) : Tail(t)[i] = t[i + 1]
  BY <1>2, <1>3, <1>4, HeadTailProperties
<1>7. \A i \in 1 .. Len(s) : Tail(t)[i] = s[i]
  BY <1>2, <1>3, <1>6
<1>8. Tail(t) = s
  BY <1>6, <1>7, SeqEqual
<1> QED
  BY <1>3, <1>4, <1>5, <1>8 DEF t

LEMMA Closed ==
  /\ \A i, j \in Seq(Msg) : i \o j \in Seq(Msg)
  /\ <<>> \in Seq(Msg) /\ \A i \in Seq(Msg) : i \o <<>> = i /\ <<>> \o i = i
  /\ \A x \in Msg : <<x>> \in Seq(Msg)
<1>1. \A i, j \in Seq(Msg) : i \o j \in Seq(Msg)
  BY ConcatProperties
<1>2. <<>> \in Seq(Msg) /\ \A i \in Seq(Msg) : i \o <<>> = i /\ <<>> \o i = i
  BY EmptySeq, ConcatEmptySeq
<1>3. \A x \in Msg : <<x>> \in Seq(Msg)
  OBVIOUS
<1> QED
  BY <1>1, <1>2, <1>3

(***************************************************************************)
(* Associativity, with its instances named: the provers need to be told     *)
(* which ones to take.                                                      *)
(***************************************************************************)
Assoc(i, j, k) == (i \o j) \o k = i \o (j \o k)

LEMMA Associative ==
  \A i, j, k \in Seq(Msg) : Assoc(i, j, k)
BY ConcatAssociative DEF Assoc

LEMMA Appended ==
  \A i \in Seq(Msg), x \in Msg : Append(i, x) = i \o <<x>> /\ Append(i, x) \in Seq(Msg)
BY AppendIsConcat, AppendProperties

(***************************************************************************)
(* An element written, buffered or passed on does not change the order.     *)
(***************************************************************************)
WriteAdds(r, b, s, w, u, x) ==
  /\ r \o (b \o (s \o (w \o Append(u, x)))) = (r \o (b \o (s \o (w \o u)))) \o <<x>>
  /\ r \o (b \o (s \o (Append(w \o u, x) \o <<>>))) = (r \o (b \o (s \o (w \o u)))) \o <<x>>

LEMMA Written ==
  ASSUME NEW r \in Seq(Msg), NEW b \in Seq(Msg), NEW s \in Seq(Msg), NEW w \in Seq(Msg),
         NEW u \in Seq(Msg), NEW x \in Msg
  PROVE  WriteAdds(r, b, s, w, u, x)
<1> DEFINE y == <<x>>
           v == w \o u
           z == v \o y
<1>0. Append(u, x) = u \o y
  BY Appended
<1>1. y \in Seq(Msg)
  OBVIOUS
<1>2. v \in Seq(Msg)
  BY Closed, Zenon
<1>3. Append(v, x) = z
  BY <1>2, Appended, Zenon
<1>4. w \o (u \o y) = z
  <2>1. Assoc(w, u, y)
    BY <1>1, Associative, Zenon
  <2> QED
    BY <2>1 DEF Assoc
<1> HIDE DEF y, v
<1>5. z \in Seq(Msg)
  BY <1>1, <1>2, Closed, Zenon
<1>6. z \o <<>> = z
  BY <1>5, Closed, Zenon
<1>7. s \o z = (s \o v) \o y
  <2>1. Assoc(s, v, y)
    BY <1>1, <1>2, Associative, Zenon
  <2> QED
    BY <2>1 DEF Assoc
<1>8. s \o v \in Seq(Msg)
  BY <1>2, Closed, Zenon
<1>9. b \o ((s \o v) \o y) = (b \o (s \o v)) \o y
  <2>1. Assoc(b, s \o v, y)
    BY <1>1, <1>8, Associative, Zenon
  <2> QED
    BY <2>1 DEF Assoc
<1>10. b \o (s \o v) \in Seq(Msg)
  BY <1>8, Closed, Zenon
<1>11. r \o ((b \o (s \o v)) \o y) = (r \o (b \o (s \o v))) \o y
  <2>1. Assoc(r, b \o (s \o v), y)
    BY <1>1, <1>10, Associative, Zenon
  <2> QED
    BY <2>1 DEF Assoc
<1>12. r \o (b \o (s \o z)) = (r \o (b \o (s \o v))) \o y
  BY <1>7, <1>9, <1>11
<1> HIDE DEF z
<1>13. w \o Append(u, x) = z /\ Append(w \o u, x) \o <<>> = z
  BY <1>0, <1>3, <1>4, <1>6 DEF v
<1> QED
  BY <1>12, <1>13 DEF v, y, WriteAdds

AnswerKeeps(b, s, w, u) ==
  /\ Append(s, Head(w)) \o (Tail(w) \o u) = s \o (w \o u)
  /\ Append(b \o s, Head(w)) \o (<<>> \o (Tail(w) \o u)) = b \o (s \o (w \o u))

LEMMA Answered ==
  ASSUME NEW b \in Seq(Msg), NEW s \in Seq(Msg), NEW w \in Seq(Msg), NEW u \in Seq(Msg), w # <<>>
  PROVE  AnswerKeeps(b, s, w, u)
<1> DEFINE h == Head(w)
           y == <<h>>
           t == Tail(w)
           tu == t \o u
           bs == b \o s
<1>0. h \in Msg /\ w = y \o t
  BY HeadFirst
<1>1. t \in Seq(Msg) /\ y \in Seq(Msg)
  BY <1>0, HeadFirst
<1>2. bs \in Seq(Msg)
  BY Closed, Zenon
<1>3. Append(s, h) = s \o y /\ Append(bs, h) = bs \o y
  BY <1>0, <1>2, Appended, Zenon
<1> HIDE DEF h, y, t
<1>4. tu \in Seq(Msg)
  BY <1>1, Closed, Zenon
<1>4a. (y \o t) \o u = y \o tu
  <2>1. Assoc(y, t, u)
    BY <1>1, Associative, Zenon
  <2> QED
    BY <2>1 DEF Assoc
<1> DEFINE v == y \o tu
<1> HIDE DEF tu
<1>5. v \in Seq(Msg)
  BY <1>1, <1>4, Closed, Zenon
<1>6. (s \o y) \o tu = s \o v
  <2>1. Assoc(s, y, tu)
    BY <1>1, <1>4, Associative, Zenon
  <2> QED
    BY <2>1 DEF Assoc
<1>7. (bs \o y) \o tu = bs \o v
  <2>1. Assoc(bs, y, tu)
    BY <1>1, <1>2, <1>4, Associative, Zenon
  <2> QED
    BY <2>1 DEF Assoc
<1>8. <<>> \o tu = tu
  BY <1>4, Closed, Zenon
<1> HIDE DEF v
<1>9. bs \o v = b \o (s \o v)
  <2>1. Assoc(b, s, v)
    BY <1>5, Associative, Zenon
  <2> QED
    BY <2>1 DEF Assoc
<1> HIDE DEF bs
<1>10. w \o u = v
  BY <1>0, <1>4a DEF v
<1>11. Append(s, h) \o tu = s \o (w \o u)
  BY <1>3, <1>6, <1>10
<1>12. Append(bs, h) \o (<<>> \o tu) = b \o (s \o (w \o u))
  BY <1>3, <1>7, <1>8, <1>9, <1>10
<1> QED
  BY <1>11, <1>12 DEF h, t, tu, bs, AnswerKeeps

FirstOut(x, s, w, l) ==
  LET q == ((<<x>> \o s) \o w) \o l
  IN  q # <<>> /\ Head(q) = x /\ Tail(q) = (s \o w) \o l

LEMMA Received ==
  ASSUME NEW x \in Msg, NEW s \in Seq(Msg), NEW w \in Seq(Msg), NEW l \in Seq(Msg)
  PROVE  FirstOut(x, s, w, l)
<1>1. <<x>> \in Seq(Msg) /\ s \o w \in Seq(Msg) /\ (s \o w) \o l \in Seq(Msg)
  BY Closed, Zenon
<1>2. Assoc(<<x>>, s, w) /\ Assoc(<<x>>, s \o w, l)
  BY <1>1, Associative, Zenon
<1> DEFINE t == (s \o w) \o l
<1>3. ((<<x>> \o s) \o w) \o l = <<x>> \o t
  BY <1>2 DEF Assoc
<1>4. t \in Seq(Msg)
  BY <1>1
<1> HIDE DEF t
<1>5. <<x>> \o t # <<>> /\ Head(<<x>> \o t) = x /\ Tail(<<x>> \o t) = t
  BY <1>4, ConsProperties
<1>6. LET q == ((<<x>> \o s) \o w) \o l IN q # <<>> /\ Head(q) = x /\ Tail(q) = t
  BY <1>3, <1>5
<1> QED
  BY <1>6 DEF t, FirstOut

-----------------------------------------------------------------------------
LEMMA FlightType ==
  ASSUME NEW r \in Seq(Msg), NEW b \in Seq(Msg), NEW s \in Seq(Msg), NEW w \in Seq(Msg),
         NEW u \in Seq(Msg), NEW x \in Seq(Msg)
  PROVE  /\ b \o (s \o (w \o u)) \in Seq(Msg)
         /\ r \o (b \o (s \o (w \o u))) \in Seq(Msg)
         /\ (r \o (b \o (s \o (w \o u)))) \o x \in Seq(Msg)
<1>1. w \o u \in Seq(Msg)
  BY Closed, Zenon
<1>2. s \o (w \o u) \in Seq(Msg)
  BY <1>1, Closed, Zenon
<1>3. b \o (s \o (w \o u)) \in Seq(Msg)
  BY <1>2, Closed, Zenon
<1>4. r \o (b \o (s \o (w \o u))) \in Seq(Msg)
  BY <1>3, Closed, Zenon
<1>5. (r \o (b \o (s \o (w \o u)))) \o x \in Seq(Msg)
  BY <1>4, Closed, Zenon
<1> QED
  BY <1>3, <1>4, <1>5

LEMMA Typed ==
  ASSUME SocketType
  PROVE  /\ Reading \in Seq(Msg) /\ Writing \in Seq(Msg) /\ Between \in Seq(Msg)
         /\ Sent \in Seq(Msg) /\ Flight \in Seq(Msg)
<1>1. Reading \in Seq(Msg) /\ Writing \in Seq(Msg)
  <2>1. recvd \in Msg /\ taken \in Msg
    BY DEF SocketType
  <2> QED
    BY <2>1, Closed, Zenon DEF Reading, Writing
<1>2. back \in Seq(Msg) /\ sbuf \in Seq(Msg) /\ wire \in Seq(Msg) /\ wbuf \in Seq(Msg)
  BY DEF SocketType
<1> QED
  BY <1>1, <1>2, FlightType, Zenon DEF Between, Sent, Flight

(***************************************************************************)
(* A step that keeps everything in flight and the sent requests.            *)
(***************************************************************************)
LEMMA SameFlight ==
  ASSUME OrderInv, SocketType', Flight' = Flight, UNCHANGED <<reqSent, mismatch, panicked>>,
         Sending' => Sending
  PROVE  OrderInv'
BY DEF OrderInv, InStep, OwnResponse

LEMMA QuietOrder ==
  ASSUME OrderInv, UNCHANGED <<back, sbuf, wire, wbuf, recvd, reqSent, mismatch, panicked>>,
         reqQueue' \in Seq(Msg), taken' \in Msg,
         recvPc' = "deliver" <=> recvPc = "deliver",
         sendPc' # "write", sendPc # "write", Sending' => Sending
  PROVE  OrderInv'
<1>1. SocketType'
  BY DEF OrderInv, SocketType
<1>2. Flight' = Flight
  BY DEF Flight, Sent, Between, Reading, Writing
<1> QED
  BY <1>1, <1>2, SameFlight

(***************************************************************************)
(* Steps of others, while the send routine may be anywhere.                 *)
(***************************************************************************)
LEMMA OthersOrder ==
  ASSUME OrderInv, UNCHANGED <<sendPc, taken, back, sbuf, wire, wbuf, recvd, reqSent, mismatch, panicked>>,
         reqQueue' \in Seq(Msg), recvPc' = "deliver" <=> recvPc = "deliver"
  PROVE  OrderInv'
<1>1. SocketType'
  BY DEF OrderInv, SocketType
<1>2. Flight' = Flight
  BY DEF Flight, Sent, Between, Reading, Writing
<1> QED
  BY <1>1, <1>2, SameFlight DEF Sending

LEMMA WillSendOrder ==
  ASSUME OrderInv, ~ panicked, WillSendReq
  PROVE  OrderInv'
<1>1. /\ reqSent' = Append(reqSent, taken) /\ sendPc = "willSend" /\ sendPc' = "write"
      /\ UNCHANGED <<back, sbuf, wire, wbuf, taken, recvd, recvPc, reqQueue, mismatch, panicked>>
  BY DEF WillSendReq, recvRtn, server, results, service
<1>2. taken \in Msg /\ reqSent \in Seq(Msg)
  BY DEF OrderInv, SocketType
<1>3. reqSent' \in Seq(Msg) /\ reqSent' = reqSent \o <<taken>>
  BY <1>1, <1>2, Appended, Zenon
<1>4. SocketType'
  BY <1>1, <1>3 DEF OrderInv, SocketType
<1>5. Sent' = Sent /\ Writing' = <<taken>> /\ Writing = <<>>
  BY <1>1 DEF Sent, Between, Reading, Writing
<1>6. reqSent = Flight
  BY <1>1 DEF OrderInv, InStep, Sending
<1>7. Flight = Sent
  <2>1. Sent \in Seq(Msg)
    BY Typed DEF OrderInv
  <2> QED
    BY <1>5, <2>1, Closed, Zenon DEF Flight
<1>8. reqSent' = Flight'
  BY <1>3, <1>5, <1>6, <1>7 DEF Flight
<1>9. reqSent' \o <<>> = reqSent' /\ <<>> \in Seq(Msg)
  BY <1>3, Closed, Zenon
<1> QED
  BY <1>1, <1>4, <1>8, <1>9 DEF OrderInv, InStep, OwnResponse

LEMMA WriteOrder ==
  ASSUME OrderInv, ~ panicked, WriteBuffered \/ WriteThrough
  PROVE  OrderInv'
<1>1. /\ UNCHANGED <<back, sbuf, reqSent, recvd, recvPc, reqQueue, mismatch, panicked>>
      /\ sendPc = "write" /\ taken' = "none" /\ sendPc' \in {"select", "stopErr"}
  BY DEF WriteBuffered, WriteThrough, recvRtn, server, results, service
<1>2. taken \in Msg /\ back \in Seq(Msg) /\ sbuf \in Seq(Msg) /\ wire \in Seq(Msg) /\ wbuf \in Seq(Msg)
  BY DEF OrderInv, SocketType
<1>3. Reading \in Seq(Msg) /\ Sent \in Seq(Msg) /\ Reading' = Reading
  BY <1>1, Typed DEF OrderInv, Reading
<1>4. reqSent = Flight /\ Flight = Sent \o <<taken>> /\ Writing' = <<>>
  BY <1>1 DEF OrderInv, InStep, Sending, Flight, Writing
<1>5. taken' \in Msg
  BY <1>1 DEF Msg
<1>6. CASE \/ wbuf' = Append(wbuf, taken) /\ wire' = wire
           \/ wire' = Append(wire \o wbuf, taken) /\ wbuf' = <<>>
  <2>1. wire' \in Seq(Msg) /\ wbuf' \in Seq(Msg)
    <3>1. wire \o wbuf \in Seq(Msg) /\ <<>> \in Seq(Msg)
      BY <1>2, Closed, Zenon
    <3>2. Append(wire \o wbuf, taken) \in Seq(Msg) /\ Append(wbuf, taken) \in Seq(Msg)
      BY <1>2, <3>1, Appended, Zenon
    <3> QED
      BY <1>2, <1>6, <3>1, <3>2
  <2>2. SocketType'
    BY <1>1, <1>5, <2>1 DEF OrderInv, SocketType
  <2>3. Sent' = Sent \o <<taken>>
    <3>1. WriteAdds(Reading, back, sbuf, wire, wbuf, taken)
      BY <1>2, <1>3, Written, Zenon
    <3> QED
      BY <1>1, <1>3, <1>6, <3>1 DEF Sent, Between, WriteAdds
  <2>4. Flight' = Flight
    <3>1. Flight \in Seq(Msg)
      BY Typed DEF OrderInv
    <3>2. Flight' = Flight \o <<>>
      BY <1>4, <2>3 DEF Flight
    <3> QED
      BY <3>1, <3>2, Closed, Zenon
  <2> QED
    BY <1>1, <2>2, <2>4, SameFlight DEF Sending
<1>7. CASE sendPc' = "stopErr" /\ UNCHANGED <<wire, wbuf>>
  <2>1. SocketType'
    BY <1>1, <1>5, <1>7 DEF OrderInv, SocketType
  <2>2. Sent' = Sent
    BY <1>1, <1>3, <1>7 DEF Sent, Between
  <2>3. Flight' = Sent
    <3>1. Flight' = Sent \o <<>>
      BY <1>4, <2>2 DEF Flight
    <3> QED
      BY <1>3, <3>1, Closed, Zenon
  <2>4. <<taken>> \in Seq(Msg)
    BY <1>2, Closed, Zenon
  <2>5. InStep'
    BY <1>1, <1>4, <1>7, <2>3, <2>4 DEF InStep, Sending
  <2> QED
    BY <1>1, <2>1, <2>5 DEF OrderInv, OwnResponse
<1> QED
  BY <1>6, <1>7 DEF WriteBuffered, WriteThrough, server

LEMMA ServerOrder ==
  ASSUME OrderInv, ServerHandle
  PROVE  OrderInv'
<1>1. /\ UNCHANGED <<sendPc, taken, wbuf, reqSent, recvd, recvPc, reqQueue, mismatch, panicked>>
      /\ wire # <<>> /\ wire' = Tail(wire)
      /\ \/ sbuf' = Append(sbuf, Head(wire)) /\ back' = back
         \/ sbuf' = <<>> /\ back' = Append(back \o sbuf, Head(wire))
  BY DEF ServerHandle, sendRtn, recvRtn, results, service
<1>2. /\ back \in Seq(Msg) /\ sbuf \in Seq(Msg) /\ wire \in Seq(Msg) /\ wbuf \in Seq(Msg)
      /\ Head(wire) \in Msg /\ Tail(wire) \in Seq(Msg)
  BY <1>1, HeadFirst DEF OrderInv, SocketType
<1>3. sbuf' \in Seq(Msg) /\ back' \in Seq(Msg)
  <2>1. back \o sbuf \in Seq(Msg) /\ <<>> \in Seq(Msg)
    BY <1>2, Closed, Zenon
  <2>2. Append(back \o sbuf, Head(wire)) \in Seq(Msg) /\ Append(sbuf, Head(wire)) \in Seq(Msg)
    BY <1>2, <2>1, Appended, Zenon
  <2> QED
    BY <1>1, <1>2, <2>1, <2>2
<1>4. SocketType'
  BY <1>1, <1>2, <1>3 DEF OrderInv, SocketType
<1>5. Between' = Between
  <2>1. AnswerKeeps(back, sbuf, wire, wbuf)
    BY <1>1, <1>2, Answered, Zenon
  <2> QED
    BY <1>1, <2>1 DEF Between, AnswerKeeps
<1>6. Flight' = Flight
  BY <1>1, <1>5 DEF Flight, Sent, Reading, Writing
<1> QED
  BY <1>1, <1>4, <1>6, SameFlight DEF Sending

LEMMA ReadOrder ==
  ASSUME OrderInv, ReadResponse
  PROVE  OrderInv'
<1>1. /\ UNCHANGED <<sendPc, taken, wbuf, wire, sbuf, reqSent, reqQueue, mismatch, panicked>>
      /\ back # <<>> /\ recvd' = Head(back) /\ back' = Tail(back)
      /\ recvPc = "read" /\ recvPc' = "deliver"
  BY DEF ReadResponse, sendRtn, server, results, service
<1>2. /\ back \in Seq(Msg) /\ Head(back) \in Msg /\ Tail(back) \in Seq(Msg)
      /\ back = <<Head(back)>> \o Tail(back)
  BY <1>1, HeadFirst DEF OrderInv, SocketType
<1>3. SocketType'
  BY <1>1, <1>2 DEF OrderInv, SocketType
<1>4. Sent' = Sent
  <2> DEFINE h == <<Head(back)>>
             t == Tail(back)
             x == sbuf \o (wire \o wbuf)
  <2>1. h \in Seq(Msg) /\ t \in Seq(Msg)
    BY <1>2, Closed, Zenon
  <2>2. x \in Seq(Msg)
    <3>1. sbuf \in Seq(Msg) /\ wire \in Seq(Msg) /\ wbuf \in Seq(Msg)
      BY DEF OrderInv, SocketType
    <3>2. wire \o wbuf \in Seq(Msg)
      BY <3>1, Closed, Zenon
    <3> QED
      BY <3>1, <3>2, Closed, Zenon
  <2>3. back = h \o t
    BY <1>2
  <2>4. Sent' = h \o (t \o x) /\ Sent = <<>> \o (back \o x)
    BY <1>1 DEF Sent, Between, Reading
  <2> HIDE DEF h, t, x
  <2>5. Assoc(h, t, x)
    BY <2>1, <2>2, Associative, Zenon
  <2>6. h \o (t \o x) = back \o x
    BY <2>3, <2>5 DEF Assoc
  <2>7. back \o x \in Seq(Msg)
    BY <1>2, <2>2, Closed, Zenon
  <2>8. <<>> \o (back \o x) = back \o x
    BY <2>7, Closed, Zenon
  <2> QED
    BY <2>4, <2>6, <2>8
<1>5. Flight' = Flight
  BY <1>1, <1>4 DEF Flight, Writing
<1> QED
  BY <1>1, <1>3, <1>5, SameFlight DEF Sending

LEMMA DeliverOrder ==
  ASSUME OrderInv, ~ panicked, DidRecvResponse
  PROVE  OrderInv'
<1>1. /\ recvPc = "deliver" /\ recvPc' # "deliver" /\ recvd' = "none"
      /\ UNCHANGED <<sendPc, taken, wbuf, wire, sbuf, back, reqQueue>>
  BY DEF DidRecvResponse, sendRtn, server
<1>2. recvd \in Msg /\ Between \in Seq(Msg) /\ Writing \in Seq(Msg) /\ reqSent \in Seq(Msg)
  BY Typed DEF OrderInv, SocketType
<1>3. Flight = (<<recvd>> \o Between) \o Writing /\ Flight' = (<<>> \o Between) \o Writing
  BY <1>1 DEF Flight, Sent, Between, Reading, Writing
<1>4. Flight' = Between \o Writing /\ Flight' \in Seq(Msg)
  <2>1. <<>> \o Between = Between /\ Between \o Writing \in Seq(Msg)
    BY <1>2, Closed, Zenon
  <2> QED
    BY <1>3, <2>1
<1>5. PICK lost \in Seq(Msg) : reqSent = Flight \o lost
  BY DEF OrderInv, InStep
<1>6. reqSent # <<>> /\ Head(reqSent) = recvd /\ Tail(reqSent) = Flight' \o lost
  <2>1. FirstOut(recvd, Between, Writing, lost)
    BY <1>2, Received, Zenon
  <2>2. reqSent = ((<<recvd>> \o Between) \o Writing) \o lost
    BY <1>3, <1>5
  <2> QED
    BY <1>4, <2>1, <2>2 DEF FirstOut
<1>7. Tail(reqSent) \in Seq(Msg)
  BY <1>2, <1>6, HeadFirst
<1>8. SocketType' \/ ~ (reqSent' = reqSent \/ reqSent' = Tail(reqSent))
  BY <1>1, <1>2, <1>7 DEF OrderInv, SocketType, Msg
<1>9. CASE panicked' /\ UNCHANGED <<reqSent, mismatch>>
  BY <1>8, <1>9 DEF OrderInv, OwnResponse
<1>10. CASE reqSent' = Tail(reqSent) /\ mismatch' = (mismatch \/ Head(reqSent) # recvd)
  <2>1. Sending => Tail(reqSent) = Flight'
    <3>1. SUFFICES ASSUME Sending PROVE Tail(reqSent) = Flight'
      OBVIOUS
    <3>2. reqSent = ((<<recvd>> \o Between) \o Writing) \o <<>>
      <4>1. Flight \in Seq(Msg) /\ reqSent = Flight
        BY <3>1, Typed DEF OrderInv, InStep
      <4>2. Flight \o <<>> = Flight
        BY <4>1, Closed, Zenon
      <4> QED
        BY <1>3, <4>1, <4>2
    <3>3. FirstOut(recvd, Between, Writing, <<>>)
      BY <1>2, Closed, Received, Zenon
    <3>4. Tail(reqSent) = (Between \o Writing) \o <<>>
      BY <3>2, <3>3 DEF FirstOut
    <3>5. (Between \o Writing) \o <<>> = Between \o Writing
      BY <1>4, Closed, Zenon
    <3> QED
      BY <1>4, <3>4, <3>5
  <2>2. InStep'
    BY <1>1, <1>6, <1>10, <2>1 DEF InStep, Sending
  <2>3. OwnResponse'
    BY <1>6, <1>10 DEF OrderInv, OwnResponse
  <2> QED
    BY <1>8, <1>10, <2>2, <2>3 DEF OrderInv
<1> QED
  BY <1>6, <1>9, <1>10 DEF DidRecvResponse, results

(***************************************************************************)
(* Stopping, run by any of the three.                                       *)
(***************************************************************************)
LEMMA StopOrder ==
  ASSUME OrderInv, SendStops \/ RecvStops \/ UserStops
  PROVE  OrderInv'
<1> DEFINE Stops == {"stopErr", "stopClose", "stopFlush", "stopQuit", "gone"}
<1>1. UNCHANGED <<taken, back, sbuf, wire, wbuf, recvd, reqSent, mismatch, panicked>>
  BY DEF SendStops, RecvStops, UserStops, Stopping, server
<1>2. reqQueue' \in Seq(Msg)
  BY Closed DEF SendStops, RecvStops, UserStops, Stopping, StopForError, StopClose, FlushQueue, StopQuit,
                OrderInv, SocketType
<1>3. CASE SendStops
  <2>1. sendPc \in Stops /\ sendPc' \in Stops /\ recvPc' = recvPc
    BY <1>3 DEF SendStops, Stopping, StopForError, StopClose, FlushQueue, StopQuit
  <2>2. taken' \in Msg
    BY <1>1 DEF OrderInv, SocketType
  <2> QED
    BY <1>1, <1>2, <2>1, <2>2, QuietOrder DEF Sending
<1>4. CASE RecvStops \/ UserStops
  <2>1. sendPc' = sendPc /\ (recvPc' = recvPc \/ (recvPc \in Stops /\ recvPc' \in Stops))
    BY <1>4 DEF RecvStops, UserStops, Stopping, StopForError, StopClose, FlushQueue, StopQuit
  <2> QED
    BY <1>1, <1>2, <2>1, OthersOrder
<1> QED
  BY <1>3, <1>4

LEMMA CallersOrder ==
  ASSUME OrderInv, (\E c \in Callers : Caller(c)) \/ Updater
  PROVE  OrderInv'
<1>1. /\ UNCHANGED <<sendPc, taken, back, sbuf, wire, wbuf, recvPc, recvd, reqSent, mismatch, panicked>>
      /\ reqQueue' = reqQueue \/ \E r \in Msg : reqQueue' = Append(reqQueue, r)
  BY DEF Caller, CheckTxStart, QueueRequest, ArmTimer, SetCallback, Updater, Update, UpdateLock, UpdateQueue,
         UpdateTimer, FlushSyncCheck, FlushSyncReturn, Enqueue, Msg, sendRtn, server, recvRtn, results, service
<1>2. reqQueue' \in Seq(Msg)
  <2>1. reqQueue \in Seq(Msg)
    BY DEF OrderInv, SocketType
  <2> QED
    BY <1>1, <2>1, Appended, Zenon
<1> QED
  BY <1>1, <1>2, OthersOrder

LEMMA OrderStepKeeps ==
  ASSUME OrderInv, [Next]_vars
  PROVE  OrderInv'
<1>0. reqQueue \in Seq(Msg) /\ taken \in Msg /\ "timerFlush" \in Msg
  BY DEF OrderInv, SocketType, Msg
<1>1. ASSUME ~ panicked, TakeRequest PROVE OrderInv'
  <2>1. Head(reqQueue) \in Msg /\ Tail(reqQueue) \in Seq(Msg)
    BY <1>0, <1>1, HeadFirst DEF TakeRequest
  <2> QED
    BY <1>1, <2>1, QuietOrder DEF TakeRequest, Sending, server, recvRtn, results, service
<1>2. ASSUME ~ panicked, QueueTimerFlush PROVE OrderInv'
  <2>1. Append(reqQueue, "timerFlush") \in Seq(Msg)
    BY <1>0, Appended, Zenon
  <2> QED
    BY <1>0, <1>2, <2>1, QuietOrder DEF QueueTimerFlush, Enqueue, Sending, server, recvRtn, results, service
<1>3. ASSUME ~ panicked, SendQuits \/ TimerFires PROVE OrderInv'
  BY <1>0, <1>3, QuietOrder DEF SendQuits, TimerFires, Sending, server, recvRtn, results, service
<1>4. ASSUME ConnectionBreaks \/ ReadFails \/ UserCallsStop PROVE OrderInv'
  BY <1>0, <1>4, OthersOrder DEF ConnectionBreaks, ReadFails, UserCallsStop, sendRtn, server, recvRtn, results,
                                service
<1>5. ASSUME UNCHANGED vars PROVE OrderInv'
  BY <1>0, <1>5, OthersOrder DEF vars, sendRtn, server, recvRtn, results, service
<1> QED
  BY <1>1, <1>2, <1>3, <1>4, <1>5, CallersOrder, WillSendOrder, WriteOrder, ServerOrder, ReadOrder,
     DeliverOrder, StopOrder
     DEF Next, Send, Timer, Server, Network, Recv, User

LEMMA InitOrder == Init => OrderInv
<1> SUFFICES ASSUME Init PROVE OrderInv
  OBVIOUS
<1>1. SocketType
  BY Closed DEF Init, SocketType, Msg
<1>2. Flight = <<>>
  BY Closed DEF Init, Flight, Sent, Between, Reading, Writing
<1>3. <<>> \o <<>> = <<>> /\ <<>> \in Seq(Msg)
  BY Closed
<1>4. InStep
  BY <1>2, <1>3 DEF Init, InStep
<1> QED
  BY <1>1, <1>4 DEF Init, OrderInv, OwnResponse

(***************************************************************************)
(* Every request is given the response to it, whatever the routines, the    *)
(* callers and a stopping client do.                                        *)
(***************************************************************************)
THEOREM RequestsGetOwnResponse == Spec => []OwnResponse
<1>1. Init => OrderInv
  BY InitOrder
<1>2. OrderInv /\ [Next]_vars => OrderInv'
  BY OrderStepKeeps
<1>3. OrderInv => OwnResponse
  BY DEF OrderInv
<1> QED
  BY <1>1, <1>2, <1>3, PTL DEF Spec

-----------------------------------------------------------------------------
(***************************************************************************)
(* The barrier.  Pipe is what waits for its response or to be sent, in      *)
(* order; Ahead says that a call is in it before any flush request of       *)
(* Update.                                                                  *)
(***************************************************************************)
Holding == IF sendPc = "willSend" THEN <<taken>> ELSE <<>>
Pipe == (reqSent \o Holding) \o reqQueue

Ahead(c, p) ==
  \E i \in 1 .. Len(p) : p[i] = c /\ \A j \in 1 .. Len(p) : p[j] = "flushSync" => i < j

NoFlush(p) == \A j \in 1 .. Len(p) : p[j] # "flushSync"

Calm == userPc = "idle" /\ ~ err

Passed(c) == c \in delivered \/ ("flushSync" \notin delivered /\ Ahead(c, Pipe))

(***************************************************************************)
(* Nobody but the user stops the client without setting its error.          *)
(***************************************************************************)
StopsInError ==
  userPc = "idle" /\ (\/ sendPc \in {"stopClose", "stopFlush", "stopQuit"}
                      \/ recvPc \in {"stopClose", "stopFlush", "stopQuit"}) => err

(***************************************************************************)
(* While nothing is stopped, a queued call is answered or is ahead of the   *)
(* flush request that Update waits for.                                     *)
(***************************************************************************)
QueuedPass ==
  Calm =>
    /\ "flushSync" \in resolved => "flushSync" \in delivered
    /\ updatePc \in {"start", "queueFlush"} => NoFlush(Pipe) /\ "flushSync" \notin delivered
    /\ updatePc \in {"start", "queueFlush", "unset", "checkErr", "wait"} =>
         \A c \in Callers : Queued(c) => Passed(c)

BarrierInv ==
  /\ OrderInv
  /\ callerPc \in [Callers -> {"start", "queue", "arm", "setCallback", "done"}]
  /\ cb \subseteq Callers
  /\ ReadLockFree \/ WriteLockFree
  /\ StopsInError
  /\ QueuedPass
  /\ FlushBarrier

-----------------------------------------------------------------------------
LEMMA AheadAppend ==
  ASSUME NEW p \in Seq(Msg), NEW x \in Msg
  PROVE  /\ \A c : Ahead(c, p) => Ahead(c, Append(p, x))
         /\ NoFlush(p) /\ x # "flushSync" => NoFlush(Append(p, x)) /\ Ahead(x, Append(p, x))
<1> DEFINE q == Append(p, x)
<1>1. /\ Len(p) \in Nat /\ Len(q) = Len(p) + 1 /\ q[Len(p) + 1] = x
      /\ \A i \in 1 .. Len(p) : q[i] = p[i]
  BY AppendProperties, LenProperties
<1> HIDE DEF q
<1>2. \A j \in 1 .. Len(q) : j \in 1 .. Len(p) \/ j = Len(p) + 1
  BY <1>1
<1>3. ASSUME NEW c, Ahead(c, p) PROVE Ahead(c, q)
  <2>1. PICK i \in 1 .. Len(p) : p[i] = c /\ \A j \in 1 .. Len(p) : p[j] = "flushSync" => i < j
    BY <1>3 DEF Ahead
  <2>2. i \in 1 .. Len(q) /\ q[i] = c /\ i < Len(p) + 1
    BY <1>1, <2>1
  <2>3. \A j \in 1 .. Len(q) : q[j] = "flushSync" => i < j
    BY <1>1, <1>2, <2>1, <2>2
  <2> QED
    BY <2>2, <2>3 DEF Ahead
<1>4. ASSUME NoFlush(p), x # "flushSync" PROVE NoFlush(q) /\ Ahead(x, q)
  <2>1. NoFlush(q)
    BY <1>1, <1>2, <1>4 DEF NoFlush
  <2>2. Len(p) + 1 \in 1 .. Len(q)
    BY <1>1
  <2> QED
    BY <1>1, <2>1, <2>2 DEF NoFlush, Ahead
<1> QED
  BY <1>3, <1>4 DEF q

LEMMA AheadTail ==
  ASSUME NEW p \in Seq(Msg), p # <<>>
  PROVE  /\ \A c : Ahead(c, p) /\ c # Head(p) => Head(p) # "flushSync" /\ Ahead(c, Tail(p))
         /\ NoFlush(p) => NoFlush(Tail(p)) /\ Head(p) # "flushSync"
<1> DEFINE q == Tail(p)
<1>1. /\ Len(p) \in Nat \ {0} /\ Len(q) = Len(p) - 1 /\ Head(p) = p[1]
      /\ \A i \in 1 .. Len(q) : q[i] = p[i + 1]
  BY HeadTailProperties, EmptySeq
<1> HIDE DEF q
<1>2. ASSUME NEW c, Ahead(c, p), c # Head(p) PROVE Head(p) # "flushSync" /\ Ahead(c, q)
  <2>1. PICK i \in 1 .. Len(p) : p[i] = c /\ \A j \in 1 .. Len(p) : p[j] = "flushSync" => i < j
    BY <1>2 DEF Ahead
  <2>2. i # 1
    BY <1>1, <1>2, <2>1
  <2>3. Head(p) # "flushSync"
    BY <1>1, <2>1, <2>2
  <2>4. i - 1 \in 1 .. Len(q) /\ q[i - 1] = c
    BY <1>1, <2>1, <2>2
  <2>5. ASSUME NEW j \in 1 .. Len(q), q[j] = "flushSync" PROVE i - 1 < j
    <3>1. j + 1 \in 1 .. Len(p) /\ p[j + 1] = "flushSync"
      BY <1>1, <2>5
    <3>2. i < j + 1
      BY <2>1, <3>1
    <3> QED
      BY <3>2
  <2> QED
    BY <2>3, <2>4, <2>5 DEF Ahead
<1>3. ASSUME NoFlush(p) PROVE NoFlush(q) /\ Head(p) # "flushSync"
  <2>1. \A j \in 1 .. Len(q) : j + 1 \in 1 .. Len(p)
    BY <1>1
  <2>2. 1 \in 1 .. Len(p)
    BY <1>1
  <2> QED
    BY <1>1, <1>3, <2>1, <2>2 DEF NoFlush
<1> QED
  BY <1>2, <1>3 DEF q

(***************************************************************************)
(* What the routines do to the pipe.                                        *)
(***************************************************************************)
LEMMA PipeQueued ==
  ASSUME NEW a \in Seq(Msg), NEW h \in Seq(Msg), NEW q \in Seq(Msg), NEW x \in Msg
  PROVE  (a \o h) \o Append(q, x) = Append((a \o h) \o q, x) /\ (a \o h) \o q \in Seq(Msg)
<1> DEFINE ah == a \o h
           y == <<x>>
           ahq == ah \o q
<1>1. ah \in Seq(Msg) /\ y \in Seq(Msg)
  BY Closed, Zenon
<1>2. ahq \in Seq(Msg)
  BY <1>1, Closed, Zenon
<1>3. Append(q, x) = q \o y
  BY Appended, Zenon
<1>4. Append(ahq, x) = ahq \o y
  BY <1>2, Appended, Zenon
<1> HIDE DEF ah, y
<1>5. Assoc(ah, q, y)
  BY <1>1, Associative, Zenon
<1>6. ah \o Append(q, x) = Append(ahq, x)
  BY <1>3, <1>4, <1>5 DEF Assoc
<1> QED
  BY <1>2, <1>6 DEF ah

LEMMA PipeTaken ==
  ASSUME NEW a \in Seq(Msg), NEW q \in Seq(Msg), q # <<>>
  PROVE  (a \o <<Head(q)>>) \o Tail(q) = (a \o <<>>) \o q
<1> DEFINE y == <<Head(q)>>
           t == Tail(q)
<1>1. y \in Seq(Msg) /\ t \in Seq(Msg) /\ q = y \o t
  BY HeadFirst, Closed
<1> HIDE DEF y, t
<1>2. Assoc(a, y, t)
  BY <1>1, Associative, Zenon
<1>3. a \o <<>> = a
  BY Closed, Zenon
<1>4. (a \o y) \o t = (a \o <<>>) \o q
  BY <1>1, <1>2, <1>3 DEF Assoc
<1> QED
  BY <1>4 DEF y, t

LEMMA PipeSent ==
  ASSUME NEW a \in Seq(Msg), NEW q \in Seq(Msg), NEW x \in Msg
  PROVE  (Append(a, x) \o <<>>) \o q = (a \o <<x>>) \o q
<1>1. Append(a, x) = a \o <<x>> /\ Append(a, x) \in Seq(Msg)
  BY Appended, Zenon
<1>2. Append(a, x) \o <<>> = Append(a, x)
  BY <1>1, Closed, Zenon
<1> QED
  BY <1>1, <1>2

FrontOut(a, h, q) ==
  LET p == (a \o h) \o q
  IN  p # <<>> /\ Head(p) = Head(a) /\ Tail(p) = (Tail(a) \o h) \o q

LEMMA PipeDelivered ==
  ASSUME NEW a \in Seq(Msg), NEW h \in Seq(Msg), NEW q \in Seq(Msg), a # <<>>
  PROVE  FrontOut(a, h, q)
<1> DEFINE x == Head(a)
           t == Tail(a)
<1>1. x \in Msg /\ t \in Seq(Msg) /\ a = <<x>> \o t
  BY HeadFirst
<1> HIDE DEF x, t
<1>2. FirstOut(x, t, h, q)
  BY <1>1, Received, Zenon
<1>3. LET p == (a \o h) \o q
      IN  p # <<>> /\ Head(p) = x /\ Tail(p) = (t \o h) \o q
  BY <1>1, <1>2 DEF FirstOut
<1> QED
  BY <1>3 DEF x, t, FrontOut

-----------------------------------------------------------------------------
LEMMA PipeType ==
  ASSUME SocketType
  PROVE  Holding \in Seq(Msg) /\ Pipe \in Seq(Msg)
<1>1. taken \in Msg /\ reqSent \in Seq(Msg) /\ reqQueue \in Seq(Msg)
  BY DEF SocketType
<1>2. Holding \in Seq(Msg)
  BY <1>1, Closed, Zenon DEF Holding
<1>3. reqSent \o Holding \in Seq(Msg)
  BY <1>1, <1>2, Closed, Zenon
<1>4. (reqSent \o Holding) \o reqQueue \in Seq(Msg)
  BY <1>1, <1>3, Closed, Zenon
<1> QED
  BY <1>2, <1>4 DEF Pipe

LEMMA QuietBarrier ==
  ASSUME BarrierInv, OrderInv', StopsInError', Pipe' = Pipe, Calm' => Calm,
         UNCHANGED <<callerPc, cb, updatePc, resolved, delivered, userPc>>
  PROVE  BarrierInv'
<1>1. ReadLockFree' \/ WriteLockFree'
  BY DEF BarrierInv, ReadLockFree, WriteLockFree
<1>2. FlushBarrier'
  BY DEF BarrierInv, FlushBarrier
<1>3. \A c \in Callers : Queued(c) /\ Passed(c) => Passed(c)'
  BY DEF Passed
<1>4. \A c \in Callers : Queued(c)' => Queued(c)
  BY DEF Queued
<1>5. QueuedPass'
  BY <1>3, <1>4 DEF BarrierInv, QueuedPass
<1> QED
  BY <1>1, <1>2, <1>5 DEF BarrierInv

(***************************************************************************)
(* One more request at the end of the pipe.                                 *)
(***************************************************************************)
LEMMA EnqueuedPipe ==
  ASSUME OrderInv, NEW x \in Msg, Enqueue(x), Holding' = Holding, reqSent' = reqSent
  PROVE  /\ Pipe' = Append(Pipe, x)
         /\ \A c : Ahead(c, Pipe) => Ahead(c, Pipe')
         /\ NoFlush(Pipe) /\ x # "flushSync" => NoFlush(Pipe') /\ Ahead(x, Pipe')
<1>1. reqSent \in Seq(Msg) /\ reqQueue \in Seq(Msg) /\ Holding \in Seq(Msg) /\ Pipe \in Seq(Msg)
  BY PipeType DEF OrderInv, SocketType
<1>2. Pipe' = Append(Pipe, x)
  <2>1. (reqSent \o Holding) \o Append(reqQueue, x) = Append((reqSent \o Holding) \o reqQueue, x)
    BY <1>1, PipeQueued
  <2> QED
    BY <2>1 DEF Pipe, Enqueue
<1>3. /\ \A c : Ahead(c, Pipe) => Ahead(c, Append(Pipe, x))
      /\ NoFlush(Pipe) /\ x # "flushSync" => NoFlush(Append(Pipe, x)) /\ Ahead(x, Append(Pipe, x))
  BY <1>1, AheadAppend
<1> QED
  BY <1>2, <1>3

LEMMA CallerBarrier ==
  ASSUME "flushSync" \notin Callers, BarrierInv, OrderInv', NEW c \in Callers, Caller(c)
  PROVE  BarrierInv'
<1>1. UNCHANGED <<updatePc, sendPc, taken, reqSent, recvPc, resolved, delivered, err, userPc>>
  BY DEF Caller, CheckTxStart, QueueRequest, ArmTimer, SetCallback, sendRtn, recvRtn, results, service
<1>2. ReadLockFree /\ ReadLockFree'
  BY <1>1 DEF Caller, CheckTxStart, QueueRequest, ArmTimer, SetCallback, BarrierInv, ReadLockFree, WriteLockFree
<1>3. FlushBarrier'
  BY <1>2 DEF FlushBarrier, ReadLockFree
<1>4. StopsInError'
  BY <1>1 DEF BarrierInv, StopsInError
<1>5. callerPc' \in [Callers -> {"start", "queue", "arm", "setCallback", "done"}] /\ cb' \subseteq Callers
  BY DEF Caller, CheckTxStart, QueueRequest, ArmTimer, SetCallback, BarrierInv
<1>6. Calm' <=> Calm
  BY <1>1 DEF Calm
<1>7. CASE QueueRequest(c)
  <2>1. c \in Msg /\ c # "flushSync"
    BY DEF Msg
  <2>2. /\ \A d : Ahead(d, Pipe) => Ahead(d, Pipe')
        /\ NoFlush(Pipe) => NoFlush(Pipe') /\ Ahead(c, Pipe')
    BY <1>1, <1>7, <2>1, EnqueuedPipe DEF BarrierInv, QueueRequest, Holding
  <2>3. \A d \in Callers : Queued(d)' => d = c \/ Queued(d)
    BY <1>7 DEF QueueRequest, Queued, BarrierInv
  <2>4. \A d \in Callers : Passed(d) => Passed(d)'
    BY <1>1, <2>2 DEF Passed
  <2>5. NoFlush(Pipe) /\ "flushSync" \notin delivered => Passed(c)'
    BY <1>1, <2>2 DEF Passed
  <2>6. QueuedPass'
    <3>1. updatePc \notin {"queueFlush", "unset", "checkErr", "wait"}
      BY <1>2 DEF ReadLockFree
    <3> QED
      BY <1>1, <1>6, <2>2, <2>3, <2>4, <2>5, <3>1 DEF BarrierInv, QueuedPass
  <2> QED
    BY <1>2, <1>3, <1>4, <1>5, <2>6 DEF BarrierInv
<1>8. CASE CheckTxStart(c) \/ ArmTimer(c) \/ SetCallback(c)
  <2>1. Pipe' = Pipe
    BY <1>1, <1>8 DEF CheckTxStart, ArmTimer, SetCallback, Pipe, Holding
  <2>2. \A d \in Callers : Queued(d)' => Queued(d)
    BY <1>8 DEF CheckTxStart, ArmTimer, SetCallback, Queued, BarrierInv
  <2>3. \A d \in Callers : Passed(d) => Passed(d)'
    BY <1>1, <2>1 DEF Passed
  <2>4. QueuedPass'
    BY <1>1, <1>6, <2>1, <2>2, <2>3 DEF BarrierInv, QueuedPass
  <2> QED
    BY <1>2, <1>3, <1>4, <1>5, <2>4 DEF BarrierInv
<1> QED
  BY <1>7, <1>8 DEF Caller

LEMMA UpdateBarrier ==
  ASSUME BarrierInv, OrderInv', Update
  PROVE  BarrierInv'
<1>1. /\ UNCHANGED <<callerPc, cb, sendPc, taken, reqSent, recvPc, resolved, delivered, err, userPc>>
  BY DEF Update, UpdateLock, UpdateQueue, UpdateTimer, FlushSyncCheck, FlushSyncReturn, sendRtn, recvRtn,
         results, service
<1>2. ReadLockFree' \/ WriteLockFree'
  BY <1>1 DEF Update, UpdateLock, UpdateQueue, UpdateTimer, FlushSyncCheck, FlushSyncReturn, BarrierInv,
              ReadLockFree, WriteLockFree
<1>3. StopsInError' /\ (Calm' <=> Calm)
  BY <1>1 DEF BarrierInv, StopsInError, Calm
<1>4. \A c \in Callers : Queued(c)' <=> Queued(c)
  BY <1>1 DEF Queued
<1>5. ASSUME FlushBarrier', QueuedPass' PROVE BarrierInv'
  BY <1>1, <1>2, <1>3, <1>5 DEF BarrierInv
<1>6. CASE UpdateQueue("queueFlush", "flushSync", "unset")
  <2>1. "flushSync" \in Msg
    BY DEF Msg
  <2>2. \A d : Ahead(d, Pipe) => Ahead(d, Pipe')
    BY <1>1, <1>6, <2>1, EnqueuedPipe DEF BarrierInv, UpdateQueue, Holding
  <2>3. \A d \in Callers : Passed(d) => Passed(d)'
    BY <1>1, <2>2 DEF Passed
  <2>4. QueuedPass'
    BY <1>1, <1>3, <1>4, <1>6, <2>3 DEF BarrierInv, QueuedPass, UpdateQueue
  <2> QED
    BY <1>5, <1>6, <2>4 DEF FlushBarrier, UpdateQueue
<1>7. CASE UpdateLock \/ UpdateTimer("unset", FALSE, "checkErr") \/ FlushSyncCheck
  <2>1. Pipe' = Pipe
    BY <1>1, <1>7 DEF UpdateLock, UpdateTimer, FlushSyncCheck, Pipe, Holding
  <2>2. \A d \in Callers : Passed(d) => Passed(d)'
    BY <1>1, <2>1 DEF Passed
  <2>3. QueuedPass'
    BY <1>1, <1>3, <1>4, <1>7, <2>1, <2>2 DEF BarrierInv, QueuedPass, UpdateLock, UpdateTimer, FlushSyncCheck
  <2> QED
    BY <1>5, <1>7, <2>3 DEF FlushBarrier, UpdateLock, UpdateTimer, FlushSyncCheck
<1>8. CASE FlushSyncReturn
  <2>1. updatePc = "wait" /\ "flushSync" \in resolved /\ updatePc' = IF err THEN "failed" ELSE "returned"
    BY <1>8 DEF FlushSyncReturn
  <2>2. userPc = "idle" /\ ~ err => cb \subseteq delivered
    BY <2>1 DEF BarrierInv, QueuedPass, Calm, Passed, Queued
  <2>3. FlushBarrier'
    BY <1>1, <2>1, <2>2 DEF FlushBarrier
  <2>4. QueuedPass'
    BY <1>1, <1>3, <2>1 DEF BarrierInv, QueuedPass
  <2> QED
    BY <1>5, <2>3, <2>4
<1>9. CASE \/ UpdateQueue("returned", "recheck", "arm")
           \/ UpdateTimer("arm", TRUE, "queueAsync")
           \/ UpdateQueue("queueAsync", "flushAsync", "unsetAsync")
           \/ UpdateTimer("unsetAsync", FALSE, "done")
  <2>1. /\ updatePc \in {"returned", "arm", "queueAsync", "unsetAsync"}
        /\ updatePc' \in {"arm", "queueAsync", "unsetAsync", "done"}
    BY <1>9 DEF UpdateQueue, UpdateTimer
  <2>2. FlushBarrier'
    BY <1>1, <2>1 DEF BarrierInv, FlushBarrier
  <2>3. QueuedPass'
    BY <1>1, <1>3, <2>1 DEF BarrierInv, QueuedPass
  <2> QED
    BY <1>5, <2>2, <2>3
<1> QED
  BY <1>6, <1>7, <1>8, <1>9 DEF Update

LEMMA SendBarrier ==
  ASSUME BarrierInv, OrderInv', TakeRequest \/ WillSendReq
  PROVE  BarrierInv'
<1>1. /\ UNCHANGED <<callerPc, cb, updatePc, recvPc, resolved, delivered, err, userPc>>
      /\ sendPc' \in {"willSend", "write"}
  BY DEF TakeRequest, WillSendReq, callers, recvRtn, results, service
<1>2. taken \in Msg /\ reqSent \in Seq(Msg) /\ reqQueue \in Seq(Msg)
  BY DEF BarrierInv, OrderInv, SocketType
<1>3. Pipe' = Pipe
  <2>1. CASE TakeRequest
    <3>1. (reqSent \o <<Head(reqQueue)>>) \o Tail(reqQueue) = (reqSent \o <<>>) \o reqQueue
      BY <1>2, <2>1, PipeTaken DEF TakeRequest
    <3>2. Holding = <<>> /\ Holding' = <<Head(reqQueue)>> /\ reqSent' = reqSent /\ reqQueue' = Tail(reqQueue)
      BY <2>1 DEF TakeRequest, Holding
    <3> QED
      BY <3>1, <3>2 DEF Pipe
  <2>2. CASE WillSendReq
    <3>1. (Append(reqSent, taken) \o <<>>) \o reqQueue = (reqSent \o <<taken>>) \o reqQueue
      BY <1>2, PipeSent
    <3>2. Holding = <<taken>> /\ Holding' = <<>> /\ reqSent' = Append(reqSent, taken) /\ reqQueue' = reqQueue
      BY <2>2 DEF WillSendReq, Holding
    <3> QED
      BY <3>1, <3>2 DEF Pipe
  <2> QED
    BY <2>1, <2>2
<1>4. StopsInError'
  BY <1>1 DEF BarrierInv, StopsInError
<1> QED
  BY <1>1, <1>3, <1>4, QuietBarrier DEF Calm

LEMMA TimerFlushBarrier ==
  ASSUME BarrierInv, OrderInv', QueueTimerFlush
  PROVE  BarrierInv'
<1>1. /\ UNCHANGED <<callerPc, cb, updatePc, recvPc, resolved, delivered, err, userPc, reqSent>>
      /\ sendPc' = "select" /\ Holding' = Holding
  BY DEF QueueTimerFlush, callers, recvRtn, results, service, Holding
<1>2. StopsInError'
  BY <1>1 DEF BarrierInv, StopsInError
<1>3. CASE UNCHANGED reqQueue
  BY <1>1, <1>2, <1>3, QuietBarrier DEF Pipe, Calm
<1>4. CASE Enqueue("timerFlush")
  <2>1. "timerFlush" \in Msg /\ "timerFlush" # "flushSync"
    BY DEF Msg
  <2>2. /\ \A d : Ahead(d, Pipe) => Ahead(d, Pipe')
        /\ NoFlush(Pipe) => NoFlush(Pipe')
    BY <1>1, <1>4, <2>1, EnqueuedPipe DEF BarrierInv
  <2>3. \A d \in Callers : (Queued(d)' <=> Queued(d)) /\ (Passed(d) => Passed(d)')
    BY <1>1, <2>2 DEF Passed, Queued
  <2>4. QueuedPass'
    BY <1>1, <2>2, <2>3 DEF BarrierInv, QueuedPass, Calm
  <2> QED
    BY <1>1, <1>2, <2>4 DEF BarrierInv, FlushBarrier, ReadLockFree, WriteLockFree
<1> QED
  BY <1>3, <1>4 DEF QueueTimerFlush

LEMMA DeliverBarrier ==
  ASSUME BarrierInv, OrderInv', DidRecvResponse
  PROVE  BarrierInv'
<1>1. /\ UNCHANGED <<callerPc, cb, updatePc, sendPc, taken, reqQueue, err, userPc>>
      /\ recvPc' \in {"stopErr", "gone", "read"}
  BY DEF DidRecvResponse, callers, sendRtn
<1>2. StopsInError' /\ Holding' = Holding
  BY <1>1 DEF BarrierInv, StopsInError, Holding
<1>3. CASE UNCHANGED <<reqSent, resolved, delivered>>
  BY <1>1, <1>2, <1>3, QuietBarrier DEF Pipe, Calm
<1>4. CASE /\ reqSent # <<>> /\ reqSent' = Tail(reqSent)
           /\ resolved' = resolved \cup {Head(reqSent)} /\ delivered' = delivered \cup {Head(reqSent)}
  <2>1. reqSent \in Seq(Msg) /\ reqQueue \in Seq(Msg) /\ Holding \in Seq(Msg) /\ Pipe \in Seq(Msg)
    BY PipeType DEF BarrierInv, OrderInv, SocketType
  <2>2. Pipe # <<>> /\ Head(Pipe) = Head(reqSent) /\ Pipe' = Tail(Pipe)
    <3>1. FrontOut(reqSent, Holding, reqQueue)
      BY <1>4, <2>1, PipeDelivered, Zenon
    <3> QED
      BY <1>1, <1>2, <1>4, <3>1 DEF Pipe, FrontOut
  <2>3. /\ \A c : Ahead(c, Pipe) /\ c # Head(Pipe) => Head(Pipe) # "flushSync" /\ Ahead(c, Tail(Pipe))
        /\ NoFlush(Pipe) => NoFlush(Tail(Pipe)) /\ Head(Pipe) # "flushSync"
    BY <2>1, <2>2, AheadTail
  <2>4. \A c \in Callers : (Queued(c)' <=> Queued(c)) /\ (Passed(c) => Passed(c)')
    BY <1>1, <1>4, <2>2, <2>3 DEF Passed, Queued
  <2>5. /\ NoFlush(Pipe) => NoFlush(Pipe')
        /\ NoFlush(Pipe) /\ "flushSync" \notin delivered => "flushSync" \notin delivered'
        /\ ("flushSync" \in resolved => "flushSync" \in delivered)
             => ("flushSync" \in resolved' => "flushSync" \in delivered')
    BY <1>4, <2>2, <2>3
  <2>6. QueuedPass'
    BY <1>1, <2>4, <2>5 DEF BarrierInv, QueuedPass, Calm
  <2>7. FlushBarrier'
    BY <1>1, <1>4 DEF BarrierInv, FlushBarrier
  <2> QED
    BY <1>1, <1>2, <2>6, <2>7 DEF BarrierInv, ReadLockFree, WriteLockFree
<1> QED
  BY <1>3, <1>4 DEF DidRecvResponse, results

(***************************************************************************)
(* Stopping.  In the calm only a routine that finds the client stopped      *)
(* comes here, and leaves.                                                  *)
(***************************************************************************)
LEMMA StopBarrier ==
  ASSUME BarrierInv, OrderInv', SendStops \/ RecvStops \/ UserStops
  PROVE  BarrierInv'
<1> DEFINE Closing == {"stopClose", "stopFlush", "stopQuit"}
<1>1. UNCHANGED <<callerPc, cb, updatePc, taken, reqSent, delivered>>
  BY DEF SendStops, RecvStops, UserStops, Stopping, callers
<1>2. (err => err') /\ (userPc' = "idle" => userPc = "idle" /\ ~ UserStops)
  <2>1. err' = err \/ err' = (err \/ ~ stopped)
    BY DEF SendStops, RecvStops, UserStops, Stopping, StopForError, StopClose, FlushQueue, StopQuit
  <2>2. UserStops => userPc' \in {"stopClose", "stopFlush", "stopQuit", "gone"}
    BY DEF UserStops, Stopping, StopForError, StopClose, FlushQueue, StopQuit
  <2>3. ~ UserStops => userPc' = userPc
    BY DEF SendStops, RecvStops
  <2>4. err => err'
    BY <2>1, Zenon
  <2> QED
    BY <2>2, <2>3, <2>4
<1>3. StopsInError'
  <2>1. CASE userPc' # "idle"
    BY <2>1 DEF StopsInError
  <2>2. CASE userPc' = "idle" /\ SendStops
    <3>1. recvPc' = recvPc /\ (sendPc' \in Closing => err' \/ sendPc \in Closing)
      BY <2>2 DEF SendStops, Stopping, StopForError, StopClose, FlushQueue, StopQuit
    <3> QED
      BY <1>2, <2>2, <3>1 DEF BarrierInv, StopsInError
  <2>3. CASE userPc' = "idle" /\ RecvStops
    <3>1. sendPc' = sendPc /\ (recvPc' \in Closing => err' \/ recvPc \in Closing)
      BY <2>3 DEF RecvStops, Stopping, StopForError, StopClose, FlushQueue, StopQuit
    <3> QED
      BY <1>2, <2>3, <3>1 DEF BarrierInv, StopsInError
  <2> QED
    BY <1>2, <2>1, <2>2, <2>3
<1>4. CASE Calm'
  <2>1. Calm /\ ~ UserStops
    BY <1>2, <1>4 DEF Calm
  <2>2. sendPc \notin Closing /\ recvPc \notin Closing
    BY <2>1 DEF BarrierInv, StopsInError, Calm
  <2>3. UNCHANGED <<reqQueue, resolved>> /\ (sendPc' = sendPc \/ (sendPc = "stopErr" /\ sendPc' # "willSend"))
    BY <2>1, <2>2 DEF SendStops, RecvStops, Stopping, StopForError, StopClose, FlushQueue, StopQuit
  <2>4. Pipe' = Pipe
    BY <1>1, <2>3 DEF Pipe, Holding
  <2>5. userPc' = userPc
    BY <1>4, <2>1 DEF Calm
  <2> QED
    BY <1>1, <1>3, <2>1, <2>3, <2>4, <2>5, QuietBarrier
<1>5. CASE ~ Calm'
  <2>1. QueuedPass'
    BY <1>5 DEF QueuedPass
  <2>2. FlushBarrier'
    BY <1>1, <1>2 DEF BarrierInv, FlushBarrier
  <2> QED
    BY <1>1, <1>3, <2>1, <2>2 DEF BarrierInv, ReadLockFree, WriteLockFree
<1> QED
  BY <1>4, <1>5

LEMMA BarrierStepKeeps ==
  ASSUME "flushSync" \notin Callers, BarrierInv, [Next]_vars
  PROVE  BarrierInv'
<1>0. OrderInv'
  BY OrderStepKeeps DEF BarrierInv
<1>1. ASSUME WriteBuffered \/ WriteThrough \/ SendQuits \/ TimerFires \/ ServerHandle \/ ConnectionBreaks
             \/ ReadResponse \/ ReadFails \/ UNCHANGED vars
      PROVE  BarrierInv'
  <2>1. UNCHANGED <<callerPc, cb, updatePc, resolved, delivered, err, userPc, reqSent, reqQueue>>
    BY <1>1 DEF WriteBuffered, WriteThrough, SendQuits, TimerFires, ServerHandle, ConnectionBreaks, ReadResponse,
                ReadFails, vars, callers, results, service
  <2>2. /\ Holding' = Holding
        /\ sendPc' = sendPc \/ sendPc' \in {"select", "stopErr", "gone", "flushTimer"}
        /\ recvPc' = recvPc \/ recvPc' \in {"deliver", "stopErr"}
    BY <1>1 DEF WriteBuffered, WriteThrough, SendQuits, TimerFires, ServerHandle, ConnectionBreaks, ReadResponse,
                ReadFails, vars, sendRtn, recvRtn, Holding
  <2>3. StopsInError'
    BY <2>1, <2>2 DEF BarrierInv, StopsInError
  <2>4. Pipe' = Pipe
    BY <2>1, <2>2 DEF Pipe
  <2> QED
    BY <1>0, <2>1, <2>3, <2>4, QuietBarrier DEF Calm
<1>2. ASSUME UserCallsStop PROVE BarrierInv'
  <2>1. UNCHANGED <<callerPc, cb, updatePc, delivered>> /\ userPc' # "idle"
    BY <1>2 DEF UserCallsStop, callers, results
  <2>2. StopsInError' /\ QueuedPass' /\ FlushBarrier'
    BY <2>1 DEF StopsInError, QueuedPass, Calm, FlushBarrier
  <2> QED
    BY <1>0, <2>1, <2>2 DEF BarrierInv, ReadLockFree, WriteLockFree
<1> QED
  BY <1>0, <1>1, <1>2, CallerBarrier, UpdateBarrier, SendBarrier, TimerFlushBarrier, DeliverBarrier, StopBarrier
     DEF Next, Updater, Send, Timer, Server, Network, Recv, User

(***************************************************************************)
(* When FlushSync has returned without an error, every CheckTx queued       *)
(* before it has had its response, on a connection that may break at any    *)
(* moment, as long as nobody calls Stop.  The flush request is not the      *)
(* name of a caller.                                                        *)
(***************************************************************************)
THEOREM FlushSyncIsBarrier ==
  ASSUME "flushSync" \notin Callers
  PROVE  Spec => []FlushBarrier
<1>1. Init => OrderInv
  BY InitOrder
<1>2. Init => BarrierInv
  <2> SUFFICES ASSUME Init PROVE BarrierInv
    OBVIOUS
  <2>1. Holding = <<>> /\ Pipe = <<>>
    BY Closed DEF Init, Pipe, Holding
  <2>2. NoFlush(Pipe)
    BY <2>1 DEF NoFlush
  <2>3. QueuedPass
    BY <2>2 DEF Init, QueuedPass, Queued
  <2> QED
    BY <1>1, <2>3 DEF Init, BarrierInv, ReadLockFree, StopsInError, FlushBarrier
<1>3. BarrierInv /\ [Next]_vars => BarrierInv'
  BY BarrierStepKeeps
<1>4. BarrierInv => FlushBarrier
  BY DEF BarrierInv
<1> QED
  BY <1>2, <1>3, <1>4, PTL DEF Spec

=============================================================================
