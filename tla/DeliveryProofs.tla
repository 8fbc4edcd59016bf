---------------------------- MODULE DeliveryProofs ----------------------------
(***************************************************************************)
(* For any threads, packets and programs, and any lengths of heads and     *)
(* data: the variables of Delivery have their types, and the router        *)
(* handles the packets in the order in which they were queued.             *)
(***************************************************************************)
EXTENDS Delivery, SequenceTheorems, TLAPS

Size(k) == HeadLen + DataLen[k]

\* The units u are the blocks of the packets a+1, ..., b of o, end to end.
Laid(o, a, b, u) ==
  \E end \in [a..b -> Nat] :
    /\ end[a] = 0 /\ end[b] = Len(u)
    /\ \A i, j \in a..b : i <= j => end[i] <= end[j]
    /\ \A i \in a + 1..b :
         /\ end[i] = end[i - 1] + Size(o[i])
         /\ \A j \in 1..Size(o[i]) : u[end[i - 1] + j] = Block(o[i])[j]

\* What the list and the worker of the socket still have.
Backlog == IF dispatch = None THEN <<>> ELSE packets[dispatch]
Sending == IF dispatch = None THEN <<>> ELSE rest[dispatch]

\* Extract has returned a packet that was not handled yet.
Holding == mpc \in {"delete", "empty", "handle"}

\* The units behind that packet: Delete removes its own later.
Unread == IF mpc \in {"delete", "empty"} THEN Drop(stream, Len(block)) ELSE stream

\* What is on its way, from the monitor back to the worker.
Flow == Unread \o (wire \o Sending)

\* The packets up to Read have left the stream, those up to Sent have left the list.
Read == Len(handled) + (IF Holding THEN 1 ELSE 0)
Sent  == Len(order) - Len(Backlog)

\* One list at most is in use, and a worker sends the block that it took.
ListInv ==
  /\ \A t \in Threads : tpc[t] \in {"push", "signal"} => list[t] = dispatch /\ dispatch # None
  /\ \A l \in Lists : l # dispatch => packets[l] = <<>> /\ rest[l] = <<>> /\ wpc[l] = "none"
  /\ \A l \in Lists : wpc[l] # "send" => rest[l] = <<>>

\* The packet in the monitor's hands is in the stream until it was deleted.
MonitorInv ==
  /\ mpc \in {"delete", "empty"} => Len(block) <= Len(stream)
  /\ mpc = "empty" => Len(block) = Len(stream)

\* The packets that were queued are those handled, the one in the monitor's
\* hands, those on their way and those in the list.
OrderInv ==
  /\ Sent \in Nat /\ Read <= Sent
  /\ \A i \in 1..Len(Backlog) : Backlog[i] = order[Sent + i]
  /\ \A i \in 1..Len(handled) : handled[i] = Block(order[i])
  /\ Holding => block = Block(order[Read])
  /\ Laid(order, Read, Sent, Flow)

\* What a thread, and the monitor, found before it goes on: this holds with
\* races too.
TakenInv ==
  /\ \A t \in Threads : tpc[t] \in {"create", "push"} => todo[t] # <<>>
  /\ mpc = "pop" => queue > 0

\* The inductive invariant.  Nothing happens after a race.
IInv == TypeOK /\ TakenInv /\ (~raced => ListInv /\ MonitorInv /\ OrderInv)

-----------------------------------------------------------------------------
(* Blocks and sequences of blocks                                          *)

\* A block has the units of its packet.
LEMMA BlockType ==
  ASSUME NEW k \in Packets
  PROVE  /\ Size(k) \in Nat /\ Size(k) > HeadLen /\ HeadLen \in Nat \ {0}
         /\ Block(k) \in Seq(Units) /\ Len(Block(k)) = Size(k)
         /\ Block(k)[HeadLen] = <<k, HeadLen>>
<1>1. Size(k) \in Nat /\ Size(k) > HeadLen /\ HeadLen \in Nat \ {0}
  <2>1. DataLen[k] \in Nat \ {0} /\ HeadLen \in Nat \ {0}
    BY DeliveryAssumption
  <2> QED BY <2>1 DEF Size
<1>2. \A i \in 1..Size(k) : <<k, IF i > HeadLen THEN HeadLen + 1 ELSE i>> \in Units
  BY <1>1 DEF Units
<1>3. Block(k) = [i \in 1..Size(k) |-> <<k, IF i > HeadLen THEN HeadLen + 1 ELSE i>>]
  BY DEF Block, Size
<1>4. Block(k) \in [1..Size(k) -> Units]
  BY <1>2, <1>3
<1>5. Block(k) \in Seq(Units) /\ Len(Block(k)) = Size(k)
  BY <1>1, <1>4
<1>6. Block(k)[HeadLen] = <<k, HeadLen>>
  BY <1>1, <1>3
<1> QED BY <1>1, <1>5, <1>6

\* What Drop leaves.
LEMMA DropProperties ==
  ASSUME NEW s \in Seq(Units), NEW n \in 0..Len(s)
  PROVE  /\ Drop(s, n) \in Seq(Units) /\ Len(Drop(s, n)) = Len(s) - n
         /\ \A i \in 1..Len(s) - n : Drop(s, n)[i] = s[n + i]
<1>1. Len(s) \in Nat /\ n + 1 \in Int /\ \A i \in n + 1..Len(s) : s[i] \in Units
  BY LenProperties, ElementOfSeq
<1>2. /\ Drop(s, n) \in Seq(Units)
      /\ Len(Drop(s, n)) = IF n + 1 <= Len(s) THEN Len(s) - (n + 1) + 1 ELSE 0
      /\ \A i \in 1..Len(s) - (n + 1) + 1 : Drop(s, n)[i] = s[n + 1 + i - 1]
  BY <1>1, SubSeqProperties DEF Drop
<1> QED BY <1>1, <1>2

\* What the first units of a sequence are.
LEMMA FrontProperties ==
  ASSUME NEW s \in Seq(Units), NEW n \in 0..Len(s)
  PROVE  /\ SubSeq(s, 1, n) \in Seq(Units) /\ Len(SubSeq(s, 1, n)) = n
         /\ \A i \in 1..n : SubSeq(s, 1, n)[i] = s[i]
         /\ SubSeq(s, 1, n) \o Drop(s, n) = s
<1>1. Len(s) \in Nat /\ \A i \in 1..n : s[i] \in Units
  BY LenProperties, ElementOfSeq
<1>2. /\ SubSeq(s, 1, n) \in Seq(Units)
      /\ Len(SubSeq(s, 1, n)) = IF 1 <= n THEN n - 1 + 1 ELSE 0
      /\ \A i \in 1..n - 1 + 1 : SubSeq(s, 1, n)[i] = s[1 + i - 1]
  BY <1>1, SubSeqProperties
<1>3. SubSeq(s, 1, n) \o SubSeq(s, n + 1, Len(s)) = SubSeq(s, 1, Len(s))
  <2>1. 1 \in 1..Len(s) + 1 /\ n \in 1 - 1..Len(s) /\ Len(s) \in n..Len(s)
    BY <1>1
  <2> QED BY <2>1, ConcatAdjacentSubSeq
<1>4. SubSeq(s, 1, Len(s)) = s
  BY SubSeqFull
<1>5. Len(SubSeq(s, 1, n)) = n
  BY <1>1, <1>2
<1>6. \A i \in 1..n : SubSeq(s, 1, n)[i] = s[i]
  BY <1>1, <1>2
<1> QED BY <1>2, <1>3, <1>4, <1>5, <1>6, Zenon DEF Drop

\* Dropping units commutes with adding others behind them.
LEMMA DropOfConcat ==
  ASSUME NEW s \in Seq(Units), NEW u \in Seq(Units), NEW n \in 0..Len(s)
  PROVE  Drop(s \o u, n) = Drop(s, n) \o u
<1>1. Len(s) \in Nat /\ Len(u) \in Nat
  BY LenProperties
<1>2. /\ s \o u \in Seq(Units) /\ Len(s \o u) = Len(s) + Len(u)
      /\ \A i \in 1..Len(s) + Len(u) :
           (s \o u)[i] = IF i <= Len(s) THEN s[i] ELSE u[i - Len(s)]
  BY ConcatProperties
<1>3. n \in 0..Len(s \o u)
  BY <1>1, <1>2
<1> DEFINE x == Drop(s \o u, n)
           d == Drop(s, n)
           y == d \o u
<1>4. x \in Seq(Units) /\ Len(x) = Len(s \o u) - n /\ \A i \in 1..Len(s \o u) - n : x[i] = (s \o u)[n + i]
  BY <1>2, <1>3, DropProperties
<1>5. d \in Seq(Units) /\ Len(d) = Len(s) - n /\ \A i \in 1..Len(s) - n : d[i] = s[n + i]
  BY DropProperties
<1>6. /\ y \in Seq(Units) /\ Len(y) = Len(d) + Len(u)
      /\ \A i \in 1..Len(d) + Len(u) : y[i] = IF i <= Len(d) THEN d[i] ELSE u[i - Len(d)]
  BY <1>5, ConcatProperties
<1> HIDE DEF x, d, y
<1>7. Len(x) = Len(y)
  BY <1>1, <1>2, <1>4, <1>5, <1>6
<1>8. ASSUME NEW i \in 1..Len(x)
      PROVE  x[i] = y[i]
  <2>1. CASE i <= Len(s) - n
    <3>1. n + i \in 1..Len(s) + Len(u) /\ n + i <= Len(s) /\ i \in 1..Len(d) + Len(u)
      BY <1>1, <1>2, <1>4, <1>5, <2>1
    <3>2. x[i] = s[n + i]
      <4>1. i \in 1..Len(s \o u) - n
        BY <1>4
      <4> QED BY <1>2, <1>4, <3>1, <4>1
    <3>3. y[i] = d[i] /\ d[i] = s[n + i]
      BY <1>1, <1>5, <1>6, <2>1, <3>1
    <3> QED BY <3>2, <3>3
  <2>2. CASE ~(i <= Len(s) - n)
    <3>1. n + i \in 1..Len(s) + Len(u) /\ ~(n + i <= Len(s)) /\ i \in 1..Len(d) + Len(u)
      BY <1>1, <1>2, <1>4, <1>5, <2>2
    <3>2. x[i] = u[n + i - Len(s)]
      BY <1>2, <1>4, <3>1
    <3>3. y[i] = u[i - Len(d)] /\ i - Len(d) = n + i - Len(s)
      BY <1>1, <1>5, <1>6, <2>2, <3>1
    <3> QED BY <3>2, <3>3
  <2> QED BY <2>1, <2>2
<1>9. x = y
  BY <1>4, <1>6, <1>7, <1>8, SeqEqual
<1> QED BY <1>9 DEF x, y, d

\* Units joined with others may be joined in any order of the joins.
LEMMA Joined ==
  ASSUME NEW s \in Seq(Units), NEW t \in Seq(Units), NEW u \in Seq(Units)
  PROVE  (s \o t) \o u = s \o (t \o u)
BY ConcatAssociative

\* No units are no packets.
LEMMA LaidEmpty ==
  ASSUME NEW o, NEW a \in Nat
  PROVE  Laid(o, a, a, <<>>)
<1> DEFINE end == [i \in a..a |-> 0]
<1>1. end \in [a..a -> Nat] /\ end[a] = 0 /\ Len(<<>>) = 0 /\ a + 1..a = {}
  <2>1. a \in a..a /\ a + 1..a = {}
    OBVIOUS
  <2> QED BY <2>1, EmptySeq
<1>2. \A i, j \in a..a : i <= j => end[i] <= end[j]
  OBVIOUS
<1> HIDE DEF end
<1> QED BY <1>1, <1>2 DEF Laid

\* Other packets than those laid do not matter.
LEMMA LaidSame ==
  ASSUME NEW o, NEW p, NEW a, NEW b, NEW u, Laid(o, a, b, u),
         \A i \in a + 1..b : p[i] = o[i]
  PROVE  Laid(p, a, b, u)
<1>1. \A i \in a + 1..b : Size(p[i]) = Size(o[i]) /\ Block(p[i]) = Block(o[i])
  OBVIOUS
<1>2. PICK end \in [a..b -> Nat] :
        /\ end[a] = 0 /\ end[b] = Len(u)
        /\ \A i, j \in a..b : i <= j => end[i] <= end[j]
        /\ \A i \in a + 1..b :
             /\ end[i] = end[i - 1] + Size(o[i])
             /\ \A j \in 1..Size(o[i]) : u[end[i - 1] + j] = Block(o[i])[j]
  BY DEF Laid
<1>3. \A i \in a + 1..b :
        /\ end[i] = end[i - 1] + Size(p[i])
        /\ \A j \in 1..Size(p[i]) : u[end[i - 1] + j] = Block(p[i])[j]
  <2> TAKE i \in a + 1..b
  <2>1. Size(p[i]) = Size(o[i]) /\ Block(p[i]) = Block(o[i])
    BY <1>1
  <2>2. end[i] = end[i - 1] + Size(o[i])
    BY <1>2
  <2>3. \A j \in 1..Size(o[i]) : u[end[i - 1] + j] = Block(o[i])[j]
    BY <1>2
  <2> QED BY <2>1, <2>2, <2>3, Zenon
<1>4. end[a] = 0 /\ end[b] = Len(u)
  BY <1>2
<1>5. \A i, j \in a..b : i <= j => end[i] <= end[j]
  BY <1>2
<1> QED BY <1>3, <1>4, <1>5, Zenon DEF Laid

\* The block of the next packet, behind the others.
LEMMA LaidMore ==
  ASSUME NEW o, NEW a \in Nat, NEW b \in Nat, a <= b, NEW u \in Seq(Units), Laid(o, a, b, u),
         \A i \in a + 1..b + 1 : o[i] \in Packets
  PROVE  Laid(o, a, b + 1, u \o Block(o[b + 1]))
<1> DEFINE k == o[b + 1]
           v == u \o Block(k)
<1>0. k \in Packets
  OBVIOUS
<1>1. Size(k) \in Nat /\ Block(k) \in Seq(Units) /\ Len(Block(k)) = Size(k)
  BY <1>0, BlockType
<1>2. Len(u) \in Nat
  BY LenProperties
<1>3. Len(v) = Len(u) + Size(k)
  BY <1>1, ConcatProperties
<1>4. \A i \in 1..Len(u) + Size(k) : v[i] = IF i <= Len(u) THEN u[i] ELSE Block(k)[i - Len(u)]
  BY <1>1, ConcatProperties
<1>5. PICK end \in [a..b -> Nat] :
        /\ end[a] = 0 /\ end[b] = Len(u)
        /\ \A i, j \in a..b : i <= j => end[i] <= end[j]
        /\ \A i \in a + 1..b :
             /\ end[i] = end[i - 1] + Size(o[i])
             /\ \A j \in 1..Size(o[i]) : u[end[i - 1] + j] = Block(o[i])[j]
  BY DEF Laid
<1> DEFINE e == [i \in a..b + 1 |-> IF i <= b THEN end[i] ELSE Len(u) + Size(k)]
<1>6. e \in [a..b + 1 -> Nat]
  BY <1>1, <1>2
<1>7. e[b + 1] = Len(v) /\ \A i \in a..b : e[i] = end[i]
  BY <1>3
<1>8. \A i \in a..b : end[i] \in Nat /\ end[i] <= Len(u)
  BY <1>5
<1> HIDE DEF e, v, k
<1>9. \A i, j \in a..b + 1 : i <= j => e[i] <= e[j]
  <2> SUFFICES ASSUME NEW i \in a..b + 1, NEW j \in a..b + 1, i <= j
               PROVE  e[i] <= e[j]
    OBVIOUS
  <2>1. CASE j <= b
    <3>1. i \in a..b /\ j \in a..b
      BY <2>1
    <3> QED BY <1>5, <1>7, <3>1
  <2>2. CASE j = b + 1
    <3>1. CASE i = b + 1
      BY <1>6, <2>2, <3>1
    <3>2. CASE i # b + 1
      <4>1. i \in a..b
        BY <3>2
      <4>2. e[i] = end[i] /\ end[i] \in Nat /\ end[i] <= Len(u)
        BY <1>7, <1>8, <4>1
      <4>3. e[j] = Len(u) + Size(k)
        BY <1>3, <1>7, <2>2
      <4> QED BY <1>1, <1>2, <4>2, <4>3
    <3> QED BY <3>1, <3>2
  <2> QED BY <2>1, <2>2
<1>10. ASSUME NEW i \in a + 1..b + 1
       PROVE  /\ e[i] = e[i - 1] + Size(o[i])
              /\ \A j \in 1..Size(o[i]) : v[e[i - 1] + j] = Block(o[i])[j]
  <2>1. CASE i <= b
    <3>1. i \in a + 1..b /\ i \in a..b /\ i - 1 \in a..b
      BY <2>1
    <3>2. e[i] = end[i] /\ e[i - 1] = end[i - 1]
      BY <1>7, <3>1
    <3>3. end[i] = end[i - 1] + Size(o[i])
      BY <1>5, <3>1
    <3>4. ASSUME NEW j \in 1..Size(o[i])
          PROVE  v[end[i - 1] + j] = Block(o[i])[j]
      <4>0. end[i] \in Nat /\ end[i] <= Len(u) /\ end[i - 1] \in Nat
        BY <1>8, <3>1
      <4>1. end[i - 1] + j <= end[i] /\ end[i - 1] + j > 0
        <5>1. j >= 1 /\ j <= end[i] - end[i - 1] /\ j \in Int
          <6>1. Size(o[i]) \in Nat
            BY <3>1, BlockType
          <6>2. Size(o[i]) = end[i] - end[i - 1]
            BY <3>3, <4>0, <6>1
          <6> QED BY <4>0, <6>1, <6>2
        <5> QED BY <5>1, <4>0
      <4>2. v[end[i - 1] + j] = u[end[i - 1] + j]
        <5>1. end[i - 1] + j \in 1..Len(u) + Size(k) /\ end[i - 1] + j <= Len(u)
          <6>1. end[i - 1] + j \in Int
            BY <4>0, <3>1, BlockType
          <6> QED BY <1>1, <1>2, <4>0, <4>1, <6>1
        <5> QED BY <1>4, <5>1
      <4>3. u[end[i - 1] + j] = Block(o[i])[j]
        BY <1>5, <3>1
      <4> QED BY <4>2, <4>3
    <3> QED BY <3>2, <3>3, <3>4
  <2>2. CASE i = b + 1
    <3>1. e[i] = Len(u) + Size(k) /\ e[i - 1] = Len(u) /\ o[i] = k
      <4>1. i - 1 = b /\ b \in a..b
        BY <2>2
      <4> QED BY <1>3, <1>5, <1>7, <2>2, <4>1 DEF k
    <3>2. ASSUME NEW j \in 1..Size(k)
          PROVE  v[Len(u) + j] = Block(k)[j]
      <4>1. Len(u) + j \in 1..Len(u) + Size(k) /\ ~(Len(u) + j <= Len(u)) /\ Len(u) + j - Len(u) = j
        BY <1>1, <1>2
      <4> QED BY <1>4, <4>1
    <3> QED BY <3>1, <3>2
  <2> QED BY <2>1, <2>2
<1>11. e[a] = 0
  <2>1. a \in a..b
    OBVIOUS
  <2> QED BY <1>5, <1>7, <2>1
<1>12. Laid(o, a, b + 1, v)
  BY <1>6, <1>7, <1>9, <1>10, <1>11 DEF Laid
<1> QED BY <1>12 DEF v, k

\* Units that are there belong to a packet.
LEMMA LaidSome ==
  ASSUME NEW o, NEW a \in Nat, NEW b \in Nat, a <= b, NEW u, Laid(o, a, b, u), Len(u) # 0
  PROVE  a < b
<1>1. a # b
  BY DEF Laid
<1> QED BY <1>1

\* The first packet is at the front, and the others are behind it.
LEMMA LaidLess ==
  ASSUME NEW o, NEW a \in Nat, NEW b \in Nat, a < b, NEW u \in Seq(Units), Laid(o, a, b, u),
         \A i \in a + 1..b : o[i] \in Packets
  PROVE  /\ Size(o[a + 1]) <= Len(u)
         /\ \A j \in 1..Size(o[a + 1]) : u[j] = Block(o[a + 1])[j]
         /\ Laid(o, a + 1, b, Drop(u, Size(o[a + 1])))
<1> DEFINE k == o[a + 1]
           n == Size(k)
           v == Drop(u, n)
<1>1. n \in Nat
  <2>1. k \in Packets
    OBVIOUS
  <2> QED BY <2>1, BlockType
<1>2. PICK end \in [a..b -> Nat] :
        /\ end[a] = 0 /\ end[b] = Len(u)
        /\ \A i, j \in a..b : i <= j => end[i] <= end[j]
        /\ \A i \in a + 1..b :
             /\ end[i] = end[i - 1] + Size(o[i])
             /\ \A j \in 1..Size(o[i]) : u[end[i - 1] + j] = Block(o[i])[j]
  BY DEF Laid
<1> HIDE DEF n, k
<1>3. end[a + 1] = n
  <2>1. a + 1 \in a + 1..b /\ a + 1 - 1 = a
    OBVIOUS
  <2>2. end[a + 1] = end[a] + Size(o[a + 1])
    BY <1>2, <2>1
  <2> QED BY <1>1, <1>2, <2>2 DEF n, k
<1>4. ASSUME NEW j \in 1..n
      PROVE  u[j] = Block(k)[j]
  <2>1. a + 1 \in a + 1..b /\ a + 1 - 1 = a
    OBVIOUS
  <2>2. u[end[a] + j] = Block(k)[j]
    BY <1>2, <2>1 DEF n, k
  <2>3. end[a] + j = j
    BY <1>2, <1>1
  <2> QED BY <2>2, <2>3
<1>5. \A i \in a + 1..b : end[i] \in Nat /\ n <= end[i] /\ end[i] <= Len(u)
  <2> TAKE i \in a + 1..b
  <2>1. i \in a..b /\ a + 1 \in a..b /\ b \in a..b /\ a + 1 <= i /\ i <= b
    OBVIOUS
  <2> QED BY <1>2, <1>3, <2>1
<1>6. n <= Len(u) /\ Len(u) \in Nat
  <2>1. b \in a + 1..b
    OBVIOUS
  <2> QED BY <1>2, <1>5, <2>1, LenProperties
<1>7. v \in Seq(Units) /\ Len(v) = Len(u) - n /\ \A i \in 1..Len(u) - n : v[i] = u[n + i]
  <2>1. n \in 0..Len(u)
    BY <1>1, <1>6
  <2> QED BY <2>1, DropProperties
<1> DEFINE e == [i \in a + 1..b |-> end[i] - n]
<1>8. e \in [a + 1..b -> Nat] /\ \A i \in a + 1..b : e[i] = end[i] - n
  BY <1>1, <1>5
<1> HIDE DEF e, v
<1>9. e[a + 1] = 0 /\ e[b] = Len(v)
  <2>1. a + 1 \in a + 1..b /\ b \in a + 1..b
    OBVIOUS
  <2> QED BY <1>1, <1>2, <1>3, <1>7, <1>8, <2>1
<1>10. \A i, j \in a + 1..b : i <= j => e[i] <= e[j]
  <2> SUFFICES ASSUME NEW i \in a + 1..b, NEW j \in a + 1..b, i <= j
               PROVE  e[i] <= e[j]
    OBVIOUS
  <2>1. i \in a..b /\ j \in a..b
    OBVIOUS
  <2>2. end[i] <= end[j]
    BY <1>2, <2>1
  <2>3. end[i] \in Nat /\ end[j] \in Nat /\ n \in Nat /\ n <= end[i] /\ n <= end[j]
    BY <1>1, <1>5
  <2>4. e[i] = end[i] - n /\ e[j] = end[j] - n
    BY <1>8
  <2> QED BY <2>2, <2>3, <2>4
<1>11. ASSUME NEW i \in a + 1 + 1..b
       PROVE  /\ e[i] = e[i - 1] + Size(o[i])
              /\ \A j \in 1..Size(o[i]) : v[e[i - 1] + j] = Block(o[i])[j]
  <2>1. i \in a + 1..b /\ i - 1 \in a + 1..b
    OBVIOUS
  <2>2. Size(o[i]) \in Nat
    BY <2>1, BlockType
  <2>3. end[i] = end[i - 1] + Size(o[i])
    BY <1>2, <2>1
  <2>4. e[i] = end[i] - n /\ e[i - 1] = end[i - 1] - n
    BY <1>8, <2>1
  <2>5. end[i] \in Nat /\ end[i - 1] \in Nat /\ n <= end[i - 1] /\ end[i] <= Len(u)
    BY <1>5, <2>1
  <2>6. ASSUME NEW j \in 1..Size(o[i])
        PROVE  v[e[i - 1] + j] = Block(o[i])[j]
    <3>1. e[i - 1] + j \in 1..Len(u) - n /\ n + (e[i - 1] + j) = end[i - 1] + j
      BY <1>1, <1>6, <2>2, <2>3, <2>4, <2>5, SMTT(30)
    <3>2. v[e[i - 1] + j] = u[end[i - 1] + j]
      BY <1>7, <3>1
    <3>3. u[end[i - 1] + j] = Block(o[i])[j]
      BY <1>2, <2>1
    <3> QED BY <3>2, <3>3
  <2> QED BY <1>1, <2>2, <2>3, <2>4, <2>5, <2>6
<1>12. Laid(o, a + 1, b, v)
  BY <1>8, <1>9, <1>10, <1>11 DEF Laid
<1> QED BY <1>4, <1>6, <1>12 DEF n, k, v

-----------------------------------------------------------------------------
(* The flow                                                                *)

\* The assumption, with the types it gives to heads.
LEMMA Names ==
  /\ HeadLen \in Nat \ {0} /\ Lists = Threads /\ None \notin Threads
  /\ \A t \in Threads : Program[t] \in Seq(Packets)
BY DeliveryAssumption DEF Lists

\* What the invariant says of the sequences on the way.
LEMMA FlowType ==
  ASSUME TypeOK, MonitorInv
  PROVE  /\ Backlog \in Seq(Packets) /\ Sending \in Seq(Units) /\ Unread \in Seq(Units)
         /\ wire \in Seq(Units) /\ wire \o Sending \in Seq(Units) /\ Flow \in Seq(Units)
         /\ Len(Backlog) \in Nat /\ Len(order) \in Nat /\ Len(handled) \in Nat
         /\ Len(stream) \in Nat /\ Len(block) \in Nat
         /\ Read \in Nat /\ Sent \in Int
<1>1. Backlog \in Seq(Packets) /\ Sending \in Seq(Units)
  <2>1. CASE dispatch = None
    BY <2>1, EmptySeq DEF Backlog, Sending
  <2>2. CASE dispatch # None
    <3>1. dispatch \in Lists
      BY <2>2 DEF TypeOK
    <3> QED BY <2>2, <3>1 DEF Backlog, Sending, TypeOK
  <2> QED BY <2>1, <2>2
<1>2. /\ wire \in Seq(Units) /\ stream \in Seq(Units) /\ block \in Seq(Units)
      /\ order \in Seq(Packets) /\ handled \in Seq(Seq(Units))
  BY DEF TypeOK
<1>3. /\ Len(Backlog) \in Nat /\ Len(order) \in Nat /\ Len(handled) \in Nat
      /\ Len(stream) \in Nat /\ Len(block) \in Nat
  BY <1>1, <1>2, LenProperties
<1>4. Unread \in Seq(Units)
  <2>1. CASE mpc \in {"delete", "empty"}
    <3>1. Len(block) \in 0..Len(stream)
      BY <1>3, <2>1 DEF MonitorInv
    <3> QED BY <1>2, <2>1, <3>1, DropProperties DEF Unread
  <2>2. CASE mpc \notin {"delete", "empty"}
    BY <1>2, <2>2 DEF Unread
  <2> QED BY <2>1, <2>2
<1>5. wire \o Sending \in Seq(Units)
  BY <1>1, <1>2, ConcatProperties
<1>6. Flow \in Seq(Units)
  BY <1>4, <1>5, ConcatProperties DEF Flow
<1>7. Read \in Nat /\ Sent \in Int
  BY <1>3 DEF Read, Sent
<1> QED BY <1>1, <1>2, <1>3, <1>4, <1>5, <1>6, <1>7

\* Steps that move units along, and no packet.
LEMMA OrderSame ==
  ASSUME OrderInv, UNCHANGED <<order, handled, Backlog, Holding, Flow>>,
         Holding => block' = block
  PROVE  OrderInv'
<1>1. Read' = Read /\ Sent' = Sent
  BY DEF Read, Sent
<1>2. Laid(order, Read, Sent, Flow)'
  BY <1>1 DEF OrderInv
<1> QED BY <1>1, <1>2 DEF OrderInv

\* Steps of the threads and workers keep what the monitor has, and steps of the
\* monitor what they have.
LEMMA UnreadSame ==
  ASSUME UNCHANGED <<mpc, stream, block, handled>>
  PROVE  Unread' = Unread /\ Holding' = Holding /\ Read' = Read /\ (MonitorInv => MonitorInv')
BY DEF Unread, Holding, Read, MonitorInv

LEMMA ServiceSame ==
  ASSUME UNCHANGED service
  PROVE  /\ Backlog' = Backlog /\ Sending' = Sending /\ Sent' = Sent
         /\ (ListInv => ListInv')
BY DEF service, Backlog, Sending, Sent, ListInv

\* The initial state.
LEMMA InitInv == Init => IInv
<1> SUFFICES ASSUME Init PROVE IInv
  OBVIOUS
<1>1. TypeOK
  <2>1. /\ todo \in [Threads -> Seq(Packets)]
        /\ packets \in [Lists -> Seq(Packets)] /\ rest \in [Lists -> Seq(Units)]
        /\ order \in Seq(Packets) /\ wire \in Seq(Units)
        /\ stream \in Seq(Units) /\ block \in Seq(Units) /\ handled \in Seq(Seq(Units))
    BY DeliveryAssumption, EmptySeq DEF Init
  <2>2. /\ tpc \in [Threads -> {"idle", "create", "push", "signal"}]
        /\ list \in [Threads -> Lists \cup {None}] /\ dispatch \in Lists \cup {None}
        /\ wpc \in [Lists -> {"none", "test", "send", "wait", "sleep"}]
        /\ queue \in Nat
    BY DEF Init
  <2> QED BY <2>1, <2>2 DEF Init, TypeOK
<1>2. TakenInv /\ ListInv /\ MonitorInv
  BY Names DEF Init, TakenInv, ListInv, MonitorInv
<1>3. OrderInv
  <2>1. Backlog = <<>> /\ Sending = <<>> /\ Unread = <<>> /\ ~Holding
    BY DEF Init, Backlog, Sending, Unread, Holding
  <2>2. order = <<>> /\ handled = <<>> /\ wire = <<>> /\ Len(<<>>) = 0
    BY EmptySeq DEF Init
  <2>3. Read = 0 /\ Sent = 0
    BY <2>1, <2>2 DEF Read, Sent
  <2>4. Flow = <<>>
    <3>1. <<>> \in Seq(Units)
      BY EmptySeq
    <3> QED BY <2>1, <2>2, <3>1, ConcatEmptySeq DEF Flow
  <2>5. Laid(order, 0, 0, <<>>)
    BY LaidEmpty
  <2> QED BY <2>1, <2>2, <2>3, <2>4, <2>5 DEF OrderInv
<1> QED BY <1>1, <1>2, <1>3 DEF IInv

-----------------------------------------------------------------------------
(* The threads and the worker of the service                               *)

\* A thread looks the socket up.
LEMMA FindStep ==
  ASSUME IInv, ~raced, NEW t \in Threads, Find(t)
  PROVE  IInv'
<1> USE Names
<1>1. /\ tpc[t] = "idle" /\ todo[t] # <<>>
      /\ list' = [list EXCEPT ![t] = dispatch]
      /\ tpc' = [tpc EXCEPT ![t] = IF dispatch = None THEN "create" ELSE "push"]
      /\ UNCHANGED <<todo, dispatch, packets, wpc, rest, order, wire, pool, stream, monitor,
                     raced>>
  BY DEF Find
<1>2. TypeOK'
  BY <1>1 DEF IInv, TypeOK, pool, monitor
<1>3. TakenInv'
  BY <1>1 DEF IInv, TakenInv, TypeOK, pool, monitor
<1>4. ListInv'
  BY <1>1 DEF IInv, ListInv, TypeOK
<1>5. Unread' = Unread /\ Holding' = Holding /\ MonitorInv'
  BY <1>1, UnreadSame DEF IInv, monitor
<1>6. Backlog' = Backlog /\ Flow' = Flow
  BY <1>1, <1>5 DEF Backlog, Sending, Flow
<1>7. OrderInv'
  BY <1>1, <1>5, <1>6, OrderSame DEF IInv, monitor
<1> QED BY <1>2, <1>3, <1>4, <1>5, <1>7 DEF IInv

\* A thread makes the list: if it is the first, nothing was sent so far.
LEMMA CreateStep ==
  ASSUME IInv, ~raced, NEW t \in Threads, Create(t)
  PROVE  IInv'
<1> USE Names
<1>1. /\ tpc[t] = "create" /\ list' = [list EXCEPT ![t] = t] /\ dispatch' = t
      /\ wpc' = [wpc EXCEPT ![t] = "test"] /\ tpc' = [tpc EXCEPT ![t] = "push"]
      /\ raced' = (raced \/ dispatch # None)
      /\ UNCHANGED <<todo, packets, rest, order, wire, pool, stream, monitor>>
  BY DEF Create
<1>2. TypeOK'
  BY <1>1 DEF IInv, TypeOK, pool, monitor
<1>3. TakenInv'
  BY <1>1 DEF IInv, TakenInv, TypeOK, pool, monitor
<1>4. ASSUME ~raced'
      PROVE  ListInv' /\ MonitorInv' /\ OrderInv'
  <2>1. dispatch = None /\ \A l \in Lists : packets[l] = <<>> /\ rest[l] = <<>> /\ wpc[l] = "none"
    BY <1>1, <1>4 DEF IInv, ListInv
  <2>2. ListInv'
    <3>1. \A q \in Threads : tpc[q] \notin {"push", "signal"}
      BY <2>1 DEF IInv, ListInv
    <3> QED BY <1>1, <2>1, <3>1 DEF IInv, ListInv, TypeOK
  <2>3. Unread' = Unread /\ Holding' = Holding /\ MonitorInv'
    BY <1>1, UnreadSame DEF IInv, monitor
  <2>4. Backlog' = Backlog /\ Sending' = Sending
    BY <1>1, <2>1 DEF Backlog, Sending
  <2>5. OrderInv'
    BY <1>1, <2>3, <2>4, OrderSame DEF IInv, monitor, Flow
  <2> QED BY <2>2, <2>3, <2>5
<1> QED BY <1>2, <1>3, <1>4 DEF IInv

\* A thread adds its packet to the list, and to the order.
LEMMA PushStep ==
  ASSUME IInv, ~raced, NEW t \in Threads, Push(t)
  PROVE  IInv'
<1> USE Names
<1> DEFINE k == Head(todo[t])
<1>1. /\ tpc[t] = "push" /\ packets' = [packets EXCEPT ![list[t]] = Append(packets[list[t]], k)]
      /\ order' = Append(order, k) /\ todo' = [todo EXCEPT ![t] = Tail(todo[t])]
      /\ tpc' = [tpc EXCEPT ![t] = "signal"]
      /\ UNCHANGED <<list, dispatch, wpc, rest, wire, pool, stream, monitor, raced>>
  BY DEF Push, Pushed
<1>2. list[t] = dispatch /\ dispatch \in Lists /\ dispatch # None
  BY <1>1 DEF IInv, ListInv, TypeOK
<1>3. k \in Packets /\ Tail(todo[t]) \in Seq(Packets)
  <2>1. todo[t] \in Seq(Packets) /\ todo[t] # <<>>
    BY <1>1 DEF IInv, TypeOK, TakenInv
  <2> QED BY <2>1, HeadTailProperties
<1> HIDE DEF k
<1> DEFINE d == dispatch
<1>4. packets[d] \in Seq(Packets) /\ order \in Seq(Packets)
  BY <1>2 DEF IInv, TypeOK
<1>5. /\ order' \in Seq(Packets) /\ Len(order') = Len(order) + 1
      /\ \A i \in 1..Len(order) : order'[i] = order[i]
      /\ order'[Len(order) + 1] = k
  BY <1>1, <1>3, <1>4, AppendProperties
<1>6. /\ packets'[d] = Append(packets[d], k) /\ packets'[d] \in Seq(Packets)
      /\ Len(packets'[d]) = Len(packets[d]) + 1
      /\ \A i \in 1..Len(packets[d]) : packets'[d][i] = packets[d][i]
      /\ packets'[d][Len(packets[d]) + 1] = k
      /\ \A l \in Lists \ {d} : packets'[l] = packets[l]
  <2>1. packets'[d] = Append(packets[d], k) /\ \A l \in Lists \ {d} : packets'[l] = packets[l]
    BY <1>1, <1>2 DEF IInv, TypeOK
  <2> QED BY <1>3, <1>4, <2>1, AppendProperties
<1>7. TypeOK'
  <2>1. packets' \in [Lists -> Seq(Packets)] /\ todo' \in [Threads -> Seq(Packets)]
    BY <1>1, <1>2, <1>3, <1>6 DEF IInv, TypeOK
  <2> QED BY <1>1, <1>5, <2>1 DEF IInv, TypeOK, pool, monitor
<1>8. TakenInv'
  BY <1>1 DEF IInv, TakenInv, TypeOK, pool, monitor
<1>9. ListInv'
  BY <1>1, <1>2, <1>6 DEF IInv, ListInv, TypeOK
<1>10. Unread' = Unread /\ Holding' = Holding /\ Read' = Read /\ MonitorInv'
  BY <1>1, UnreadSame DEF IInv, monitor
<1>11. OrderInv'
  <2>1. /\ Backlog = packets[d] /\ Backlog' = packets'[d] /\ Sending' = Sending
    BY <1>1, <1>2 DEF Backlog, Sending
  <2>2. Flow' = Flow
    BY <1>1, <1>10, <2>1 DEF Flow
  <2>3. Len(order) \in Nat /\ Len(Backlog) \in Nat /\ Read \in Nat /\ Len(handled) \in Nat
    BY FlowType DEF IInv
  <2>4. Sent' = Sent
    <3>1. Len(order') = Len(order) + 1
      BY <1>5
    <3>2. Len(Backlog') = Len(Backlog) + 1
      BY <1>6, <2>1
    <3> QED BY <2>3, <3>1, <3>2 DEF Sent
  <2>5. Sent \in Nat /\ Read <= Sent /\ Sent + Len(Backlog) = Len(order)
    BY <2>3 DEF IInv, OrderInv, Sent
  <2>6. \A i \in 1..Sent : order'[i] = order[i]
    BY <1>5, <2>3, <2>5
  <2>7. ASSUME NEW i \in 1..Len(Backlog')
        PROVE  Backlog'[i] = order'[Sent + i]
    <3>1. CASE i \in 1..Len(Backlog)
      <4>1. Sent + i \in 1..Len(order)
        BY <2>3, <2>5, <3>1
      <4>2. Backlog[i] = order[Sent + i]
        BY <3>1 DEF IInv, OrderInv
      <4> QED BY <1>5, <1>6, <2>1, <3>1, <4>1, <4>2
    <3>2. CASE i = Len(Backlog) + 1
      <4>1. Sent + i = Len(order) + 1
        BY <2>3, <2>5, <3>2
      <4> QED BY <1>5, <1>6, <2>1, <3>2, <4>1
    <3> QED BY <1>6, <2>1, <2>3, <3>1, <3>2
  <2>8. \A i \in 1..Len(handled) : i \in 1..Sent
    BY <2>3, <2>5 DEF Read
  <2>9. handled' = handled /\ block' = block
    BY <1>1 DEF monitor
  <2>10. \A i \in 1..Len(handled') : handled'[i] = Block(order'[i])
    BY <2>6, <2>8, <2>9 DEF IInv, OrderInv
  <2>11. Holding' => block' = Block(order'[Read'])
    <3>1. Holding => Read \in 1..Sent
      BY <2>3, <2>5 DEF Read
    <3> QED BY <1>10, <2>6, <2>9, <3>1 DEF IInv, OrderInv
  <2>12. Laid(order', Read, Sent, Flow)
    <3>1. \A i \in Read + 1..Sent : order'[i] = order[i]
      BY <2>3, <2>5, <2>6
    <3>2. Laid(order, Read, Sent, Flow)
      BY DEF IInv, OrderInv
    <3> QED BY <3>1, <3>2, LaidSame
  <2> QED BY <1>10, <2>2, <2>4, <2>5, <2>7, <2>10, <2>11, <2>12 DEF OrderInv
<1> QED BY <1>7, <1>8, <1>9, <1>10, <1>11 DEF IInv

\* A thread wakes the worker.
LEMMA SignalStep ==
  ASSUME IInv, ~raced, NEW t \in Threads, Signal(t)
  PROVE  IInv'
<1> USE Names
<1>1. /\ tpc[t] = "signal" /\ tpc' = [tpc EXCEPT ![t] = "idle"]
      /\ wpc' = [wpc EXCEPT ![list[t]] = IF @ = "sleep" THEN "test" ELSE @]
      /\ UNCHANGED <<todo, list, dispatch, packets, rest, order, wire, pool, stream, monitor,
                     raced>>
  BY DEF Signal
<1>2. list[t] = dispatch /\ dispatch \in Lists /\ dispatch # None
  BY <1>1 DEF IInv, ListInv, TypeOK
<1>3. TypeOK'
  BY <1>1, <1>2 DEF IInv, TypeOK, pool, monitor
<1>4. TakenInv'
  BY <1>1 DEF IInv, TakenInv, TypeOK, pool, monitor
<1>5. ListInv'
  BY <1>1, <1>2 DEF IInv, ListInv, TypeOK
<1>6. Unread' = Unread /\ Holding' = Holding /\ MonitorInv'
  BY <1>1, UnreadSame DEF IInv, monitor
<1>7. Backlog' = Backlog /\ Flow' = Flow
  BY <1>1, <1>6 DEF Backlog, Sending, Flow
<1>8. OrderInv'
  BY <1>1, <1>6, <1>7, OrderSame DEF IInv, monitor
<1> QED BY <1>3, <1>4, <1>5, <1>6, <1>8 DEF IInv

\* The worker takes a packet from the list: its block comes behind the others.
LEMMA TakeStep ==
  ASSUME IInv, ~raced, NEW l \in Lists, Take(l)
  PROVE  IInv'
<1> USE Names
<1> DEFINE k == Head(packets[l])
<1>1. /\ wpc[l] = "test" /\ packets[l] # <<>>
      /\ rest' = [rest EXCEPT ![l] = Block(k)]
      /\ packets' = [packets EXCEPT ![l] = Tail(packets[l])]
      /\ wpc' = [wpc EXCEPT ![l] = "send"]
      /\ UNCHANGED <<todo, tpc, list, dispatch, order, wire, pool, stream, monitor, raced>>
  BY DEF Take
<1>2. l = dispatch /\ dispatch # None /\ rest[l] = <<>>
  <2>1. l = dispatch
    BY <1>1 DEF IInv, ListInv
  <2> QED BY <1>1, <2>1 DEF IInv, ListInv
<1>3. packets[l] \in Seq(Packets) /\ order \in Seq(Packets)
  BY DEF IInv, TypeOK
<1>4. /\ k = packets[l][1] /\ k \in Packets /\ Tail(packets[l]) \in Seq(Packets)
      /\ Len(Tail(packets[l])) = Len(packets[l]) - 1
      /\ \A i \in 1..Len(Tail(packets[l])) : Tail(packets[l])[i] = packets[l][i + 1]
      /\ Len(packets[l]) \in Nat \ {0}
  BY <1>1, <1>3, HeadTailProperties, EmptySeq
<1> HIDE DEF k
<1>5. Block(k) \in Seq(Units)
  BY <1>4, BlockType
<1>6. TypeOK'
  BY <1>1, <1>4, <1>5 DEF IInv, TypeOK, pool, monitor
<1>7. TakenInv'
  BY <1>1 DEF IInv, TakenInv, pool, monitor
<1>8. ListInv'
  BY <1>1, <1>2 DEF IInv, ListInv, TypeOK
<1>9. Unread' = Unread /\ Holding' = Holding /\ Read' = Read /\ MonitorInv'
  BY <1>1, UnreadSame DEF IInv, monitor
<1>10. OrderInv'
  <2>1. /\ Backlog = packets[l] /\ Backlog' = Tail(packets[l])
        /\ Sending = <<>> /\ Sending' = Block(k)
    BY <1>1, <1>2 DEF Backlog, Sending, IInv, TypeOK
  <2>2. /\ Len(order) \in Nat /\ Len(Backlog) \in Nat /\ Read \in Nat /\ Len(handled) \in Nat
        /\ Unread \in Seq(Units) /\ wire \in Seq(Units) /\ Flow \in Seq(Units)
    BY FlowType DEF IInv
  <2>3. Sent' = Sent + 1
    <3>1. Len(Backlog') = Len(Backlog) - 1 /\ order' = order
      BY <1>1, <1>4, <2>1
    <3> QED BY <2>2, <3>1 DEF Sent
  <2>4. Sent \in Nat /\ Read <= Sent /\ Sent + Len(Backlog) = Len(order)
    BY <2>2 DEF IInv, OrderInv, Sent
  <2>5. k = order[Sent + 1]
    <3>1. 1 \in 1..Len(Backlog)
      BY <1>4, <2>1
    <3> QED BY <1>4, <2>1, <3>1 DEF IInv, OrderInv
  <2>6. ASSUME NEW i \in 1..Len(Backlog')
        PROVE  Backlog'[i] = order[Sent + 1 + i]
    <3>1. i + 1 \in 1..Len(Backlog)
      BY <1>4, <2>1
    <3>2. Backlog[i + 1] = order[Sent + (i + 1)]
      BY <3>1 DEF IInv, OrderInv
    <3>3. Sent + (i + 1) = Sent + 1 + i
      BY <2>4
    <3> QED BY <1>4, <2>1, <3>2, <3>3
  <2>7. Flow' = Flow \o Block(k)
    <3>1. wire \o Sending = wire
      BY <2>1, <2>2, ConcatEmptySeq
    <3>2. Flow' = Unread \o (wire \o Block(k))
      BY <1>1, <1>9, <2>1 DEF Flow
    <3>3. Flow = Unread \o wire
      BY <3>1 DEF Flow
    <3>4. Unread \in Seq(Units) /\ wire \in Seq(Units) /\ Block(k) \in Seq(Units)
      BY <1>5, <2>2
    <3>5. (Unread \o wire) \o Block(k) = Unread \o (wire \o Block(k))
      BY <3>4, Joined
    <3> QED BY <3>2, <3>3, <3>5
  <2>8. Laid(order, Read, Sent + 1, Flow \o Block(k))
    <3>1. \A i \in Read + 1..Sent + 1 : order[i] \in Packets
      <4>1. Sent + 1 <= Len(order)
        BY <1>4, <2>1, <2>4
      <4> QED BY <1>3, <2>2, <2>4, <4>1, ElementOfSeq
    <3>2. Laid(order, Read, Sent, Flow)
      BY DEF IInv, OrderInv
    <3> QED BY <2>2, <2>4, <2>5, <3>1, <3>2, LaidMore
  <2>9. handled' = handled /\ block' = block /\ order' = order
    BY <1>1 DEF monitor
  <2>10. Sent' \in Nat /\ Read' <= Sent'
    BY <1>9, <2>2, <2>3, <2>4
  <2>11. \A i \in 1..Len(Backlog') : Backlog'[i] = order'[Sent' + i]
    BY <2>3, <2>6, <2>9
  <2>12. \A i \in 1..Len(handled') : handled'[i] = Block(order'[i])
    BY <2>9 DEF IInv, OrderInv
  <2>13. Holding' => block' = Block(order'[Read'])
    BY <1>9, <2>9 DEF IInv, OrderInv
  <2>14. Laid(order', Read', Sent', Flow')
    BY <1>9, <2>3, <2>7, <2>8, <2>9
  <2> QED BY <2>10, <2>11, <2>12, <2>13, <2>14 DEF OrderInv
<1> QED BY <1>6, <1>7, <1>8, <1>9, <1>10 DEF IInv

\* The worker sends units.
LEMMA SendStep ==
  ASSUME IInv, ~raced, NEW l \in Lists, Send(l)
  PROVE  IInv'
<1> USE Names
<1>1. /\ wpc[l] = "send"
      /\ UNCHANGED <<todo, tpc, list, dispatch, packets, order, pool, stream, monitor, raced>>
  BY DEF Send
<1>2. PICK n \in 1..Len(rest[l]) :
        /\ wire' = wire \o SubSeq(rest[l], 1, n)
        /\ rest' = [rest EXCEPT ![l] = Drop(rest[l], n)]
        /\ wpc' = [wpc EXCEPT ![l] = IF n = Len(rest[l]) THEN "test" ELSE "send"]
  BY DEF Send
<1>3. l = dispatch /\ dispatch # None
  BY <1>1 DEF IInv, ListInv
<1>4. rest[l] \in Seq(Units) /\ wire \in Seq(Units) /\ Len(rest[l]) \in Nat
  BY LenProperties DEF IInv, TypeOK
<1> DEFINE x == SubSeq(rest[l], 1, n)
           y == Drop(rest[l], n)
<1>5. /\ x \in Seq(Units) /\ y \in Seq(Units) /\ x \o y = rest[l]
      /\ n = Len(rest[l]) => y = <<>>
  <2>1. n \in 0..Len(rest[l])
    BY <1>4
  <2>2. x \in Seq(Units) /\ x \o y = rest[l]
    BY <1>4, <2>1, FrontProperties
  <2>3. y \in Seq(Units) /\ Len(y) = Len(rest[l]) - n
    BY <1>4, <2>1, DropProperties
  <2>4. n = Len(rest[l]) => y = <<>>
    <3>1. n = Len(rest[l]) => Len(y) = 0
      BY <1>4, <2>3
    <3> HIDE DEF y
    <3> QED BY <2>3, <3>1, EmptySeq
  <2> QED BY <2>2, <2>3, <2>4
<1>6. wire' = wire \o x /\ rest' = [rest EXCEPT ![l] = y]
  BY <1>2
<1> HIDE DEF x, y
<1>7. TypeOK'
  <2>1. wire' \in Seq(Units)
    BY <1>4, <1>5, <1>6, ConcatProperties
  <2> QED BY <1>1, <1>2, <1>5, <1>6, <2>1 DEF IInv, TypeOK, pool, monitor
<1>8. TakenInv'
  BY <1>1 DEF IInv, TakenInv, pool, monitor
<1>9. ListInv'
  <2>1. ListInv /\ rest \in [Lists -> Seq(Units)] /\ DOMAIN wpc = Lists
    BY <1>1 DEF IInv, TypeOK
  <2>2. \A t \in Threads :
          tpc'[t] \in {"push", "signal"} => list'[t] = dispatch' /\ dispatch' # None
    BY <1>1, <2>1 DEF ListInv
  <2>3. \A k \in Lists : k # dispatch' =>
          packets'[k] = <<>> /\ rest'[k] = <<>> /\ wpc'[k] = "none"
    BY <1>1, <1>2, <1>3, <1>6, <2>1 DEF ListInv
  <2>4. \A k \in Lists : wpc'[k] # "send" => rest'[k] = <<>>
    BY <1>1, <1>2, <1>5, <1>6, <2>1 DEF ListInv
  <2> QED BY <2>2, <2>3, <2>4 DEF ListInv
<1>10. Unread' = Unread /\ Holding' = Holding /\ MonitorInv'
  BY <1>1, UnreadSame DEF IInv, monitor
<1>11. Backlog' = Backlog /\ Flow' = Flow
  <2>1. Sending = rest[l] /\ Sending' = y /\ Backlog' = Backlog
    BY <1>1, <1>3, <1>6 DEF Backlog, Sending, IInv, TypeOK
  <2>2. wire' \o Sending' = wire \o Sending
    <3>1. (wire \o x) \o y = wire \o (x \o y)
      BY <1>4, <1>5, Joined
    <3> QED BY <1>5, <1>6, <2>1, <3>1
  <2> QED BY <1>10, <2>1, <2>2 DEF Flow
<1>12. OrderInv'
  BY <1>1, <1>10, <1>11, OrderSame DEF IInv, monitor
<1> QED BY <1>7, <1>8, <1>9, <1>10, <1>12 DEF IInv

\* The worker finds its list empty, and waits.
LEMMA RestStep ==
  ASSUME IInv, ~raced, NEW l \in Lists, Leave(l) \/ Wait(l)
  PROVE  IInv'
<1> USE Names
<1>1. /\ wpc[l] \in {"test", "wait"} /\ wpc' \in {[wpc EXCEPT ![l] = x] : x \in {"wait", "sleep"}}
      /\ UNCHANGED <<todo, tpc, list, dispatch, packets, rest, order, wire, pool, stream,
                     monitor, raced>>
  BY DEF Leave, Wait
<1>2. TypeOK'
  BY <1>1 DEF IInv, TypeOK, pool, monitor
<1>3. TakenInv'
  BY <1>1 DEF IInv, TakenInv, pool, monitor
<1>4. ListInv'
  BY <1>1 DEF IInv, ListInv, TypeOK
<1>5. Unread' = Unread /\ Holding' = Holding /\ MonitorInv'
  BY <1>1, UnreadSame DEF IInv, monitor
<1>6. Backlog' = Backlog /\ Flow' = Flow
  BY <1>1, <1>5 DEF Backlog, Sending, Flow
<1>7. OrderInv'
  BY <1>1, <1>5, <1>6, OrderSame DEF IInv, monitor
<1> QED BY <1>2, <1>3, <1>4, <1>5, <1>7 DEF IInv

-----------------------------------------------------------------------------
(* The router                                                              *)

\* The pool thread adds units to the stream: they come behind those of the
\* packet in the monitor's hands.
LEMMA AddDataStep ==
  ASSUME IInv, ~raced, AddData
  PROVE  IInv'
<1> USE Names
<1>1. /\ added' = TRUE /\ raced' = (raced \/ mpc \in {"extract", "empty"})
      /\ UNCHANGED <<service, queue, monitor>>
  BY DEF AddData
<1>2. PICK n \in 1..Len(wire) : stream' = stream \o SubSeq(wire, 1, n) /\ wire' = Drop(wire, n)
  BY DEF AddData
<1> DEFINE x == SubSeq(wire, 1, n)
           y == Drop(wire, n)
<1>3. /\ stream \in Seq(Units) /\ wire \in Seq(Units)
      /\ x \in Seq(Units) /\ y \in Seq(Units) /\ x \o y = wire
  <2>1. stream \in Seq(Units) /\ wire \in Seq(Units) /\ Len(wire) \in Nat
    BY LenProperties DEF IInv, TypeOK
  <2>2. n \in 0..Len(wire)
    BY <2>1
  <2> QED BY <2>1, <2>2, FrontProperties, DropProperties
<1>4. stream' = stream \o x /\ wire' = y
  BY <1>2
<1> HIDE DEF x, y
<1>5. /\ stream' \in Seq(Units) /\ Len(stream') = Len(stream) + Len(x)
      /\ Len(stream) \in Nat /\ Len(x) \in Nat
  BY <1>3, <1>4, ConcatProperties, LenProperties
<1>6. TypeOK'
  BY <1>1, <1>3, <1>4, <1>5 DEF IInv, TypeOK, service, monitor
<1>7. TakenInv'
  BY <1>1 DEF IInv, TakenInv, service, monitor
<1>8. ASSUME ~raced'
      PROVE  ListInv' /\ MonitorInv' /\ OrderInv'
  <2>1. mpc # "empty" /\ mpc' = mpc /\ block' = block
    BY <1>1, <1>8 DEF monitor
  <2>2. MonitorInv /\ OrderInv /\ ListInv
    BY DEF IInv
  <2>3. Len(block) \in Nat
    BY LenProperties DEF IInv, TypeOK
  <2>4. MonitorInv'
    BY <1>5, <2>1, <2>2, <2>3 DEF MonitorInv
  <2>5. Unread' = Unread \o x
    <3>1. CASE mpc = "delete"
      <4>1. Len(block) \in 0..Len(stream)
        BY <1>5, <2>2, <2>3, <3>1 DEF MonitorInv
      <4>2. Drop(stream \o x, Len(block)) = Drop(stream, Len(block)) \o x
        BY <1>3, <4>1, DropOfConcat
      <4> QED BY <1>4, <2>1, <3>1, <4>2 DEF Unread
    <3>2. CASE mpc # "delete"
      BY <1>4, <2>1, <3>2 DEF Unread
    <3> QED BY <3>1, <3>2
  <2>6. Backlog' = Backlog /\ Sending' = Sending /\ ListInv'
    BY <1>1, <2>2, ServiceSame
  <2>7. Flow' = Flow
    <3>1. Unread \in Seq(Units) /\ Sending \in Seq(Units) /\ x \in Seq(Units) /\ y \in Seq(Units)
      BY <1>3, <2>2, FlowType DEF IInv
    <3>2. (x \o y) \o Sending = x \o (y \o Sending)
      BY <3>1, Joined
    <3>3. y \o Sending \in Seq(Units)
      BY <1>3, <3>1, ConcatProperties
    <3>4. (Unread \o x) \o (y \o Sending) = Unread \o (x \o (y \o Sending))
      <4>1. PICK z \in Seq(Units) : z = y \o Sending
        BY <3>3
      <4>2. (Unread \o x) \o z = Unread \o (x \o z)
        BY <3>1, Joined, SMTT(30)
      <4> QED BY <4>1, <4>2
    <3> QED BY <1>3, <1>4, <2>5, <2>6, <3>2, <3>4 DEF Flow
  <2>8. OrderInv'
    BY <1>1, <2>1, <2>2, <2>6, <2>7, OrderSame DEF Holding, service, monitor
  <2> QED BY <2>4, <2>6, <2>8
<1> QED BY <1>6, <1>7, <1>8 DEF IInv

\* Steps of the pool thread and the monitor that move nothing.
LEMMA StepSame ==
  ASSUME IInv, ~raced, raced' = raced,
         UNCHANGED <<service, wire, stream, block, handled>>,
         added' \in BOOLEAN, queue' \in Nat, mpc' = "pop" => queue' > 0,
         mpc' \in {"check", "wait", "sleep", "pop", "fetch", "extract", "delete", "empty",
                   "handle"},
         mpc' = mpc \/ {mpc, mpc'} \cap {"delete", "empty", "handle"} = {}
  PROVE  IInv'
<1>1. TypeOK' /\ TakenInv'
  BY DEF IInv, TypeOK, TakenInv, service
<1>2. MonitorInv' /\ Unread' = Unread /\ Holding' = Holding
  <2>1. \A l \in {"delete", "empty", "handle"} : mpc = l <=> mpc' = l
    OBVIOUS
  <2>2. MonitorInv
    BY DEF IInv
  <2>3. MonitorInv'
    BY <2>1, <2>2 DEF MonitorInv
  <2>4. Unread' = Unread
    BY <2>1 DEF Unread
  <2>5. Holding' = Holding
    BY <2>1 DEF Holding
  <2> QED BY <2>3, <2>4, <2>5
<1>3. ListInv' /\ Backlog' = Backlog /\ Sending' = Sending
  BY ServiceSame DEF IInv
<1>4. OrderInv'
  BY <1>2, <1>3, OrderSame DEF IInv, service, Flow
<1> QED BY <1>1, <1>2, <1>3, <1>4 DEF IInv

LEMMA QuietStep ==
  ASSUME IInv, ~raced, QueueSocket \/ Check \/ WaitForSignal \/ Pop \/ Fetch
  PROVE  IInv'
<1>1. queue \in Nat /\ added \in BOOLEAN
  BY DEF IInv, TypeOK
<1>2. CASE QueueSocket
  <2>1. queue' = queue + 1 /\ added' = FALSE /\ mpc' = IF mpc = "sleep" THEN "check" ELSE mpc
    BY <1>2 DEF QueueSocket
  <2>2. queue' \in Nat /\ queue' > 0
    BY <1>1, <2>1
  <2>3. mpc' \in {"check", "wait", "sleep", "pop", "fetch", "extract", "delete", "empty", "handle"}
    BY <2>1 DEF IInv, TypeOK
  <2>4. mpc' = mpc \/ {mpc, mpc'} \cap {"delete", "empty", "handle"} = {}
    BY <2>1
  <2> QED BY <1>2, <2>1, <2>2, <2>3, <2>4, StepSame DEF QueueSocket
<1>3. CASE Check
  <2>1. mpc = "check" /\ mpc' = IF queue = 0 THEN "wait" ELSE "pop"
    BY <1>3 DEF Check, Goto
  <2>2. mpc' = "pop" => queue > 0
    BY <1>1, <2>1
  <2>3. {mpc, mpc'} \cap {"delete", "empty", "handle"} = {}
    BY <2>1
  <2> QED BY <1>1, <1>3, <2>1, <2>2, <2>3, StepSame DEF Check, pool
<1>4. CASE WaitForSignal
  BY <1>1, <1>4, StepSame DEF WaitForSignal, Goto, pool
<1>5. CASE Pop
  <2>1. mpc = "pop" /\ mpc' = "fetch" /\ queue' = queue - 1 /\ queue > 0
    BY <1>5 DEF Pop, Goto, IInv, TakenInv
  <2>2. queue' \in Nat
    BY <1>1, <2>1
  <2> QED BY <1>1, <1>5, <2>1, <2>2, StepSame DEF Pop
<1>6. CASE Fetch
  BY <1>1, <1>6, StepSame DEF Fetch, Goto, pool
<1> QED BY <1>2, <1>3, <1>4, <1>5, <1>6

\* What Extract returns, once it has all fields of a packet, is the block of the
\* first packet on its way.
LEMMA Extracted ==
  ASSUME IInv, ~raced, mpc = "extract", Complete(stream)
  PROVE  /\ Read < Sent /\ order[Read + 1] \in Packets
         /\ HeadLen + DataLen[stream[HeadLen][1]] = Size(order[Read + 1])
         /\ Size(order[Read + 1]) <= Len(stream)
         /\ SubSeq(stream, 1, Size(order[Read + 1])) = Block(order[Read + 1])
         /\ Laid(order, Read + 1, Sent, Drop(Flow, Size(order[Read + 1])))
<1> USE Names
<1> DEFINE W == wire \o Sending
           k == order[Read + 1]
<1>1. /\ Read \in Nat /\ Sent \in Int /\ stream \in Seq(Units) /\ W \in Seq(Units)
      /\ Flow \in Seq(Units) /\ Len(stream) \in Nat /\ Len(order) \in Nat /\ Len(Backlog) \in Nat
      /\ order \in Seq(Packets)
  BY FlowType DEF IInv, TypeOK
<1>2. Sent \in Nat /\ Sent <= Len(order) /\ Read <= Sent /\ Laid(order, Read, Sent, Flow)
  BY <1>1 DEF IInv, OrderInv, Sent
<1>3. Flow = stream \o W
  BY DEF Flow, Unread
<1> HIDE DEF W
<1>4. /\ Len(Flow) = Len(stream) + Len(W) /\ Len(W) \in Nat
      /\ \A i \in 1..Len(stream) : Flow[i] = stream[i]
  <2>1. Len(W) \in Nat
    BY <1>1, LenProperties
  <2>2. /\ Len(Flow) = Len(stream) + Len(W)
        /\ \A i \in 1..Len(stream) + Len(W) :
             Flow[i] = IF i <= Len(stream) THEN stream[i] ELSE W[i - Len(stream)]
    BY <1>1, <1>3, ConcatProperties
  <2> QED BY <1>1, <2>1, <2>2
<1>5. Len(stream) > HeadLen
  BY DEF Complete
<1>6. Len(Flow) # 0
  BY <1>1, <1>4, <1>5
<1>7. Read < Sent
  BY <1>1, <1>2, <1>6, LaidSome
<1>8. \A i \in Read + 1..Sent : order[i] \in Packets
  BY <1>1, <1>2, ElementOfSeq
<1>9. k \in Packets
  BY <1>1, <1>2, <1>7, <1>8
<1>10. /\ Size(k) <= Len(Flow) /\ \A j \in 1..Size(k) : Flow[j] = Block(k)[j]
       /\ Laid(order, Read + 1, Sent, Drop(Flow, Size(k)))
  BY <1>1, <1>2, <1>7, <1>8, LaidLess
<1>11. /\ Size(k) \in Nat /\ Size(k) > HeadLen /\ Block(k) \in Seq(Units)
       /\ Len(Block(k)) = Size(k) /\ Block(k)[HeadLen] = <<k, HeadLen>>
  BY <1>9, BlockType
<1>12. stream[HeadLen] = <<k, HeadLen>>
  <2>1. HeadLen \in 1..Size(k) /\ HeadLen \in 1..Len(stream)
    BY <1>1, <1>5, <1>11
  <2> QED BY <1>4, <1>10, <1>11, <2>1
<1>13. HeadLen + DataLen[stream[HeadLen][1]] = Size(k)
  BY <1>12 DEF Size
<1>14. Size(k) <= Len(stream)
  BY <1>1, <1>11, <1>13 DEF Complete
<1>15. SubSeq(stream, 1, Size(k)) = Block(k)
  <2> DEFINE x == SubSeq(stream, 1, Size(k))
  <2>1. Size(k) \in 0..Len(stream)
    BY <1>1, <1>11, <1>14
  <2>2. x \in Seq(Units) /\ Len(x) = Size(k) /\ \A i \in 1..Size(k) : x[i] = stream[i]
    BY <1>1, <2>1, FrontProperties
  <2> HIDE DEF x
  <2>3. \A i \in 1..Len(x) : x[i] = Block(k)[i]
    <3>1. \A i \in 1..Size(k) : i \in 1..Len(stream)
      BY <1>1, <1>11, <1>14
    <3>2. \A i \in 1..Size(k) : x[i] = stream[i] /\ stream[i] = Flow[i] /\ Flow[i] = Block(k)[i]
      BY <1>4, <1>10, <2>2, <3>1
    <3> QED BY <2>2, <3>2
  <2>4. x = Block(k)
    BY <1>11, <2>2, <2>3, SeqEqual
  <2> QED BY <2>4 DEF x
<1> QED BY <1>7, <1>9, <1>10, <1>13, <1>14, <1>15

\* The monitor extracts.
LEMMA ExtractStep ==
  ASSUME IInv, ~raced, Extract
  PROVE  IInv'
<1> USE Names
<1>1. mpc = "extract" /\ UNCHANGED <<service, wire, pool, stream, handled, raced>>
  BY DEF Extract
<1>2. CASE ~Complete(stream)
  <2>1. mpc' = "check" /\ block' = block
    BY <1>2 DEF Extract, Goto
  <2>2. queue' \in Nat /\ added' \in BOOLEAN
    BY <1>1 DEF IInv, TypeOK, pool
  <2> QED BY <1>1, <2>1, <2>2, StepSame
<1>3. CASE Complete(stream)
  <2> DEFINE k == order[Read + 1]
  <2>1. /\ Read < Sent /\ k \in Packets /\ Size(k) <= Len(stream)
        /\ HeadLen + DataLen[stream[HeadLen][1]] = Size(k)
        /\ SubSeq(stream, 1, Size(k)) = Block(k)
        /\ Laid(order, Read + 1, Sent, Drop(Flow, Size(k)))
    BY <1>1, <1>3, Extracted
  <2>2. block' = Block(k) /\ mpc' = "delete"
    BY <1>3, <2>1 DEF Extract, Goto
  <2> HIDE DEF k
  <2>3. /\ Size(k) \in Nat /\ Block(k) \in Seq(Units) /\ Len(Block(k)) = Size(k)
    BY <2>1, BlockType
  <2>4. TypeOK'
    BY <1>1, <2>2, <2>3 DEF IInv, TypeOK, service, pool
  <2>5. TakenInv'
    BY <1>1, <2>2 DEF IInv, TakenInv, service, pool
  <2>6. MonitorInv'
    BY <1>1, <2>1, <2>2, <2>3 DEF MonitorInv
  <2>7. Backlog' = Backlog /\ Sending' = Sending /\ Sent' = Sent /\ ListInv'
    BY <1>1, ServiceSame DEF IInv
  <2>8. /\ Read \in Nat /\ Sent \in Int /\ stream \in Seq(Units) /\ wire \o Sending \in Seq(Units)
        /\ Len(stream) \in Nat /\ Len(handled) \in Nat
    BY FlowType DEF IInv, TypeOK
  <2>9. Flow' = Drop(Flow, Size(k))
    <3>1. Flow = stream \o (wire \o Sending)
      BY <1>1 DEF Flow, Unread
    <3>2. Flow' = Drop(stream, Size(k)) \o (wire \o Sending)
      BY <1>1, <2>2, <2>3, <2>7 DEF Flow, Unread
    <3>3. Size(k) \in 0..Len(stream)
      BY <2>1, <2>3, <2>8
    <3> QED BY <2>8, <3>1, <3>2, <3>3, DropOfConcat
  <2>10. Holding' /\ ~Holding /\ Read' = Read + 1 /\ Read = Len(handled)
    BY <1>1, <2>2, <2>8 DEF Holding, Read
  <2>11. order' = order /\ handled' = handled
    BY <1>1 DEF service
  <2>12. Sent' \in Nat /\ Read' <= Sent'
    BY <2>1, <2>7, <2>8, <2>10 DEF IInv, OrderInv
  <2>13. \A i \in 1..Len(Backlog') : Backlog'[i] = order'[Sent' + i]
    BY <2>7, <2>11 DEF IInv, OrderInv
  <2>14. \A i \in 1..Len(handled') : handled'[i] = Block(order'[i])
    BY <2>11 DEF IInv, OrderInv
  <2>15. block' = Block(order'[Read'])
    BY <2>2, <2>10, <2>11 DEF k
  <2>16. Laid(order', Read', Sent', Flow')
    BY <2>1, <2>7, <2>9, <2>10, <2>11
  <2>17. OrderInv'
    BY <2>12, <2>13, <2>14, <2>15, <2>16 DEF OrderInv
  <2> QED BY <2>4, <2>5, <2>6, <2>7, <2>17 DEF IInv
<1> QED BY <1>2, <1>3

\* CBinStream::Delete takes the units of the packet from the stream.
LEMMA DeleteStep ==
  ASSUME IInv, ~raced, Delete \/ Empty
  PROVE  IInv'
<1> USE Names
<1>1. UNCHANGED <<service, wire, pool, block, handled, raced>>
  BY DEF Delete, Empty
<1>2. mpc \in {"delete", "empty"} /\ mpc' \in {"empty", "handle"}
  BY DEF Delete, Empty, Goto
<1>3. stream \in Seq(Units) /\ block \in Seq(Units) /\ Len(stream) \in Nat /\ Len(block) \in Nat
  BY LenProperties DEF IInv, TypeOK
<1>4. /\ Len(block) \in 0..Len(stream) /\ Unread = Drop(stream, Len(block))
      /\ Unread \in Seq(Units) /\ Len(Unread) = Len(stream) - Len(block)
  <2>1. Len(block) \in 0..Len(stream)
    BY <1>2, <1>3 DEF IInv, MonitorInv
  <2>2. Unread = Drop(stream, Len(block))
    BY <1>2 DEF Unread
  <2> QED BY <1>3, <2>1, <2>2, DropProperties
<1>5. stream' \in Seq(Units) /\ Unread' = Unread /\ MonitorInv'
  <2>1. CASE Delete /\ Len(stream) = Len(block)
    <3>1. mpc' = "empty" /\ stream' = stream /\ mpc = "delete"
      BY <2>1 DEF Delete, Goto
    <3> QED BY <1>1, <1>3, <2>1, <3>1 DEF Unread, MonitorInv
  <2>2. CASE Delete /\ Len(stream) # Len(block)
    <3>1. mpc' = "handle" /\ stream' = Drop(stream, Len(block)) /\ mpc = "delete"
      BY <2>2 DEF Delete, Deleted, Goto
    <3> QED BY <1>4, <3>1 DEF Unread, MonitorInv
  <2>3. CASE Empty
    <3>1. mpc = "empty" /\ mpc' = "handle" /\ stream' = <<>>
      BY <2>3 DEF Empty, Goto
    <3>2. Len(Unread) = 0
      BY <1>3, <1>4, <3>1 DEF IInv, MonitorInv
    <3>3. Unread = <<>>
      BY <1>4, <3>2, EmptySeq
    <3> QED BY <3>1, <3>3, EmptySeq DEF Unread, MonitorInv
  <2> QED BY <2>1, <2>2, <2>3
<1>6. TypeOK'
  BY <1>1, <1>2, <1>5 DEF IInv, TypeOK, service, pool
<1>7. TakenInv'
  BY <1>1, <1>2 DEF IInv, TakenInv, service, pool
<1>8. ListInv' /\ Backlog' = Backlog /\ Sending' = Sending
  BY <1>1, ServiceSame DEF IInv
<1>9. Holding' = Holding /\ Flow' = Flow
  BY <1>1, <1>2, <1>5, <1>8 DEF Holding, Flow
<1>10. OrderInv'
  BY <1>1, <1>8, <1>9, OrderSame DEF IInv, service
<1> QED BY <1>5, <1>6, <1>7, <1>8, <1>10 DEF IInv

\* The packet is handled.
LEMMA HandleStep ==
  ASSUME IInv, ~raced, HandlePacket
  PROVE  IInv'
<1> USE Names
<1>1. /\ mpc = "handle" /\ mpc' = "fetch" /\ handled' = Append(handled, block) /\ block' = <<>>
      /\ UNCHANGED <<service, wire, pool, stream, raced>>
  BY DEF HandlePacket, Goto
<1>2. handled \in Seq(Seq(Units)) /\ block \in Seq(Units) /\ Len(handled) \in Nat
  BY LenProperties DEF IInv, TypeOK
<1>3. /\ handled' \in Seq(Seq(Units)) /\ Len(handled') = Len(handled) + 1
      /\ \A i \in 1..Len(handled) : handled'[i] = handled[i]
      /\ handled'[Len(handled) + 1] = block
  BY <1>1, <1>2, AppendProperties
<1>4. block' \in Seq(Units)
  BY <1>1, EmptySeq
<1>5. TypeOK'
  BY <1>1, <1>3, <1>4 DEF IInv, TypeOK, service, pool
<1>6. TakenInv' /\ MonitorInv'
  BY <1>1 DEF IInv, TakenInv, MonitorInv, service, pool
<1>7. Backlog' = Backlog /\ Sending' = Sending /\ Sent' = Sent /\ ListInv'
  BY <1>1, ServiceSame DEF IInv
<1>8. Holding /\ ~Holding' /\ Read = Len(handled) + 1 /\ Read' = Read
  BY <1>1, <1>2, <1>3 DEF Holding, Read
<1>9. Flow' = Flow
  BY <1>1, <1>7 DEF Flow, Unread
<1>10. order' = order
  BY <1>1 DEF service
<1>11. ASSUME NEW i \in 1..Len(handled')
       PROVE  handled'[i] = Block(order'[i])
  <2>1. CASE i \in 1..Len(handled)
    BY <1>3, <1>10, <2>1 DEF IInv, OrderInv
  <2>2. CASE i = Len(handled) + 1
    BY <1>3, <1>8, <1>10, <2>2 DEF IInv, OrderInv
  <2> QED BY <1>2, <1>3, <2>1, <2>2
<1>12. Laid(order', Read', Sent', Flow') /\ Sent' \in Nat /\ Read' <= Sent'
  BY <1>7, <1>8, <1>9, <1>10 DEF IInv, OrderInv
<1>13. \A i \in 1..Len(Backlog') : Backlog'[i] = order'[Sent' + i]
  BY <1>7, <1>10 DEF IInv, OrderInv
<1>14. OrderInv'
  BY <1>8, <1>11, <1>12, <1>13 DEF OrderInv
<1> QED BY <1>5, <1>6, <1>7, <1>14 DEF IInv

-----------------------------------------------------------------------------
\* A step in which nothing happens.
LEMMA StutterStep ==
  ASSUME IInv, UNCHANGED vars
  PROVE  IInv'
<1> USE DEF vars, service, pool, monitor
<1>1. TypeOK' /\ TakenInv'
  BY DEF IInv, TypeOK, TakenInv
<1>2. ASSUME ~raced
      PROVE  ListInv' /\ MonitorInv' /\ OrderInv'
  <2>1. MonitorInv' /\ Unread' = Unread /\ Holding' = Holding
    BY <1>2, UnreadSame DEF IInv
  <2>2. ListInv' /\ Backlog' = Backlog /\ Sending' = Sending
    BY <1>2, ServiceSame DEF IInv
  <2>3. OrderInv'
    BY <1>2, <2>1, <2>2, OrderSame DEF IInv, Flow
  <2> QED BY <2>1, <2>2, <2>3
<1> QED BY <1>1, <1>2 DEF IInv

\* Every step keeps the invariant.
LEMMA StepInv == IInv /\ [Next]_vars => IInv'
<1> SUFFICES ASSUME IInv, [Next]_vars PROVE IInv'
  OBVIOUS
<1>1. ASSUME ~raced, NEW t \in Threads, Thread(t) PROVE IInv'
  BY <1>1, FindStep, CreateStep, PushStep, SignalStep DEF Thread
<1>2. ASSUME ~raced, NEW t \in Threads, Worker(t) PROVE IInv'
  <2>1. t \in Lists
    BY Names
  <2> QED BY <1>2, <2>1, TakeStep, SendStep, RestStep DEF Worker
<1>3. CASE ~raced /\ Pool
  BY <1>3, AddDataStep, QuietStep DEF Pool
<1>4. CASE ~raced /\ Monitor
  BY <1>4, QuietStep, ExtractStep, DeleteStep, HandleStep DEF Monitor
<1>5. CASE UNCHANGED vars
  BY <1>5, StutterStep
<1> QED BY <1>1, <1>2, <1>3, <1>4, <1>5 DEF Next

\* The inductive invariant holds in every reachable state.
THEOREM Invariance == Spec => []IInv
BY InitInv, StepInv, PTL DEF Spec

\* Every variable keeps its type: a thread never pushes a packet it does not
\* have, and the monitor never takes a socket from an empty queue.
THEOREM TypeCorrect == Spec => []TypeOK
<1>1. IInv => TypeOK
  BY DEF IInv
<1> QED BY <1>1, Invariance, PTL

\* What the router's monitor handles are the blocks of the packets the service's
\* threads queued, whole and in that order, wherever the network cuts them and
\* whatever is still in a list, in a worker's hands, on the wire or in the
\* stream.
THEOREM InOrder == Spec => []DeliveredInOrder
<1>1. IInv => DeliveredInOrder
  <2> SUFFICES ASSUME IInv, ~raced PROVE IsPrefix(handled, Bytes(order))
    BY DEF DeliveredInOrder
  <2> DEFINE n == Len(handled)
             o == Bytes(order)
  <2>1. /\ order \in Seq(Packets) /\ handled \in Seq(Seq(Units)) /\ n \in Nat
        /\ Len(order) \in Nat /\ DOMAIN order = 1..Len(order) /\ n <= Len(order)
    <3>1. order \in Seq(Packets) /\ handled \in Seq(Seq(Units))
      BY DEF IInv, TypeOK
    <3>2. n \in Nat /\ Len(order) \in Nat /\ Len(Backlog) \in Nat /\ Read \in Nat /\ Sent \in Int
      BY FlowType DEF IInv
    <3>3. n <= Read /\ Read <= Sent /\ Sent <= Len(order)
      BY <3>2 DEF IInv, OrderInv, Read, Sent
    <3> QED BY <3>1, <3>2, <3>3, LenProperties
  <2>2. o \in Seq(Seq(Units)) /\ Len(o) = Len(order) /\ \A i \in 1..Len(order) : o[i] = Block(order[i])
    <3>1. \A i \in 1..Len(order) : Block(order[i]) \in Seq(Units)
      BY <2>1, ElementOfSeq, BlockType
    <3>2. o = [i \in 1..Len(order) |-> Block(order[i])]
      BY <2>1 DEF Bytes
    <3> QED BY <2>1, <3>1, <3>2
  <2>3. \A i \in 1..n : handled[i] = Block(order[i])
    BY DEF IInv, OrderInv
  <2> HIDE DEF o
  <2>4. SubSeq(handled, 1, n) = SubSeq(o, 1, n)
    <3> DEFINE x == SubSeq(handled, 1, n)
               y == SubSeq(o, 1, n)
    <3>1. \A i \in 1..n : handled[i] \in Seq(Units) /\ o[i] \in Seq(Units)
      BY <2>1, <2>2, ElementOfSeq
    <3>2. x \in Seq(Seq(Units)) /\ Len(x) = n /\ \A i \in 1..n : x[i] = handled[i]
      BY <2>1, <3>1, SubSeqProperties
    <3>3. y \in Seq(Seq(Units)) /\ Len(y) = n /\ \A i \in 1..n : y[i] = o[i]
      BY <2>1, <3>1, SubSeqProperties
    <3> HIDE DEF x, y
    <3>4. \A i \in 1..Len(x) : x[i] = y[i]
      <4>1. \A i \in 1..n : x[i] = Block(order[i]) /\ y[i] = Block(order[i])
        <5> TAKE i \in 1..n
        <5>1. i \in 1..Len(order)
          BY <2>1
        <5>2. x[i] = handled[i] /\ handled[i] = Block(order[i])
          BY <2>3, <3>2
        <5>3. y[i] = o[i] /\ o[i] = Block(order[i])
          BY <2>2, <3>3, <5>1
        <5> QED BY <5>2, <5>3
      <4> QED BY <3>2, <4>1
    <3>5. x = y
      BY <3>2, <3>3, <3>4, SeqEqual
    <3> QED BY <3>5 DEF x, y
  <2> QED BY <2>1, <2>2, <2>4 DEF IsPrefix, o
<1> QED BY <1>1, Invariance, PTL
=============================================================================
