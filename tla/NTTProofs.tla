----------------------------- MODULE NTTProofs ------------------------------
(***************************************************************************)
(* The wire format, for messages of every length, however they were        *)
(* altered on the way: what the parsers accept is what the encoders make,  *)
(* and what the encoders make is parsed as it was meant.                   *)
(***************************************************************************)
EXTENDS MCNTT, SequenceTheorems, TLAPS

-----------------------------------------------------------------------------
(* Bytes and slices. *)

\* The slices that there are: the window ends within the buffer.
Slice == {a \in [buffer : Seq(Byte), len : Nat] : a.len <= Len(a.buffer)}

\* Two slices through which the same bytes are seen, whatever lies behind them.
SameView(a, b) ==
    /\ a \in Slice /\ b \in Slice /\ a.len = b.len
    /\ \A k \in 1 .. a.len : a.buffer[k] = b.buffer[k]

\* The bytes of a message in a buffer that has room for some more.
Padded(msg, room) == [buffer |-> msg \o [i \in 1 .. room |-> 0], len |-> Len(msg)]

\* A length in two bytes, and the bytes of a length.
LEMMA Uint16Bytes ==
  ASSUME NEW hi \in Byte, NEW lo \in Byte, NEW n, n = Uint16(hi, lo)
  PROVE  /\ n \in 0 .. 24
         /\ (n % (Base * Base)) \div Base = hi /\ (n % (Base * Base)) % Base = lo
BY DEF Uint16, Base, Byte

\* The bytes of a sequence.
LEMMA BytesAt ==
  ASSUME NEW s \in Seq(Byte)
  PROVE  Len(s) \in Nat /\ \A k \in 1 .. Len(s) : s[k] \in Byte /\ s[k] \in Int
BY ElementOfSeq, LenProperties DEF Byte, Base

\* A length takes two bytes at the end.
LEMMA AppendUint16Effect ==
  ASSUME NEW s \in Seq(Byte), NEW n \in Nat
  PROVE  LET t == AppendUint16(s, n)
             field == n % (Base * Base)
         IN  /\ t \in Seq(Byte) /\ Len(t) = Len(s) + 2
             /\ \A k \in 1 .. Len(s) : t[k] = s[k]
             /\ t[Len(s) + 1] = field \div Base /\ t[Len(s) + 2] = field % Base
             /\ n <= 24 => Uint16(t[Len(s) + 1], t[Len(s) + 2]) = n
<1> DEFINE field == n % (Base * Base)
           hi == field \div Base
           lo == field % Base
           two == <<hi, lo>>
           t == s \o two
<1>1. hi \in Byte /\ lo \in Byte /\ (n <= 24 => Uint16(hi, lo) = n)
  BY DEF Uint16, Base, Byte
<1> HIDE DEF hi, lo
<1>2. two \in Seq(Byte) /\ Len(two) = 2 /\ two[1] = hi /\ two[2] = lo
  BY <1>1
<1> HIDE DEF two
<1>3. /\ t \in Seq(Byte) /\ Len(t) = Len(s) + 2
      /\ \A i \in 1 .. Len(s) + 2 : t[i] = IF i <= Len(s) THEN s[i] ELSE two[i - Len(s)]
  <2>1. /\ t \in Seq(Byte) /\ Len(t) = Len(s) + Len(two)
        /\ \A i \in 1 .. Len(s) + Len(two) : t[i] = IF i <= Len(s) THEN s[i] ELSE two[i - Len(s)]
    BY <1>2, ConcatProperties
  <2> HIDE DEF t
  <2> QED BY <1>2, <2>1
<1>4. Len(s) \in Nat
  BY BytesAt
<1> HIDE DEF t
<1>5. t[Len(s) + 1] = hi /\ t[Len(s) + 2] = lo
  <2>1. /\ Len(s) + 1 \in 1 .. Len(s) + 2 /\ ~ (Len(s) + 1 <= Len(s)) /\ Len(s) + 1 - Len(s) = 1
        /\ Len(s) + 2 \in 1 .. Len(s) + 2 /\ ~ (Len(s) + 2 <= Len(s)) /\ Len(s) + 2 - Len(s) = 2
    BY <1>4
  <2> QED BY <1>2, <1>3, <2>1
<1>6. \A k \in 1 .. Len(s) : t[k] = s[k]
  BY <1>3, <1>4
<1>7. AppendUint16(s, n) = t
  BY DEF AppendUint16, t, two, hi, lo
<1> QED BY <1>1, <1>3, <1>5, <1>6, <1>7 DEF hi, lo

\* What is seen through a slice.
LEMMA BytesOf ==
  ASSUME NEW a \in Slice
  PROVE  /\ Bytes(a) \in Seq(Byte) /\ Len(Bytes(a)) = a.len
         /\ \A k \in 1 .. a.len : Bytes(a)[k] = a.buffer[k]
<1>1. a.buffer \in Seq(Byte) /\ a.len \in Nat /\ a.len <= Len(a.buffer)
  BY DEF Slice
<1> DEFINE s == a.buffer
           n == a.len
<1>2. \A k \in 1 .. n : s[k] \in Byte
  BY <1>1, BytesAt
<1> HIDE DEF s, n
<1>3. /\ SubSeq(s, 1, n) \in Seq(Byte)
      /\ Len(SubSeq(s, 1, n)) = IF 1 <= n THEN n - 1 + 1 ELSE 0
      /\ \A i \in 1 .. n - 1 + 1 : SubSeq(s, 1, n)[i] = s[1 + i - 1]
  BY <1>1, <1>2, SubSeqProperties DEF n
<1>4. n \in Nat
  BY <1>1 DEF n
<1> QED BY <1>3, <1>4 DEF Bytes, s, n

\* What is cut from a slice.
LEMMA CutEffect ==
  ASSUME NEW a \in Slice, NEW from \in Nat, NEW len \in Nat,
         from + len <= Len(a.buffer)
  PROVE  LET c == Cut(a, from, len)
         IN  /\ c \in Slice /\ c.len = len
             /\ Len(c.buffer) = Len(a.buffer) - from
             /\ \A k \in 1 .. Len(a.buffer) - from : c.buffer[k] = a.buffer[k + from]
<1> DEFINE s == a.buffer
           n == Len(s)
           t == SubSeq(s, from + 1, n)
<1>1. s \in Seq(Byte) /\ n \in Nat
  BY BytesAt DEF Slice
<1>2. \A k \in from + 1 .. n : s[k] \in Byte
  BY <1>1, BytesAt
<1> HIDE DEF s, n
<1>3. /\ t \in Seq(Byte)
      /\ Len(t) = IF from + 1 <= n THEN n - (from + 1) + 1 ELSE 0
      /\ \A i \in 1 .. n - (from + 1) + 1 : t[i] = s[from + 1 + i - 1]
  BY <1>1, <1>2, SubSeqProperties
<1>4. from + len <= n
  BY DEF n, s
<1>5. Len(t) = n - from /\ \A k \in 1 .. n - from : t[k] = s[k + from]
  <2> HIDE DEF t
  <2>1. Len(t) = n - from
    BY <1>1, <1>3, <1>4
  <2>2. ASSUME NEW k \in 1 .. n - from PROVE t[k] = s[k + from]
    <3>1. k \in 1 .. n - (from + 1) + 1 /\ from + 1 + k - 1 = k + from
      BY <1>1
    <3> QED BY <1>3, <3>1
  <2> QED BY <2>1, <2>2
<1>6. Cut(a, from, len) = [buffer |-> t, len |-> len]
  BY DEF Cut, t, s, n
<1> HIDE DEF t
<1>7. [buffer |-> t, len |-> len] \in Slice
  BY <1>1, <1>3, <1>4, <1>5 DEF Slice
<1> QED BY <1>5, <1>6, <1>7 DEF s, n

\* The same is cut from two slices with the same view.
LEMMA CutSame ==
  ASSUME NEW a, NEW b, SameView(a, b), NEW from \in Nat, NEW len \in Nat,
         from + len <= a.len
  PROVE  SameView(Cut(a, from, len), Cut(b, from, len))
<1>1. /\ a \in Slice /\ b \in Slice /\ a.len = b.len
      /\ \A k \in 1 .. a.len : a.buffer[k] = b.buffer[k]
  BY DEF SameView
<1>2. /\ a.len \in Nat /\ a.len <= Len(a.buffer) /\ a.len <= Len(b.buffer)
      /\ Len(a.buffer) \in Nat /\ Len(b.buffer) \in Nat
  BY <1>1, BytesAt DEF Slice
<1> DEFINE c == Cut(a, from, len)
           d == Cut(b, from, len)
<1>3. /\ c \in Slice /\ c.len = len
      /\ Len(c.buffer) = Len(a.buffer) - from
      /\ \A k \in 1 .. Len(a.buffer) - from : c.buffer[k] = a.buffer[k + from]
  <2>1. from + len <= Len(a.buffer)
    BY <1>1, <1>2
  <2> QED BY <1>1, <2>1, CutEffect
<1>4. /\ d \in Slice /\ d.len = len
      /\ Len(d.buffer) = Len(b.buffer) - from
      /\ \A k \in 1 .. Len(b.buffer) - from : d.buffer[k] = b.buffer[k + from]
  <2>1. from + len <= Len(b.buffer)
    BY <1>1, <1>2
  <2> QED BY <1>1, <2>1, CutEffect
<1> HIDE DEF c, d
<1>5. ASSUME NEW k \in 1 .. len PROVE c.buffer[k] = d.buffer[k]
  <2>1. /\ k \in 1 .. Len(a.buffer) - from /\ k \in 1 .. Len(b.buffer) - from
        /\ k + from \in 1 .. a.len
    BY <1>2
  <2> QED BY <1>1, <1>3, <1>4, <2>1
<1> QED BY <1>3, <1>4, <1>5 DEF SameView, c, d

-----------------------------------------------------------------------------
(* Manager messages. *)

\* What a manager message is parsed to.
LEMMA ManagerParsed ==
  ASSUME NEW a \in Slice
  PROVE  LET m == ParseManagerMessage(a)
         IN  /\ m.ok <=> a.len >= 4 /\ a.len - 4 = Uint16(a.buffer[3], a.buffer[4])
             /\ m.ok => m = [ ok |-> TRUE, id |-> a.buffer[1], sender |-> a.buffer[2],
                              payload |-> Cut(a, 4, a.len - 4) ]
<1>1. a.len \in Nat
  BY DEF Slice
<1> QED BY <1>1 DEF ParseManagerMessage, Failed

\* The bytes behind a manager message do not matter.
LEMMA ManagerSame ==
  ASSUME NEW a, NEW b, SameView(a, b), ParseManagerMessage(a).ok
  PROVE  LET m == ParseManagerMessage(a)
             n == ParseManagerMessage(b)
         IN  n.ok /\ SameView(m.payload, n.payload)
<1> DEFINE m == ParseManagerMessage(a)
           n == ParseManagerMessage(b)
           p == Cut(a, 4, a.len - 4)
           q == Cut(b, 4, a.len - 4)
<1>1. /\ a \in Slice /\ b \in Slice /\ a.len = b.len /\ a.len \in Nat
      /\ \A k \in 1 .. a.len : a.buffer[k] = b.buffer[k]
  BY DEF SameView, Slice
<1>2. /\ a.len >= 4 /\ a.len - 4 = Uint16(a.buffer[3], a.buffer[4])
      /\ m.payload = p
  BY <1>1, ManagerParsed
<1>3. a.buffer[3] = b.buffer[3] /\ a.buffer[4] = b.buffer[4]
  BY <1>1, <1>2
<1>4. n.ok /\ n.payload = q
  <2>1. b.len >= 4 /\ b.len - 4 = Uint16(b.buffer[3], b.buffer[4])
    BY <1>1, <1>2, <1>3
  <2> QED BY <1>1, <2>1, ManagerParsed
<1>5. SameView(p, q)
  <2>1. a.len - 4 \in Nat /\ 4 + (a.len - 4) <= a.len /\ 4 \in Nat
    BY <1>1, <1>2
  <2> QED BY <2>1, CutSame
<1> QED BY <1>2, <1>4, <1>5

\* A manager message that is accepted is what its contents are encoded to.
LEMMA ManagerReencoded ==
  ASSUME NEW a \in Slice, ParseManagerMessage(a).ok
  PROVE  LET m == ParseManagerMessage(a)
         IN  EncodeManagerMessage([m EXCEPT !.payload = Bytes(@)]) = Bytes(a)
<1> DEFINE m == ParseManagerMessage(a)
           n == a.len - 4
           c == Cut(a, 4, n)
           p == Bytes(c)
           head == <<a.buffer[1], a.buffer[2]>>
           t == AppendUint16(head, Len(p))
           e == t \o p
           x == Bytes(a)
<1>1. /\ a.len \in Nat /\ a.len >= 4 /\ a.len <= Len(a.buffer)
      /\ n = Uint16(a.buffer[3], a.buffer[4])
      /\ m = [ok |-> TRUE, id |-> a.buffer[1], sender |-> a.buffer[2], payload |-> c]
  BY ManagerParsed DEF Slice
<1>2. /\ Len(a.buffer) \in Nat
      /\ \A k \in 1 .. Len(a.buffer) : a.buffer[k] \in Byte
  BY BytesAt DEF Slice
<1>3. /\ n \in Nat /\ 4 + n <= Len(a.buffer) /\ 4 \in Nat
      /\ a.buffer[1] \in Byte /\ a.buffer[2] \in Byte
      /\ a.buffer[3] \in Byte /\ a.buffer[4] \in Byte
  <2>1. /\ 1 \in 1 .. Len(a.buffer) /\ 2 \in 1 .. Len(a.buffer)
        /\ 3 \in 1 .. Len(a.buffer) /\ 4 \in 1 .. Len(a.buffer)
    <3> DEFINE capacity == Len(a.buffer)
    <3>1. capacity \in Nat /\ 4 <= capacity
      BY <1>1, <1>2
    <3> HIDE DEF capacity
    <3>2. 1 \in 1 .. capacity /\ 2 \in 1 .. capacity /\ 3 \in 1 .. capacity /\ 4 \in 1 .. capacity
      BY <3>1
    <3> QED BY <3>2 DEF capacity
  <2>2. /\ a.buffer[1] \in Byte /\ a.buffer[2] \in Byte
        /\ a.buffer[3] \in Byte /\ a.buffer[4] \in Byte
    BY <1>2, <2>1
  <2>3. n \in Nat /\ 4 + n <= Len(a.buffer)
    BY <1>1, <1>2
  <2> QED BY <2>2, <2>3
<1>4. /\ c \in Slice /\ c.len = n
      /\ \A k \in 1 .. Len(a.buffer) - 4 : c.buffer[k] = a.buffer[k + 4]
  <2>1. /\ c \in Slice /\ c.len = n
        /\ Len(c.buffer) = Len(a.buffer) - 4
        /\ \A k \in 1 .. Len(a.buffer) - 4 : c.buffer[k] = a.buffer[k + 4]
    BY <1>3, CutEffect
  <2> QED BY <2>1
<1>5. /\ p \in Seq(Byte) /\ Len(p) = n
      /\ \A k \in 1 .. n : p[k] = a.buffer[k + 4]
  <2> HIDE DEF c
  <2>1. p \in Seq(Byte) /\ Len(p) = n /\ \A k \in 1 .. n : p[k] = c.buffer[k]
    BY <1>4, BytesOf
  <2>2. \A k \in 1 .. n : k \in 1 .. Len(a.buffer) - 4
    BY <1>1, <1>2, <1>3
  <2> QED BY <1>4, <2>1, <2>2
<1>6. EncodeManagerMessage([m EXCEPT !.payload = Bytes(@)]) = e
  BY <1>1 DEF EncodeManagerMessage
<1>7. /\ head \in Seq(Byte) /\ Len(head) = 2
      /\ head[1] = a.buffer[1] /\ head[2] = a.buffer[2]
  BY <1>3
<1>8. x \in Seq(Byte) /\ Len(x) = a.len /\ \A k \in 1 .. a.len : x[k] = a.buffer[k]
  BY BytesOf
<1> HIDE DEF m, c, p, head, x, n
<1>9. /\ t \in Seq(Byte) /\ Len(t) = 4
      /\ t[1] = head[1] /\ t[2] = head[2]
      /\ t[3] = a.buffer[3] /\ t[4] = a.buffer[4]
  <2> DEFINE field == n % (Base * Base)
  <2>1. /\ t \in Seq(Byte) /\ Len(t) = Len(head) + 2
        /\ \A k \in 1 .. Len(head) : t[k] = head[k]
        /\ t[Len(head) + 1] = field \div Base /\ t[Len(head) + 2] = field % Base
    BY <1>3, <1>5, <1>7, AppendUint16Effect
  <2>2. field \div Base = a.buffer[3] /\ field % Base = a.buffer[4]
    BY <1>1, <1>3, Uint16Bytes DEF n
  <2> HIDE DEF t, field
  <2> QED BY <1>7, <2>1, <2>2
<1> HIDE DEF t
<1>10. /\ e \in Seq(Byte) /\ Len(e) = 4 + n
       /\ \A k \in 1 .. 4 + n : e[k] = IF k <= 4 THEN t[k] ELSE p[k - 4]
  <2>1. /\ e \in Seq(Byte) /\ Len(e) = Len(t) + Len(p)
        /\ \A k \in 1 .. Len(t) + Len(p) : e[k] = IF k <= Len(t) THEN t[k] ELSE p[k - Len(t)]
    <3>1. t \in Seq(Byte) /\ p \in Seq(Byte)
      BY <1>5, <1>9
    <3> QED BY <3>1, ConcatProperties
  <2> HIDE DEF e
  <2> QED BY <1>5, <1>9, <2>1
<1> HIDE DEF e
<1>11. Len(e) = a.len
  BY <1>1, <1>3, <1>10 DEF n
<1>12. ASSUME NEW k \in 1 .. a.len PROVE e[k] = x[k]
  <2>1. k \in 1 .. 4 + n
    BY <1>1 DEF n
  <2>2. CASE k <= 4
    <3>1. k = 1 \/ k = 2 \/ k = 3 \/ k = 4
      BY <2>2
    <3>2. e[k] = t[k] /\ x[k] = a.buffer[k]
      BY <1>8, <1>10, <2>1, <2>2
    <3> QED BY <1>7, <1>9, <3>1, <3>2
  <2>3. CASE ~ (k <= 4)
    <3>1. k - 4 \in 1 .. n /\ k - 4 + 4 = k
      BY <1>3, <2>1, <2>3
    <3>2. e[k] = p[k - 4]
      BY <1>10, <2>1, <2>3
    <3>3. p[k - 4] = a.buffer[k - 4 + 4]
      BY <1>5, <3>1
    <3> QED BY <1>8, <3>1, <3>2, <3>3
  <2> QED BY <2>2, <2>3
<1>13. e = x
  BY <1>8, <1>10, <1>11, <1>12, SeqEqual
<1> QED BY <1>6, <1>13 DEF m, x

-----------------------------------------------------------------------------
(* Transceiver messages. *)

\* The byte at a position of a message, or of the zeros behind it.
ByteAt(msg, k) == IF k <= Len(msg) THEN msg[k] ELSE 0

\* A message and the room behind it.
LEMMA PaddedView ==
  ASSUME NEW msg \in Seq(Byte), NEW room \in Nat
  PROVE  LET a == Padded(msg, room)
         IN  /\ a \in Slice /\ a.len = Len(msg)
             /\ Len(a.buffer) = Len(msg) + room
             /\ \A k \in 1 .. Len(msg) + room : a.buffer[k] = ByteAt(msg, k)
<1> DEFINE z == [i \in 1 .. room |-> 0]
           b == msg \o z
<1>1. z \in Seq(Byte) /\ \A i \in 1 .. room : z[i] = 0
  <2>1. z \in [1 .. room -> Byte]
    BY DEF Byte, Base
  <2> HIDE DEF z
  <2>2. z \in Seq(Byte)
    BY <2>1, SeqDef
  <2> QED BY <2>2 DEF z
<1>2. Len(z) = room
  <2>1. DOMAIN z = 1 .. room
    OBVIOUS
  <2> HIDE DEF z
  <2>2. Len(z) \in Nat /\ DOMAIN z = 1 .. Len(z)
    BY <1>1, LenProperties
  <2> QED BY <2>1, <2>2
<1> HIDE DEF z
<1>3. /\ b \in Seq(Byte) /\ Len(b) = Len(msg) + room
      /\ \A k \in 1 .. Len(msg) + room : b[k] = IF k <= Len(msg) THEN msg[k] ELSE z[k - Len(msg)]
  <2>1. /\ b \in Seq(Byte) /\ Len(b) = Len(msg) + Len(z)
        /\ \A k \in 1 .. Len(msg) + Len(z) : b[k] = IF k <= Len(msg) THEN msg[k] ELSE z[k - Len(msg)]
    BY <1>1, ConcatProperties
  <2> HIDE DEF b
  <2> QED BY <1>2, <2>1
<1>4. Len(msg) \in Nat
  BY BytesAt
<1> HIDE DEF b
<1>5. ASSUME NEW k \in 1 .. Len(msg) + room PROVE b[k] = ByteAt(msg, k)
  <2>1. ~ (k <= Len(msg)) => k - Len(msg) \in 1 .. room
    BY <1>4
  <2> QED BY <1>1, <1>3, <2>1 DEF ByteAt
<1>6. Padded(msg, room) = [buffer |-> b, len |-> Len(msg)]
  BY DEF Padded, b, z
<1>7. [buffer |-> b, len |-> Len(msg)] \in Slice
  BY <1>3, <1>4 DEF Slice
<1> QED BY <1>3, <1>5, <1>6, <1>7

\* What a transceiver message is parsed to.
LEMMA TransceiverParsed ==
  ASSUME NEW a \in Slice
  PROVE  LET t == ParseTransceiverMessage(a)
             capacity == Len(a.buffer)
             manager == Uint16(a.buffer[4], a.buffer[5])
             transceiver == Uint16(a.buffer[manager + 6], a.buffer[manager + 7])
         IN  /\ t.ok <=> /\ capacity >= 5
                         /\ a.buffer[1] = TransceiverMessagePrefix
                         /\ capacity >= manager + 7
                         /\ capacity >= manager + 7 + transceiver
             /\ t.ok => /\ t.source = a.buffer[2] /\ t.recipient = a.buffer[3]
                        /\ t.manager = Cut(a, 5, manager)
<1> DEFINE capacity == Len(a.buffer)
           manager == Uint16(a.buffer[4], a.buffer[5])
           transceiver == Uint16(a.buffer[manager + 6], a.buffer[manager + 7])
           t == ParseTransceiverMessage(a)
<1>1. /\ capacity \in Nat /\ \A k \in 1 .. capacity : a.buffer[k] \in Byte
  BY BytesAt DEF Slice
<1>2. t = IF \/ capacity < 5
             \/ a.buffer[1] # TransceiverMessagePrefix
             \/ capacity < manager + 7
             \/ capacity < manager + 7 + transceiver
          THEN Failed
          ELSE [ ok |-> TRUE, source |-> a.buffer[2], recipient |-> a.buffer[3],
                 manager |-> Cut(a, 5, manager),
                 transceiver |-> Cut(a, manager + 7, transceiver) ]
  BY DEF ParseTransceiverMessage
<1>3. capacity >= 5 => manager \in 0 .. 24
  <2> SUFFICES ASSUME capacity >= 5 PROVE manager \in 0 .. 24
    OBVIOUS
  <2> DEFINE hi == a.buffer[4]
             lo == a.buffer[5]
  <2>1. hi \in Byte /\ lo \in Byte
    BY <1>1
  <2> HIDE DEF hi, lo
  <2>2. Uint16(hi, lo) \in 0 .. 24
    BY <2>1, Uint16Bytes
  <2> QED BY <2>2 DEF hi, lo
<1> HIDE DEF t, manager
<1>4. capacity >= 5 /\ capacity >= manager + 7 => transceiver \in 0 .. 24
  <2> SUFFICES ASSUME capacity >= 5, capacity >= manager + 7 PROVE transceiver \in 0 .. 24
    OBVIOUS
  <2> DEFINE hi == a.buffer[manager + 6]
             lo == a.buffer[manager + 7]
  <2>1. hi \in Byte /\ lo \in Byte
    <3>1. capacity \in Nat /\ manager \in 0 .. 24 /\ capacity >= manager + 7
      BY <1>1, <1>3
    <3> HIDE DEF capacity
    <3>2. manager + 6 \in 1 .. capacity /\ manager + 7 \in 1 .. capacity
      BY <3>1
    <3> QED BY <1>1, <3>2 DEF capacity
  <2> HIDE DEF hi, lo
  <2>2. Uint16(hi, lo) \in 0 .. 24
    BY <2>1, Uint16Bytes
  <2> QED BY <2>2 DEF hi, lo
<1> HIDE DEF transceiver, capacity
<1> DEFINE Fits == /\ capacity >= 5
                   /\ a.buffer[1] = TransceiverMessagePrefix
                   /\ capacity >= manager + 7
                   /\ capacity >= manager + 7 + transceiver
<1>5. ~Fits <=> \/ capacity < 5
                \/ a.buffer[1] # TransceiverMessagePrefix
                \/ capacity < manager + 7
                \/ capacity < manager + 7 + transceiver
  <2>1. capacity \in Nat
    BY <1>1 DEF capacity
  <2> QED BY <1>3, <1>4, <2>1
<1>6. CASE Fits
  <2>1. t = [ ok |-> TRUE, source |-> a.buffer[2], recipient |-> a.buffer[3],
              manager |-> Cut(a, 5, manager),
              transceiver |-> Cut(a, manager + 7, transceiver) ]
    BY <1>2, <1>5, <1>6
  <2> QED BY <1>6, <2>1 DEF t, manager, transceiver, capacity
<1>7. CASE ~Fits
  <2>1. t.ok = FALSE
    BY <1>2, <1>5, <1>7 DEF Failed
  <2> QED BY <1>7, <2>1 DEF t, manager, transceiver, capacity
<1> QED BY <1>6, <1>7

\* What a delivered message carries does not depend on what lies behind it in its
\* buffer, as long as it is accepted.
LEMMA ManagerView ==
  ASSUME NEW msg \in Seq(Byte), NEW room \in Nat,
         ParseTransceiverMessage(Padded(msg, room)).ok
  PROVE  SameView(ParseTransceiverMessage(Padded(msg, room)).manager,
                  ParseTransceiverMessage(Padded(msg, 50)).manager)
<1> DEFINE a == Padded(msg, room)
           b == Padded(msg, 50)
           M == Uint16(ByteAt(msg, 4), ByteAt(msg, 5))
           X == Uint16(ByteAt(msg, M + 6), ByteAt(msg, M + 7))
           L == Len(msg)
<1>1. /\ a \in Slice /\ Len(a.buffer) = L + room
      /\ \A k \in 1 .. L + room : a.buffer[k] = ByteAt(msg, k)
  BY PaddedView
<1>2. /\ b \in Slice /\ Len(b.buffer) = L + 50
      /\ \A k \in 1 .. L + 50 : b.buffer[k] = ByteAt(msg, k)
  <2>1. 50 \in Nat
    OBVIOUS
  <2> QED BY <2>1, PaddedView
<1>3. L \in Nat /\ \A k \in Nat \ {0} : ByteAt(msg, k) \in Byte
  BY BytesAt DEF ByteAt, Byte, Base
<1>4. M \in 0 .. 24
  BY <1>3, Uint16Bytes, SMTT(40)
<1> HIDE DEF M
<1>5. X \in 0 .. 24 /\ (L < M + 6 => X = 0)
  <2>1. M + 6 \in Nat \ {0} /\ M + 7 \in Nat \ {0}
    BY <1>4
  <2> DEFINE hi == ByteAt(msg, M + 6)
             lo == ByteAt(msg, M + 7)
  <2>2. hi \in Byte /\ lo \in Byte
    BY <1>3, <2>1
  <2>3. L < M + 6 => hi = 0 /\ lo = 0
    <3>1. hi = IF M + 6 <= L THEN msg[M + 6] ELSE 0
      BY DEF ByteAt
    <3>2. lo = IF M + 7 <= L THEN msg[M + 7] ELSE 0
      BY DEF ByteAt
    <3>3. L \in Nat /\ M \in Nat
      BY <1>3, <1>4
    <3> HIDE DEF hi, lo, L
    <3> QED BY <3>1, <3>2, <3>3
  <2> HIDE DEF hi, lo
  <2>4. Uint16(hi, lo) \in 0 .. 24
    BY <2>2, Uint16Bytes
  <2>5. L < M + 6 => Uint16(hi, lo) = 0
    BY <2>3 DEF Uint16, Base
  <2> QED BY <2>4, <2>5 DEF hi, lo
<1> HIDE DEF a, b, M, X, L
<1>6. /\ L + room >= M + 7
      /\ ByteAt(msg, 1) = TransceiverMessagePrefix
      /\ ParseTransceiverMessage(a).manager = Cut(a, 5, M)
  <2>1. /\ Len(a.buffer) >= 5 /\ a.buffer[1] = TransceiverMessagePrefix
        /\ Len(a.buffer) >= Uint16(a.buffer[4], a.buffer[5]) + 7
        /\ ParseTransceiverMessage(a).manager = Cut(a, 5, Uint16(a.buffer[4], a.buffer[5]))
    BY <1>1, TransceiverParsed DEF a
  <2>2. 1 \in 1 .. L + room /\ 4 \in 1 .. L + room /\ 5 \in 1 .. L + room
    BY <1>1, <1>3, <2>1
  <2>3. a.buffer[1] = ByteAt(msg, 1) /\ Uint16(a.buffer[4], a.buffer[5]) = M
    BY <1>1, <2>2 DEF M
  <2> QED BY <1>1, <2>1, <2>3
<1>7. ParseTransceiverMessage(b).manager = Cut(b, 5, M)
  <2>1. 1 \in 1 .. L + 50 /\ 4 \in 1 .. L + 50 /\ 5 \in 1 .. L + 50
        /\ M + 6 \in 1 .. L + 50 /\ M + 7 \in 1 .. L + 50
    BY <1>3, <1>4
  <2>2. b.buffer[1] = ByteAt(msg, 1) /\ Uint16(b.buffer[4], b.buffer[5]) = M
    BY <1>2, <2>1 DEF M
  <2>3. Uint16(b.buffer[M + 6], b.buffer[M + 7]) = X
    BY <1>2, <2>1 DEF X
  <2>4. L + 50 >= 5 /\ L + 50 >= M + 7 /\ L + 50 >= M + 7 + X
    BY <1>3, <1>4, <1>5
  <2>5. ParseTransceiverMessage(b).ok
    BY <1>2, <1>6, <2>2, <2>3, <2>4, TransceiverParsed
  <2> QED BY <1>2, <2>2, <2>5, TransceiverParsed
<1> DEFINE c == Cut(a, 5, M)
           d == Cut(b, 5, M)
<1>8. M \in Nat /\ 5 \in Nat /\ 5 + M <= L + room /\ 5 + M <= L + 50
  BY <1>3, <1>4, <1>6
<1>9. /\ c \in Slice /\ c.len = M
      /\ \A k \in 1 .. L + room - 5 : c.buffer[k] = a.buffer[k + 5]
  <2>1. /\ c \in Slice /\ c.len = M
        /\ Len(c.buffer) = Len(a.buffer) - 5
        /\ \A k \in 1 .. Len(a.buffer) - 5 : c.buffer[k] = a.buffer[k + 5]
    <3>1. 5 + M <= Len(a.buffer)
      BY <1>1, <1>8
    <3> QED BY <1>1, <1>8, <3>1, CutEffect
  <2>2. Len(a.buffer) = L + room
    BY <1>1
  <2> HIDE DEF c
  <2>3. \A k \in 1 .. L + room - 5 : k \in 1 .. Len(a.buffer) - 5
    BY <1>3, <2>2
  <2> QED BY <2>1, <2>3
<1>10. /\ d \in Slice /\ d.len = M
       /\ \A k \in 1 .. L + 50 - 5 : d.buffer[k] = b.buffer[k + 5]
  <2>1. /\ d \in Slice /\ d.len = M
        /\ Len(d.buffer) = Len(b.buffer) - 5
        /\ \A k \in 1 .. Len(b.buffer) - 5 : d.buffer[k] = b.buffer[k + 5]
    <3>1. 5 + M <= Len(b.buffer)
      BY <1>2, <1>8
    <3> QED BY <1>2, <1>8, <3>1, CutEffect
  <2>2. Len(b.buffer) = L + 50
    BY <1>2
  <2> HIDE DEF d
  <2>3. \A k \in 1 .. L + 50 - 5 : k \in 1 .. Len(b.buffer) - 5
    BY <1>3, <2>2
  <2> QED BY <2>1, <2>3
<1> HIDE DEF c, d
<1>11. ASSUME NEW k \in 1 .. M PROVE c.buffer[k] = d.buffer[k]
  <2>1. /\ k \in 1 .. L + room - 5 /\ k \in 1 .. L + 50 - 5
        /\ k + 5 \in 1 .. L + room /\ k + 5 \in 1 .. L + 50
    BY <1>3, <1>8
  <2>2. a.buffer[k + 5] = ByteAt(msg, k + 5) /\ b.buffer[k + 5] = ByteAt(msg, k + 5)
    BY <1>1, <1>2, <2>1
  <2> QED BY <1>9, <1>10, <2>1, <2>2
<1>12. SameView(c, d)
  BY <1>9, <1>10, <1>11 DEF SameView
<1> QED BY <1>6, <1>7, <1>12 DEF a, b, c, d


-----------------------------------------------------------------------------
(* What is encoded. *)

\* One sequence behind another.
LEMMA Behind ==
  ASSUME NEW t \in Seq(Byte), NEW p \in Seq(Byte)
  PROVE  /\ t \o p \in Seq(Byte) /\ Len(t \o p) = Len(t) + Len(p)
         /\ \A k \in 1 .. Len(t) : (t \o p)[k] = t[k]
         /\ \A k \in 1 .. Len(p) : (t \o p)[Len(t) + k] = p[k]
<1> DEFINE e == t \o p
           m == Len(t)
           n == Len(p)
<1>1. /\ e \in Seq(Byte) /\ Len(e) = m + n
      /\ \A k \in 1 .. m + n : e[k] = IF k <= m THEN t[k] ELSE p[k - m]
  BY ConcatProperties
<1>2. m \in Nat /\ n \in Nat
  BY BytesAt
<1> HIDE DEF e, m, n
<1>3. \A k \in 1 .. m : e[k] = t[k]
  BY <1>1, <1>2
<1>4. ASSUME NEW k \in 1 .. n PROVE e[m + k] = p[k]
  <2> DEFINE i == m + k
  <2>1. i \in 1 .. m + n /\ ~ (i <= m) /\ i - m = k
    BY <1>2
  <2> HIDE DEF i
  <2>2. e[i] = p[k]
    BY <1>1, <2>1
  <2> QED BY <2>2 DEF i
<1> QED BY <1>1, <1>3, <1>4 DEF e, m, n

\* A header, a length in two bytes and as many bytes.
LEMMA Prefixed ==
  ASSUME NEW h \in Seq(Byte), NEW p \in Seq(Byte)
  PROVE  LET e == AppendUint16(h, Len(p)) \o p
             field == Len(p) % (Base * Base)
         IN  /\ e \in Seq(Byte) /\ Len(e) = Len(h) + 2 + Len(p)
             /\ \A k \in 1 .. Len(h) : e[k] = h[k]
             /\ e[Len(h) + 1] = field \div Base /\ e[Len(h) + 2] = field % Base
             /\ Len(p) <= 24 => Uint16(e[Len(h) + 1], e[Len(h) + 2]) = Len(p)
             /\ \A k \in 1 .. Len(p) : e[Len(h) + 2 + k] = p[k]
<1> DEFINE m == Len(h)
           n == Len(p)
           field == n % (Base * Base)
           t == AppendUint16(h, n)
           e == t \o p
<1>1. m \in Nat /\ n \in Nat
  BY BytesAt
<1>2. /\ t \in Seq(Byte) /\ Len(t) = m + 2
      /\ \A k \in 1 .. m : t[k] = h[k]
      /\ t[m + 1] = field \div Base /\ t[m + 2] = field % Base
      /\ n <= 24 => Uint16(t[m + 1], t[m + 2]) = n
  BY <1>1, AppendUint16Effect
<1> HIDE DEF t
<1>3. /\ e \in Seq(Byte) /\ Len(e) = Len(t) + n
      /\ \A k \in 1 .. Len(t) : e[k] = t[k]
      /\ \A k \in 1 .. n : e[Len(t) + k] = p[k]
  BY <1>2, Behind
<1> HIDE DEF e, m, n, field
<1>4. /\ Len(e) = m + 2 + n
      /\ \A k \in 1 .. m + 2 : e[k] = t[k]
      /\ \A k \in 1 .. n : e[m + 2 + k] = p[k]
  BY <1>2, <1>3
<1>5. \A k \in 1 .. m : k \in 1 .. m + 2
  BY <1>1
<1>6. m + 1 \in 1 .. m + 2 /\ m + 2 \in 1 .. m + 2
  BY <1>1
<1>7. /\ \A k \in 1 .. m : e[k] = h[k]
      /\ e[m + 1] = t[m + 1] /\ e[m + 2] = t[m + 2]
  BY <1>2, <1>4, <1>5, <1>6
<1>8. /\ e[m + 1] = field \div Base /\ e[m + 2] = field % Base
      /\ n <= 24 => Uint16(e[m + 1], e[m + 2]) = n
  BY <1>2, <1>7
<1> QED BY <1>3, <1>4, <1>7, <1>8 DEF e, m, n, field, t


\* A manager message.
LEMMA ManagerEncoded ==
  ASSUME NEW id \in Byte, NEW sender \in Byte, NEW payload \in Seq(Byte)
  PROVE  LET e == EncodeManagerMessage([id |-> id, sender |-> sender, payload |-> payload])
         IN  /\ e \in Seq(Byte) /\ Len(e) = 4 + Len(payload)
             /\ e[1] = id /\ e[2] = sender
             /\ Len(payload) <= 24 => Uint16(e[3], e[4]) = Len(payload)
             /\ \A k \in 1 .. Len(payload) : e[4 + k] = payload[k]
<1> DEFINE h == <<id, sender>>
           n == Len(payload)
           e == AppendUint16(h, n) \o payload
           field == n % (Base * Base)
<1>1. h \in Seq(Byte) /\ Len(h) = 2 /\ h[1] = id /\ h[2] = sender
  OBVIOUS
<1>2. EncodeManagerMessage([id |-> id, sender |-> sender, payload |-> payload]) = e
  BY DEF EncodeManagerMessage
<1> HIDE DEF h
<1>3. /\ e \in Seq(Byte) /\ Len(e) = Len(h) + 2 + n
      /\ \A k \in 1 .. Len(h) : e[k] = h[k]
      /\ e[Len(h) + 1] = field \div Base /\ e[Len(h) + 2] = field % Base
      /\ n <= 24 => Uint16(e[Len(h) + 1], e[Len(h) + 2]) = n
      /\ \A k \in 1 .. n : e[Len(h) + 2 + k] = payload[k]
  BY <1>1, Prefixed
<1> HIDE DEF e, field
<1>4. e[1] = h[1] /\ e[2] = h[2] /\ Len(h) + 1 = 3 /\ Len(h) + 2 = 4
  BY <1>1, <1>3
<1>5. n \in Nat
  BY BytesAt
<1> QED BY <1>1, <1>2, <1>3, <1>4, <1>5

\* A transceiver message with an empty payload of its own.
LEMMA TransceiverEncoded ==
  ASSUME NEW source \in Byte, NEW recipient \in Byte, NEW manager \in Seq(Byte)
  PROVE  LET e == EncodeTransceiverMessage([ source |-> source, recipient |-> recipient,
                                             manager |-> manager, transceiver |-> <<>> ])
             n == Len(manager)
         IN  /\ e \in Seq(Byte) /\ Len(e) = n + 7
             /\ e[1] = TransceiverMessagePrefix /\ e[2] = source /\ e[3] = recipient
             /\ n <= 24 => Uint16(e[4], e[5]) = n
             /\ \A k \in 1 .. n : e[5 + k] = manager[k]
             /\ Uint16(e[n + 6], e[n + 7]) = 0
<1> DEFINE h == <<TransceiverMessagePrefix, source, recipient>>
           n == Len(manager)
           t == AppendUint16(h, n) \o manager
           e == AppendUint16(t, 0)
           field == n % (Base * Base)
<1>1. /\ h \in Seq(Byte) /\ Len(h) = 3
      /\ h[1] = TransceiverMessagePrefix /\ h[2] = source /\ h[3] = recipient
  BY DEF TransceiverMessagePrefix, Byte, Base
<1>2. EncodeTransceiverMessage([ source |-> source, recipient |-> recipient,
                                 manager |-> manager, transceiver |-> <<>> ]) = e
  BY DEF EncodeTransceiverMessage
<1> HIDE DEF h
<1>3. /\ t \in Seq(Byte) /\ Len(t) = Len(h) + 2 + n
      /\ \A k \in 1 .. Len(h) : t[k] = h[k]
      /\ t[Len(h) + 1] = field \div Base /\ t[Len(h) + 2] = field % Base
      /\ n <= 24 => Uint16(t[Len(h) + 1], t[Len(h) + 2]) = n
      /\ \A k \in 1 .. n : t[Len(h) + 2 + k] = manager[k]
  BY <1>1, Prefixed
<1> HIDE DEF t, field
<1>4. n \in Nat
  BY BytesAt
<1>5. /\ t[1] = h[1] /\ t[2] = h[2] /\ t[3] = h[3]
      /\ Len(h) + 1 = 4 /\ Len(h) + 2 = 5 /\ Len(t) = n + 5
  BY <1>1, <1>3, <1>4
<1>6. /\ e \in Seq(Byte) /\ Len(e) = Len(t) + 2
      /\ \A k \in 1 .. Len(t) : e[k] = t[k]
      /\ e[Len(t) + 1] = 0 /\ e[Len(t) + 2] = 0
  <2> DEFINE zero == 0 % (Base * Base)
  <2>1. zero = 0 /\ zero \div Base = 0 /\ zero % Base = 0 /\ 0 \in Nat
    BY DEF Base
  <2>2. /\ e \in Seq(Byte) /\ Len(e) = Len(t) + 2
        /\ \A k \in 1 .. Len(t) : e[k] = t[k]
        /\ e[Len(t) + 1] = zero \div Base /\ e[Len(t) + 2] = zero % Base
    BY <1>3, <2>1, AppendUint16Effect
  <2> QED BY <2>1, <2>2
<1> HIDE DEF e, n
<1>7. /\ Len(e) = n + 7
      /\ \A k \in 1 .. n + 5 : e[k] = t[k]
      /\ Len(t) + 1 = n + 6 /\ Len(t) + 2 = n + 7
  BY <1>4, <1>5, <1>6
<1>8. /\ 1 \in 1 .. n + 5 /\ 2 \in 1 .. n + 5 /\ 3 \in 1 .. n + 5 /\ 4 \in 1 .. n + 5
      /\ 5 \in 1 .. n + 5
      /\ \A k \in 1 .. n : 5 + k \in 1 .. n + 5
  BY <1>4
<1>9. /\ e[1] = t[1] /\ e[2] = t[2] /\ e[3] = t[3] /\ e[4] = t[4] /\ e[5] = t[5]
      /\ \A k \in 1 .. n : e[5 + k] = t[5 + k]
  BY <1>7, <1>8
<1>10. Uint16(e[n + 6], e[n + 7]) = 0
  <2>1. e[n + 6] = 0 /\ e[n + 7] = 0
    BY <1>6, <1>7
  <2> QED BY <2>1 DEF Uint16, Base
<1> QED BY <1>1, <1>2, <1>3, <1>5, <1>6, <1>7, <1>9, <1>10 DEF n

\* The contents of a transfer.
IsTransfer(ntt) ==
    /\ ntt.amount \in Byte /\ ntt.sourceToken \in Byte /\ ntt.toChain \in Byte
    /\ ntt.to = <<ntt.to[1], ntt.to[2]>> /\ ntt.to[1] \in Byte /\ ntt.to[2] \in Byte
    /\ ntt.additional \in Seq(Byte)

\* A transfer.
LEMMA TransferEncoded ==
  ASSUME NEW ntt, IsTransfer(ntt)
  PROVE  LET e == EncodeNativeTokenTransfer(ntt)
             additional == ntt.additional
             n == Len(additional)
             field == n % (Base * Base)
         IN  /\ e \in Seq(Byte)
             /\ Len(e) = IF n = 0 THEN 7 ELSE n + 9
             /\ e[1] = NativeTokenTransferPrefix /\ e[2] = Decimals /\ e[3] = ntt.amount
             /\ e[4] = ntt.sourceToken /\ e[5] = ntt.to[1] /\ e[6] = ntt.to[2]
             /\ e[7] = ntt.toChain
             /\ n # 0 => /\ e[8] = field \div Base /\ e[9] = field % Base
                         /\ n <= 24 => Uint16(e[8], e[9]) = n
                         /\ \A k \in 1 .. n : e[9 + k] = additional[k]
<1> DEFINE amount == ntt.amount
           sourceToken == ntt.sourceToken
           pad == ntt.to[1]
           to == ntt.to[2]
           toChain == ntt.toChain
           additional == ntt.additional
<1>1. /\ amount \in Byte /\ sourceToken \in Byte /\ pad \in Byte /\ to \in Byte
      /\ toChain \in Byte /\ additional \in Seq(Byte) /\ ntt.to = <<pad, to>>
  BY DEF IsTransfer
<1> DEFINE h == <<NativeTokenTransferPrefix, Decimals, amount, sourceToken>>
                    \o <<pad, to>> \o <<toChain>>
           g == <<NativeTokenTransferPrefix, Decimals, amount, sourceToken, pad, to, toChain>>
           n == Len(additional)
           field == n % (Base * Base)
           e == AppendUint16(g, n) \o additional
<1>2. h = g
  <2> HIDE DEF amount, sourceToken, pad, to, toChain, additional
  <2> DEFINE a == <<NativeTokenTransferPrefix, Decimals, amount, sourceToken>>
             b == <<pad, to>>
             c == <<toChain>>
             d == a \o b
             f == d \o c
  <2>1. /\ a \in Seq(Byte) /\ Len(a) = 4
        /\ a[1] = NativeTokenTransferPrefix /\ a[2] = Decimals
        /\ a[3] = amount /\ a[4] = sourceToken
    BY <1>1 DEF NativeTokenTransferPrefix, Decimals, Byte, Base
  <2>2. b \in Seq(Byte) /\ Len(b) = 2 /\ b[1] = pad /\ b[2] = to
    BY <1>1
  <2>3. c \in Seq(Byte) /\ Len(c) = 1 /\ c[1] = toChain
    BY <1>1
  <2>4. g \in Seq(Byte) /\ Len(g) = 7
    BY <2>1, <2>2, <2>3
  <2>5. /\ g[1] = a[1] /\ g[2] = a[2] /\ g[3] = a[3] /\ g[4] = a[4]
        /\ g[5] = b[1] /\ g[6] = b[2] /\ g[7] = c[1]
    BY <2>1, <2>2, <2>3
  <2> HIDE DEF a, b, c, g
  <2>6. /\ d \in Seq(Byte) /\ Len(d) = Len(a) + Len(b)
        /\ \A k \in 1 .. Len(a) : d[k] = a[k]
        /\ \A k \in 1 .. Len(b) : d[Len(a) + k] = b[k]
    BY <2>1, <2>2, Behind
  <2> HIDE DEF d
  <2>7. /\ Len(d) = 6 /\ d[1] = a[1] /\ d[2] = a[2] /\ d[3] = a[3] /\ d[4] = a[4]
        /\ d[5] = b[1] /\ d[6] = b[2]
    BY <2>1, <2>2, <2>6
  <2>8. /\ f \in Seq(Byte) /\ Len(f) = Len(d) + Len(c)
        /\ \A k \in 1 .. Len(d) : f[k] = d[k]
        /\ \A k \in 1 .. Len(c) : f[Len(d) + k] = c[k]
    BY <2>3, <2>6, Behind
  <2> HIDE DEF f
  <2>9. /\ Len(f) = 7 /\ f[1] = a[1] /\ f[2] = a[2] /\ f[3] = a[3] /\ f[4] = a[4]
        /\ f[5] = b[1] /\ f[6] = b[2] /\ f[7] = c[1]
    BY <2>3, <2>7, <2>8
  <2>10. \A k \in 1 .. 7 : f[k] = g[k]
    BY <2>5, <2>9
  <2>11. f = g
    BY <2>4, <2>8, <2>9, <2>10, SeqEqual
  <2> QED BY <2>11 DEF f, d, a, b, c
<1>3. /\ g \in Seq(Byte) /\ Len(g) = 7
      /\ g[1] = NativeTokenTransferPrefix /\ g[2] = Decimals /\ g[3] = amount
      /\ g[4] = sourceToken /\ g[5] = pad /\ g[6] = to /\ g[7] = toChain
  BY <1>1 DEF NativeTokenTransferPrefix, Decimals, Byte, Base
<1>4. EncodeNativeTokenTransfer(ntt) = IF additional = <<>> THEN g ELSE e
  <2>1. EncodeNativeTokenTransfer(ntt)
          = IF additional = <<>> THEN h ELSE AppendUint16(h, n) \o additional
    BY <1>1 DEF EncodeNativeTokenTransfer
  <2> QED BY <1>2, <2>1
<1>5. n \in Nat /\ (n = 0 <=> additional = <<>>)
  BY <1>1, BytesAt, EmptySeq
<1> HIDE DEF g
<1>6. /\ e \in Seq(Byte) /\ Len(e) = Len(g) + 2 + n
      /\ \A k \in 1 .. Len(g) : e[k] = g[k]
      /\ e[Len(g) + 1] = field \div Base /\ e[Len(g) + 2] = field % Base
      /\ n <= 24 => Uint16(e[Len(g) + 1], e[Len(g) + 2]) = n
      /\ \A k \in 1 .. n : e[Len(g) + 2 + k] = additional[k]
  BY <1>1, <1>3, Prefixed
<1> HIDE DEF e, field, n
<1>7. /\ Len(e) = n + 9 /\ Len(g) + 1 = 8 /\ Len(g) + 2 = 9
      /\ e[1] = g[1] /\ e[2] = g[2] /\ e[3] = g[3] /\ e[4] = g[4]
      /\ e[5] = g[5] /\ e[6] = g[6] /\ e[7] = g[7]
  <2>1. Len(g) = 7 /\ n \in Nat
    BY <1>3, <1>5
  <2>2. Len(e) = Len(g) + 2 + n /\ \A k \in 1 .. Len(g) : e[k] = g[k]
    BY <1>6
  <2>3. Len(e) = n + 9 /\ Len(g) + 1 = 8 /\ Len(g) + 2 = 9
    BY <2>1, <2>2
  <2>4. \A k \in 1 .. 7 : e[k] = g[k]
    BY <2>1, <2>2
  <2> QED BY <2>3, <2>4
<1> QED BY <1>3, <1>4, <1>5, <1>6, <1>7 DEF n, field


-----------------------------------------------------------------------------
(* What arrives. *)

\* What was delivered is what was sent, in a buffer with room for some more.
Arrived ==
    /\ bz \in Seq(Byte)
    /\ layer = "delivered" => \E room \in Nat : outcome = Delivered(Padded(bz, room))

\* The additional payloads of the transfers that peers mean.
Additionals == {<<1, 1>>, <<1, 1, 4>>, <<1>>, <<>>}

\* What peers mean is encoded in bytes.
LEMMA MeaningsEncoded ==
  /\ \A meaning \in Meanings :
        \/ /\ meaning = [type |-> "index", index |-> 1]
           /\ Encoded(meaning) = EncodeIndexPayload(1, ThisChain)
        \/ \E additional \in Seq(Byte) :
              /\ additional \in Additionals
              /\ meaning = Transfer(additional)
              /\ Encoded(meaning) = EncodeNativeTokenTransfer(Transfer(additional))
  /\ \A meaning \in Meanings : Encoded(meaning) \in Seq(Byte)
<1>1. EncodeAdditionalPayload(1, RawToken) = <<1, 1>>
  BY DEF EncodeAdditionalPayload, Uint64, Base, RawToken
<1>2. <<1, 1>> \o <<4>> = <<1, 1, 4>>
  <2> DEFINE a == <<1, 1>>
             b == <<4>>
             c == <<1, 1, 4>>
             d == a \o b
  <2>1. /\ a \in Seq(Byte) /\ Len(a) = 2 /\ a[1] = 1 /\ a[2] = 1
        /\ b \in Seq(Byte) /\ Len(b) = 1 /\ b[1] = 4
        /\ c \in Seq(Byte) /\ Len(c) = 3 /\ c[1] = 1 /\ c[2] = 1 /\ c[3] = 4
    BY DEF Byte, Base
  <2> HIDE DEF a, b, c
  <2>2. /\ d \in Seq(Byte) /\ Len(d) = Len(a) + Len(b)
        /\ \A k \in 1 .. Len(a) : d[k] = a[k]
        /\ \A k \in 1 .. Len(b) : d[Len(a) + k] = b[k]
    BY <2>1, Behind
  <2> HIDE DEF d
  <2>3. Len(d) = 3 /\ d[1] = a[1] /\ d[2] = a[2] /\ d[3] = b[1]
    BY <2>1, <2>2
  <2>4. \A k \in 1 .. 3 : d[k] = c[k]
    BY <2>1, <2>3
  <2>5. d = c
    BY <2>1, <2>2, <2>3, <2>4, SeqEqual
  <2> QED BY <2>5 DEF a, b, c, d
<1>3. /\ <<1, 1>> \in Seq(Byte) /\ <<1, 1, 4>> \in Seq(Byte) /\ <<1>> \in Seq(Byte)
      /\ <<>> \in Seq(Byte)
  BY DEF Byte, Base
<1>4. Meanings = { Transfer(<<1, 1>>), Transfer(<<1, 1, 4>>), Transfer(<<1>>), Transfer(<<>>),
                   [type |-> "index", index |-> 1] }
  BY <1>1, <1>2 DEF Meanings
<1>5. ASSUME NEW additional \in Seq(Byte)
      PROVE  /\ Encoded(Transfer(additional)) = EncodeNativeTokenTransfer(Transfer(additional))
             /\ EncodeNativeTokenTransfer(Transfer(additional)) \in Seq(Byte)
  <2> DEFINE meaning == Transfer(additional)
  <2>1. /\ meaning.type = "token" /\ meaning.amount = 1 /\ meaning.sourceToken = 1
        /\ meaning.to = <<0, 2>> /\ meaning.to[1] = 0 /\ meaning.to[2] = 2
        /\ meaning.toChain = 1 /\ meaning.additional = additional
    BY DEF Transfer, RawToken, ThisChain
  <2>2. 0 \in Byte /\ 1 \in Byte /\ 2 \in Byte
    BY DEF Byte, Base
  <2> HIDE DEF meaning
  <2>3. EncodeNativeTokenTransfer(meaning) \in Seq(Byte)
    <3>1. IsTransfer(meaning)
      BY <2>1, <2>2 DEF IsTransfer
    <3> QED BY <3>1, TransferEncoded
  <2>4. Encoded(meaning) = EncodeNativeTokenTransfer(meaning)
    BY <2>1 DEF Encoded
  <2> QED BY <2>3, <2>4 DEF meaning
<1>6. LET meaning == [type |-> "index", index |-> 1]
      IN  /\ Encoded(meaning) = EncodeIndexPayload(1, ThisChain)
          /\ EncodeIndexPayload(1, ThisChain) \in Seq(Byte)
  BY DEF Encoded, EncodeIndexPayload, M0IT, Uint64, ThisChain, Byte, Base
<1>7. ASSUME NEW meaning \in Meanings
      PROVE  \/ /\ meaning = [type |-> "index", index |-> 1]
                /\ Encoded(meaning) = EncodeIndexPayload(1, ThisChain)
             \/ \E additional \in Seq(Byte) :
                   /\ additional \in Additionals
                   /\ meaning = Transfer(additional)
                   /\ Encoded(meaning) = EncodeNativeTokenTransfer(Transfer(additional))
  <2>1. CASE meaning = [type |-> "index", index |-> 1]
    BY <1>6, <2>1
  <2>2. ASSUME NEW additional \in Additionals,
               meaning = Transfer(additional)
        PROVE  \E a \in Seq(Byte) :
                  /\ a \in Additionals
                  /\ meaning = Transfer(a)
                  /\ Encoded(meaning) = EncodeNativeTokenTransfer(Transfer(a))
    <3>1. additional \in Seq(Byte)
      BY <1>3 DEF Additionals
    <3> QED BY <1>5, <2>2, <3>1
  <2> QED BY <1>4, <2>1, <2>2 DEF Additionals
<1>8. ASSUME NEW meaning \in Meanings PROVE Encoded(meaning) \in Seq(Byte)
  <2>1. CASE meaning = [type |-> "index", index |-> 1]
    BY <1>6, <2>1
  <2>2. CASE \E additional \in Seq(Byte) : meaning = Transfer(additional)
    BY <1>5, <2>2
  <2> QED BY <1>7, <2>1, <2>2
<1> QED BY <1>7, <1>8

LEMMA ArrivedInvariance == NTTSpec => []Arrived
<1>1. NTTInit => Arrived
  BY MeaningsEncoded DEF NTTInit, Arrived
<1>2. Arrived /\ [NTTNext]_wireVars => Arrived'
  <2> SUFFICES ASSUME Arrived, [NTTNext]_wireVars PROVE Arrived'
    OBVIOUS
  <2>1. CASE Alter
    <3>1. layer # "delivered" /\ layer' = layer
      BY <2>1 DEF Alter
    <3>2. bz \in Seq(Byte) /\ Len(bz) \in Nat /\ \A k \in 1 .. Len(bz) : bz[k] \in Byte
      BY BytesAt DEF Arrived
    <3>3. CASE \E n \in 0 .. Len(bz) - 1 : bz' = SubSeq(bz, 1, n)
      <4> PICK n \in 0 .. Len(bz) - 1 : bz' = SubSeq(bz, 1, n)
        BY <3>3
      <4>1. 1 \in Int /\ n \in Int /\ \A k \in 1 .. n : bz[k] \in Byte
        BY <3>2
      <4>2. SubSeq(bz, 1, n) \in Seq(Byte)
        BY <4>1, SubSeqProperties
      <4> QED BY <3>1, <4>2 DEF Arrived
    <3>4. CASE \E i \in 1 .. Len(bz), byte \in Byte :
                  byte # bz[i] /\ bz' = ReplaceAt(bz, i, byte)
      <4> PICK i \in 1 .. Len(bz), byte \in Byte : bz' = ReplaceAt(bz, i, byte)
        BY <3>4
      <4>1. ReplaceAt(bz, i, byte) \in Seq(Byte)
        BY <3>2, ExceptSeq DEF ReplaceAt
      <4> QED BY <3>1, <4>1 DEF Arrived
    <3>5. CASE \E byte \in Byte : bz' = Append(bz, byte)
      BY <3>1, <3>2, <3>5, AppendProperties DEF Arrived
    <3> QED BY <2>1, <3>3, <3>4, <3>5 DEF Alter
  <2>2. CASE WrapInManagerMessage
    <3>1. bz' \in Seq(Byte)
      <4>1. 0 \in Byte /\ 1 \in Byte /\ bz \in Seq(Byte)
        BY DEF Byte, Base, Arrived
      <4>2. EncodeManagerMessage([id |-> 0, sender |-> 1, payload |-> bz]) \in Seq(Byte)
        BY <4>1, ManagerEncoded
      <4> QED BY <2>2, <4>2 DEF WrapInManagerMessage
    <3> QED BY <2>2, <3>1 DEF WrapInManagerMessage, Arrived
  <2>3. CASE WrapInTransceiverMessage
    <3>1. bz' \in Seq(Byte)
      <4>1. Peer \in Byte /\ PaddedManagerAddress \in Byte /\ bz \in Seq(Byte)
        BY DEF Byte, Base, Arrived, Peer, PaddedManagerAddress
      <4>2. EncodeTransceiverMessage([ source |-> Peer, recipient |-> PaddedManagerAddress,
                                       manager |-> bz, transceiver |-> <<>> ]) \in Seq(Byte)
        BY <4>1, TransceiverEncoded
      <4> QED BY <2>3, <4>2 DEF WrapInTransceiverMessage
    <3> QED BY <2>3, <3>1 DEF WrapInTransceiverMessage, Arrived
  <2>4. CASE \E spare \in Spare : Deliver(spare)
    <3> PICK spare \in Spare : Deliver(spare)
      BY <2>4
    <3>1. spare \in Nat
      BY SpareAssumption
    <3>2. bz' = bz /\ outcome' = Delivered(Padded(bz, spare))
      BY DEF Deliver, Padded
    <3> QED BY <3>1, <3>2 DEF Arrived
  <2>5. CASE UNCHANGED wireVars
    BY <2>5 DEF wireVars, Arrived
  <2> QED BY <2>1, <2>2, <2>3, <2>4, <2>5 DEF NTTNext
<1> QED BY <1>1, <1>2, PTL DEF NTTSpec

\* What is not refused came in messages that were parsed, and is what HandlePayload
\* makes of the payload.
LEMMA DeliveredParsed ==
  ASSUME NEW a, Delivered(a).ok
  PROVE  LET t == ParseTransceiverMessage(a)
             m == ParseManagerMessage(t.manager)
         IN  t.ok /\ m.ok /\ Delivered(a) = HandlePayload(m.payload)
<1> DEFINE t == ParseTransceiverMessage(a)
           m == ParseManagerMessage(t.manager)
           h == HandlePayload(m.payload)
<1>1. Delivered(a) = IF \/ ~t.ok \/ t.source # Peer \/ t.recipient # PaddedManagerAddress
                        \/ ~m.ok
                     THEN Failed ELSE h
  BY DEF Delivered
<1> HIDE DEF t, m, h
<1> QED BY <1>1 DEF Failed, t, m, h

\* The manager message that was received, wherever the buffer ended.
LEMMA ReceivedSame ==
  ASSUME Arrived, layer = "delivered", outcome.ok
  PROVE  LET m == ParseManagerMessage(ReceivedManager)
         IN  /\ ReceivedManager \in Slice /\ m.ok
             /\ \E payload : SameView(payload, m.payload) /\ outcome = HandlePayload(payload)
<1> PICK room \in Nat : outcome = Delivered(Padded(bz, room))
  BY DEF Arrived
<1> DEFINE a == Padded(bz, room)
           t == ParseTransceiverMessage(a)
           n == ParseManagerMessage(t.manager)
           m == ParseManagerMessage(ReceivedManager)
<1>1. t.ok /\ n.ok /\ outcome = HandlePayload(n.payload)
  BY DeliveredParsed
<1>2. ReceivedManager = ParseTransceiverMessage(Padded(bz, 50)).manager
  <2>1. 2 * Base * Base = 50
    BY DEF Base
  <2> QED BY <2>1 DEF ReceivedManager, Padded
<1>3. SameView(t.manager, ReceivedManager)
  <2>1. bz \in Seq(Byte)
    BY DEF Arrived
  <2> QED BY <1>1, <1>2, <2>1, ManagerView
<1> HIDE DEF t
<1>4. m.ok /\ SameView(n.payload, m.payload)
  BY <1>1, <1>3, ManagerSame
<1>5. ReceivedManager \in Slice
  BY <1>3 DEF SameView
<1> QED BY <1>1, <1>4, <1>5

-----------------------------------------------------------------------------
(* Payloads that are accepted. *)

\* What a transfer is parsed to.
LEMMA TransferParsed ==
  ASSUME NEW a \in Slice
  PROVE  LET ntt == ParseNativeTokenTransfer(a)
         IN  /\ ntt.ok => /\ a.len >= 7 /\ a.buffer[1] = NativeTokenTransferPrefix
                          /\ ntt = TransferFields(a, 9)
                          /\ a.len <= 7 \/ (a.len >= 9 /\ a.len - 9 = Uint16(a.buffer[8], a.buffer[9]))
             /\ /\ a.len >= 9 /\ a.buffer[1] = NativeTokenTransferPrefix
                /\ a.len - 9 = Uint16(a.buffer[8], a.buffer[9])
                => ntt.ok
             /\ a.len = 7 /\ a.buffer[1] = NativeTokenTransferPrefix => ntt.ok
<1> DEFINE n == a.len
           first == a.buffer[1]
           stated == Uint16(a.buffer[8], a.buffer[9])
           ntt == ParseNativeTokenTransfer(a)
           fields == TransferFields(a, 9)
<1>1. n \in Nat
  BY DEF Slice
<1>2. fields.ok
  BY DEF TransferFields
<1>3. ntt = IF \/ n < 7 \/ first # NativeTokenTransferPrefix \/ n = 8
               \/ n > 8 /\ n - 9 # stated
            THEN Failed ELSE fields
  BY DEF ParseNativeTokenTransfer
<1> HIDE DEF n, first, stated, ntt, fields
<1>4. ntt.ok => /\ n >= 7 /\ first = NativeTokenTransferPrefix /\ ntt = fields
                /\ n <= 7 \/ (n >= 9 /\ n - 9 = stated)
  BY <1>1, <1>3 DEF Failed
<1>5. n >= 9 /\ first = NativeTokenTransferPrefix /\ n - 9 = stated => ntt.ok
  BY <1>1, <1>2, <1>3
<1>6. n = 7 /\ first = NativeTokenTransferPrefix => ntt.ok
  BY <1>1, <1>2, <1>3
<1> QED BY <1>4, <1>5, <1>6 DEF n, first, stated, ntt, fields

\* The additional payload of a transfer.
LEMMA AdditionalCut ==
  ASSUME NEW a \in Slice, a.len >= 9
  PROVE  LET c == TransferFields(a, 9).additional
         IN  /\ c \in Slice /\ c.len = a.len - 9
             /\ \A k \in 1 .. a.len - 9 : c.buffer[k] = a.buffer[9 + k]
<1> DEFINE n == a.len - 9
           c == Cut(a, 9, n)
           capacity == Len(a.buffer)
<1>1. a.len \in Nat /\ capacity \in Nat /\ a.len <= capacity
  BY BytesAt DEF Slice
<1>2. n \in Nat /\ 9 \in Nat /\ 9 + n <= capacity
  BY <1>1
<1>3. /\ c \in Slice /\ c.len = n
      /\ \A k \in 1 .. capacity - 9 : c.buffer[k] = a.buffer[k + 9]
  BY <1>2, CutEffect
<1>4. TransferFields(a, 9).additional = c
  BY <1>1 DEF TransferFields
<1> HIDE DEF c
<1>5. ASSUME NEW k \in 1 .. n PROVE c.buffer[k] = a.buffer[9 + k]
  <2>1. k \in 1 .. capacity - 9 /\ k + 9 = 9 + k
    BY <1>1, <1>2
  <2> QED BY <1>3, <2>1
<1> QED BY <1>3, <1>4, <1>5

\* An additional payload that is decoded has two bytes.
LEMMA AdditionalDecoded ==
  ASSUME NEW c \in Slice
  PROVE  LET d == DecodeAdditionalPayload(c)
         IN  /\ d.ok <=> c.len >= 2
             /\ d.ok => d.index = Int64(c.buffer[1]) /\ d.token = c.buffer[2]
<1>1. c.len \in Nat
  BY DEF Slice
<1> QED BY <1>1 DEF DecodeAdditionalPayload, Failed

\* The type of a payload is its first byte.
LEMMA PayloadType ==
  ASSUME NEW a \in Slice
  PROVE  LET type == GetPayloadType(a)
         IN  /\ type \in {"unknown", "token", "index"}
             /\ type = "token" <=> a.len >= 1 /\ a.buffer[1] = NativeTokenTransferPrefix
             /\ type = "index" <=> a.len >= 1 /\ a.buffer[1] = M0IT
<1> DEFINE n == a.len
           first == a.buffer[1]
           type == GetPayloadType(a)
<1>1. n \in Nat /\ NativeTokenTransferPrefix # M0IT
  BY DEF Slice, NativeTokenTransferPrefix, M0IT
<1>2. type = IF n < 1 THEN "unknown"
             ELSE CASE first = NativeTokenTransferPrefix -> "token"
                    [] first = M0IT                      -> "index"
                    [] OTHER                             -> "unknown"
  BY DEF GetPayloadType
<1> HIDE DEF n, first, type
<1>3. CASE n < 1 \/ (first # NativeTokenTransferPrefix /\ first # M0IT)
  <2>1. ~ (n >= 1 /\ (first = NativeTokenTransferPrefix \/ first = M0IT))
    BY <1>1, <1>3
  <2>2. type = "unknown"
    <3>1. CASE n < 1
      BY <1>2, <3>1
    <3>2. CASE ~ (n < 1)
      BY <1>2, <1>3, <3>2
    <3> QED BY <3>1, <3>2
  <2> QED BY <2>1, <2>2 DEF n, first, type
<1>4. CASE n >= 1 /\ first = NativeTokenTransferPrefix
  <2>1. ~ (n < 1) /\ first # M0IT
    BY <1>1, <1>4
  <2>2. type = "token"
    BY <1>2, <1>4, <2>1
  <2> QED BY <1>4, <2>1, <2>2 DEF n, first, type
<1>5. CASE n >= 1 /\ first = M0IT
  <2>1. ~ (n < 1) /\ first # NativeTokenTransferPrefix
    BY <1>1, <1>5
  <2>2. type = "index"
    BY <1>2, <1>5, <2>1
  <2> QED BY <1>5, <2>1, <2>2 DEF n, first, type
<1> QED BY <1>1, <1>3, <1>4, <1>5

\* What HandlePayload issues $USDN for.
LEMMA TokenHandled ==
  ASSUME NEW a \in Slice
  PROVE  LET h == HandlePayload(a)
             Issued == /\ a.len >= 11 /\ a.buffer[1] = NativeTokenTransferPrefix
                       /\ a.len - 9 = Uint16(a.buffer[8], a.buffer[9])
                       /\ a.buffer[7] = ThisChain /\ a.buffer[11] = RawToken
         IN  /\ h.ok /\ h.type = "token" => Issued
             /\ Issued => h = [ ok |-> TRUE, type |-> "token", recipient |-> a.buffer[6],
                                amount |-> a.buffer[3], index |-> Int64(a.buffer[10]) ]
             /\ a.len >= 1 /\ a.buffer[1] = NativeTokenTransferPrefix /\ ~Issued => h = Failed
<1> DEFINE h == HandlePayload(a)
           t == DecodeTokenPayload(a)
           ntt == ParseNativeTokenTransfer(a)
           c == ntt.additional
           d == DecodeAdditionalPayload(c)
           stated == Uint16(a.buffer[8], a.buffer[9])
           first == a.buffer[1]
           Issued == /\ a.len >= 11 /\ first = NativeTokenTransferPrefix
                     /\ a.len - 9 = stated
                     /\ a.buffer[7] = ThisChain /\ a.buffer[11] = RawToken
           minted == [ ok |-> TRUE, type |-> "token", recipient |-> a.buffer[6],
                       amount |-> a.buffer[3], index |-> Int64(a.buffer[10]) ]
           Right == t.ok /\ t.chain = ThisChain /\ t.token = <<RawToken>>
<1>1. a.len \in Nat
  BY DEF Slice
<1>2. /\ ntt.ok => /\ a.len >= 7 /\ first = NativeTokenTransferPrefix
                   /\ ntt = TransferFields(a, 9)
                   /\ a.len <= 7 \/ (a.len >= 9 /\ a.len - 9 = stated)
      /\ a.len >= 9 /\ first = NativeTokenTransferPrefix /\ a.len - 9 = stated => ntt.ok
  BY TransferParsed
<1>3. t = IF ~ntt.ok THEN Failed
          ELSE [ ok |-> TRUE, amount |-> ntt.amount, recipient |-> ntt.to[2],
                 chain |-> ntt.toChain,
                 index |-> IF d.ok THEN d.index ELSE 0,
                 token |-> IF d.ok THEN <<d.token>> ELSE <<>> ]
  BY DEF DecodeTokenPayload
<1>4. ntt.ok => /\ ntt.amount = a.buffer[3] /\ ntt.to[2] = a.buffer[6]
                /\ ntt.toChain = a.buffer[7]
  BY <1>2 DEF TransferFields
<1>5. ntt.ok /\ a.len <= 7 => ~d.ok
  <2> SUFFICES ASSUME ntt.ok, a.len <= 7 PROVE ~d.ok
    OBVIOUS
  <2>1. c = [buffer |-> <<>>, len |-> 0]
    BY <1>1, <1>2 DEF TransferFields
  <2>2. c.len = 0
    BY <2>1
  <2> HIDE DEF c
  <2> QED BY <2>2 DEF DecodeAdditionalPayload, Failed
<1>6. ntt.ok /\ a.len >= 9 =>
        /\ d.ok <=> a.len >= 11
        /\ d.ok => d.index = Int64(a.buffer[10]) /\ d.token = a.buffer[11]
  <2> SUFFICES ASSUME ntt.ok, a.len >= 9
               PROVE  /\ d.ok <=> a.len >= 11
                      /\ d.ok => d.index = Int64(a.buffer[10]) /\ d.token = a.buffer[11]
    OBVIOUS
  <2> DEFINE n == a.len - 9
  <2>1. ntt = TransferFields(a, 9)
    BY <1>2
  <2>2. c \in Slice /\ c.len = n /\ \A k \in 1 .. n : c.buffer[k] = a.buffer[9 + k]
    BY <2>1, AdditionalCut
  <2> HIDE DEF c
  <2>3. /\ d.ok <=> c.len >= 2
        /\ d.ok => d.index = Int64(c.buffer[1]) /\ d.token = c.buffer[2]
    BY <2>2, AdditionalDecoded
  <2>4. n \in Nat /\ (n >= 2 <=> a.len >= 11)
    BY <1>1
  <2> HIDE DEF d, n
  <2>5. n >= 2 => c.buffer[1] = a.buffer[10] /\ c.buffer[2] = a.buffer[11]
    BY <2>2, <2>4
  <2> QED BY <2>2, <2>3, <2>4, <2>5
<1> HIDE DEF c, d, ntt, first, stated
<1>7. h = CASE GetPayloadType(a) = "unknown" -> [ok |-> TRUE, type |-> "unknown"]
            [] GetPayloadType(a) = "token" ->
                 IF Right THEN [ ok |-> TRUE, type |-> "token", recipient |-> t.recipient,
                                 amount |-> t.amount, index |-> t.index ]
                 ELSE Failed
            [] GetPayloadType(a) = "index" ->
                 IF DecodeIndexPayload(a).ok /\ DecodeIndexPayload(a).chain = ThisChain
                 THEN [ok |-> TRUE, type |-> "index", index |-> DecodeIndexPayload(a).index]
                 ELSE Failed
  BY DEF HandlePayload
<1>8. /\ GetPayloadType(a) = "token" <=> a.len >= 1 /\ first = NativeTokenTransferPrefix
      /\ GetPayloadType(a) \in {"unknown", "token", "index"}
  BY PayloadType DEF first
<1> HIDE DEF h, t
<1>9. h.ok /\ h.type = "token" => GetPayloadType(a) = "token" /\ Right
  BY <1>7, <1>8 DEF Failed
<1>10. Right <=> Issued
  <2>1. ASSUME Right PROVE Issued
    <3>1. ntt.ok
      BY <1>3, <2>1 DEF Failed
    <3>2. t.chain = ntt.toChain /\ t.token = IF d.ok THEN <<d.token>> ELSE <<>>
      BY <1>3, <3>1
    <3>3. d.ok /\ d.token = RawToken
      BY <2>1, <3>2
    <3>4. a.len >= 9 /\ a.len - 9 = stated
      BY <1>1, <1>2, <1>5, <3>1, <3>3
    <3> QED BY <1>2, <1>4, <1>6, <2>1, <3>1, <3>2, <3>3, <3>4
  <2>2. ASSUME Issued PROVE Right
    <3>1. ntt.ok /\ a.len >= 9
      BY <1>1, <1>2, <2>2
    <3>2. d.ok /\ d.token = RawToken
      BY <1>6, <2>2, <3>1
    <3>3. t.ok /\ t.chain = ntt.toChain /\ t.token = <<d.token>>
      BY <1>3, <3>1, <3>2
    <3> QED BY <1>4, <2>2, <3>1, <3>2, <3>3
  <2> QED BY <2>1, <2>2
<1>11. Issued => h = minted
  <2> SUFFICES ASSUME Issued PROVE h = minted
    OBVIOUS
  <2>1. ntt.ok /\ a.len >= 9 /\ a.len >= 1
    BY <1>1, <1>2
  <2>2. d.ok /\ d.index = Int64(a.buffer[10])
    BY <1>6, <2>1
  <2>3. t.recipient = a.buffer[6] /\ t.amount = a.buffer[3] /\ t.index = Int64(a.buffer[10])
    BY <1>3, <1>4, <2>1, <2>2
  <2>4. Right
    BY <1>10
  <2> HIDE DEF Right
  <2>5. GetPayloadType(a) = "token"
    BY <1>8, <2>1
  <2>6. h = [ ok |-> TRUE, type |-> "token", recipient |-> t.recipient,
              amount |-> t.amount, index |-> t.index ]
    BY <1>7, <2>4, <2>5
  <2> QED BY <2>3, <2>6
<1>12. a.len >= 1 /\ first = NativeTokenTransferPrefix /\ ~Issued => h = Failed
  <2> SUFFICES ASSUME a.len >= 1, first = NativeTokenTransferPrefix, ~Issued PROVE h = Failed
    OBVIOUS
  <2>1. ~Right
    BY <1>10
  <2>2. GetPayloadType(a) = "token"
    BY <1>8
  <2> HIDE DEF Right
  <2> QED BY <1>7, <2>1, <2>2
<1>13. h.ok /\ h.type = "token" => Issued
  BY <1>9, <1>10
<1> QED BY <1>11, <1>12, <1>13 DEF h, first, stated


\* A transfer with an additional payload is, but for its decimals, what its contents
\* are encoded to.
LEMMA TransferReencoded ==
  ASSUME NEW b \in Slice, b.len >= 11, b.buffer[1] = NativeTokenTransferPrefix,
         b.len - 9 = Uint16(b.buffer[8], b.buffer[9])
  PROVE  LET ntt == ParseNativeTokenTransfer(b)
             parsed == [ntt EXCEPT !.additional = Bytes(@)]
         IN  /\ Bytes(b) = [EncodeNativeTokenTransfer(parsed) EXCEPT ![2] = Bytes(b)[2]]
             /\ parsed.amount = b.buffer[3] /\ parsed.to[2] = b.buffer[6]
             /\ parsed.additional \in Seq(Byte) /\ Len(parsed.additional) = b.len - 9
             /\ \A k \in 1 .. b.len - 9 : parsed.additional[k] = b.buffer[9 + k]
<1> DEFINE ntt == ParseNativeTokenTransfer(b)
           c == TransferFields(b, 9).additional
           p == Bytes(c)
           parsed == [ntt EXCEPT !.additional = Bytes(@)]
           n == b.len - 9
           e == EncodeNativeTokenTransfer(parsed)
           x == Bytes(b)
           y == [e EXCEPT ![2] = x[2]]
           field == n % (Base * Base)
<1>1. /\ b.len \in Nat /\ b.len <= Len(b.buffer) /\ Len(b.buffer) \in Nat
      /\ \A k \in 1 .. Len(b.buffer) : b.buffer[k] \in Byte
  BY BytesAt DEF Slice
<1>2. /\ b.len \in Nat /\ b.len >= 11 /\ b.len = n + 9 /\ n \in Nat /\ n # 0
  <2> DEFINE len == b.len
  <2>1. len \in Nat /\ len >= 11
    BY <1>1
  <2> HIDE DEF len
  <2>2. len = len - 9 + 9 /\ len - 9 \in Nat /\ len - 9 # 0
    BY <2>1
  <2> QED BY <2>1, <2>2 DEF len
<1>3. /\ b.buffer[2] \in Byte /\ b.buffer[3] \in Byte /\ b.buffer[4] \in Byte
      /\ b.buffer[5] \in Byte /\ b.buffer[6] \in Byte /\ b.buffer[7] \in Byte
      /\ b.buffer[8] \in Byte /\ b.buffer[9] \in Byte
  <2> DEFINE capacity == Len(b.buffer)
             len == b.len
  <2>1. capacity \in Nat /\ len \in Nat /\ len >= 11 /\ len <= capacity
    BY <1>1, <1>2
  <2> HIDE DEF capacity, len
  <2>2. /\ 2 \in 1 .. capacity /\ 3 \in 1 .. capacity /\ 4 \in 1 .. capacity
        /\ 5 \in 1 .. capacity /\ 6 \in 1 .. capacity /\ 7 \in 1 .. capacity
        /\ 8 \in 1 .. capacity /\ 9 \in 1 .. capacity
    BY <2>1
  <2> QED BY <1>1, <2>2 DEF capacity
<1>4. ntt = TransferFields(b, 9)
  <2>1. ntt.ok
    BY <1>2, TransferParsed
  <2> QED BY <2>1, TransferParsed
<1>5. c \in Slice /\ c.len = n /\ \A k \in 1 .. n : c.buffer[k] = b.buffer[9 + k]
  BY <1>2, AdditionalCut
<1>6. parsed = [ ok |-> TRUE, amount |-> b.buffer[3], sourceToken |-> b.buffer[4],
                 to |-> <<b.buffer[5], b.buffer[6]>>, toChain |-> b.buffer[7],
                 additional |-> p ]
  <2>1. ntt = [ ok |-> TRUE, amount |-> b.buffer[3], sourceToken |-> b.buffer[4],
                to |-> <<b.buffer[5], b.buffer[6]>>, toChain |-> b.buffer[7],
                additional |-> c ]
    BY <1>4 DEF TransferFields
  <2> HIDE DEF ntt
  <2>2. ntt.additional = c
    BY <2>1
  <2>3. parsed = [ntt EXCEPT !.additional = p]
    BY <2>2
  <2> HIDE DEF c, p, parsed
  <2> QED BY <2>1, <2>3
<1>7. /\ parsed.amount = b.buffer[3] /\ parsed.sourceToken = b.buffer[4]
      /\ parsed.to = <<b.buffer[5], b.buffer[6]>> /\ parsed.toChain = b.buffer[7]
      /\ parsed.additional = p
      /\ parsed.to[1] = b.buffer[5] /\ parsed.to[2] = b.buffer[6]
  BY <1>6
<1> HIDE DEF c, parsed
<1>8. /\ p \in Seq(Byte) /\ Len(p) = n
      /\ \A k \in 1 .. n : p[k] = b.buffer[9 + k]
  <2>1. p \in Seq(Byte) /\ Len(p) = c.len /\ \A k \in 1 .. c.len : p[k] = c.buffer[k]
    BY <1>5, BytesOf
  <2> QED BY <1>5, <2>1
<1>9. x \in Seq(Byte) /\ Len(x) = b.len /\ \A k \in 1 .. b.len : x[k] = b.buffer[k]
  BY BytesOf
<1>10. n \in Nat /\ n # 0 /\ b.len = n + 9
  BY <1>2
<1> HIDE DEF p, x, n
<1>11. /\ e \in Seq(Byte) /\ Len(e) = n + 9
       /\ e[1] = NativeTokenTransferPrefix /\ e[3] = b.buffer[3]
       /\ e[4] = b.buffer[4] /\ e[5] = b.buffer[5] /\ e[6] = b.buffer[6] /\ e[7] = b.buffer[7]
       /\ e[8] = field \div Base /\ e[9] = field % Base
       /\ \A k \in 1 .. n : e[9 + k] = p[k]
  <2> DEFINE f == Len(p) % (Base * Base)
  <2>1. /\ e \in Seq(Byte)
        /\ Len(e) = IF Len(p) = 0 THEN 7 ELSE Len(p) + 9
        /\ e[1] = NativeTokenTransferPrefix /\ e[2] = Decimals /\ e[3] = b.buffer[3]
        /\ e[4] = b.buffer[4] /\ e[5] = b.buffer[5] /\ e[6] = b.buffer[6] /\ e[7] = b.buffer[7]
        /\ Len(p) # 0 => /\ e[8] = f \div Base /\ e[9] = f % Base
                         /\ Len(p) <= 24 => Uint16(e[8], e[9]) = Len(p)
                         /\ \A k \in 1 .. Len(p) : e[9 + k] = p[k]
    <3>1. IsTransfer(parsed)
      BY <1>3, <1>7, <1>8 DEF IsTransfer
    <3> HIDE DEF e, f
    <3>2. /\ e \in Seq(Byte)
          /\ Len(e) = IF Len(parsed.additional) = 0 THEN 7 ELSE Len(parsed.additional) + 9
          /\ e[1] = NativeTokenTransferPrefix /\ e[2] = Decimals /\ e[3] = parsed.amount
          /\ e[4] = parsed.sourceToken /\ e[5] = parsed.to[1] /\ e[6] = parsed.to[2]
          /\ e[7] = parsed.toChain
          /\ Len(parsed.additional) # 0 =>
                /\ e[8] = f \div Base /\ e[9] = f % Base
                /\ Len(parsed.additional) <= 24 => Uint16(e[8], e[9]) = Len(parsed.additional)
                /\ \A k \in 1 .. Len(parsed.additional) : e[9 + k] = parsed.additional[k]
      BY <1>7, <3>1, TransferEncoded DEF e, f
    <3> QED BY <1>7, <3>2
  <2> HIDE DEF e
  <2> QED BY <1>8, <1>10, <2>1
<1>12. e[8] = b.buffer[8] /\ e[9] = b.buffer[9]
  <2>1. field \div Base = b.buffer[8] /\ field % Base = b.buffer[9]
    BY <1>3, Uint16Bytes DEF n
  <2> HIDE DEF e, field
  <2> QED BY <1>11, <2>1
<1> HIDE DEF e, field
<1>13. y \in Seq(Byte) /\ Len(y) = Len(e)
       /\ \A k \in 1 .. Len(e) : y[k] = IF k = 2 THEN x[2] ELSE e[k]
  <2>1. x[2] \in Byte /\ 2 \in 1 .. Len(e)
    <3>1. 2 \in 1 .. n + 9
      BY <1>10
    <3> QED BY <1>3, <1>9, <1>10, <1>11, <3>1
  <2> QED BY <1>11, <2>1, ExceptSeq
<1> HIDE DEF y
<1>14. ASSUME NEW k \in 1 .. n + 9 PROVE y[k] = x[k]
  <2>1. x[k] = b.buffer[k] /\ y[k] = IF k = 2 THEN x[2] ELSE e[k]
    BY <1>9, <1>10, <1>11, <1>13
  <2>2. CASE k <= 9
    <3>1. \/ k = 1 \/ k = 2 \/ k = 3 \/ k = 4 \/ k = 5 \/ k = 6 \/ k = 7 \/ k = 8 \/ k = 9
      BY <2>2
    <3> QED BY <1>11, <1>12, <2>1, <3>1
  <2>3. CASE ~ (k <= 9)
    <3> DEFINE i == k - 9
    <3>1. i \in 1 .. n /\ 9 + i = k /\ k # 2
      BY <1>10, <2>3
    <3> HIDE DEF i
    <3>2. e[9 + i] = p[i] /\ p[i] = b.buffer[9 + i]
      BY <1>8, <1>11, <3>1
    <3> QED BY <2>1, <3>1, <3>2
  <2> QED BY <2>2, <2>3
<1>15. x = y
  <2>1. Len(x) = Len(y) /\ \A k \in 1 .. Len(x) : x[k] = y[k]
    BY <1>9, <1>10, <1>11, <1>13, <1>14
  <2> QED BY <1>9, <1>13, <2>1, SeqEqual
<1> QED BY <1>7, <1>8, <1>15 DEF parsed, e, x, y, n

\* The first byte does not matter to the others.
LEMMA TailOfPrefixed ==
  ASSUME NEW s \in Seq(Byte), NEW byte \in Byte
  PROVE  Tail(<<byte>> \o s) = s
<1> DEFINE one == <<byte>>
           t == one \o s
           n == Len(s)
<1>1. one \in Seq(Byte) /\ Len(one) = 1
  OBVIOUS
<1>2. n \in Nat
  BY BytesAt
<1> HIDE DEF one
<1>3. /\ t \in Seq(Byte) /\ Len(t) = 1 + n
      /\ \A k \in 1 .. 1 + n : t[k] = IF k <= 1 THEN one[k] ELSE s[k - 1]
  <2>1. /\ t \in Seq(Byte) /\ Len(t) = Len(one) + n
        /\ \A k \in 1 .. Len(one) + n : t[k] = IF k <= Len(one) THEN one[k] ELSE s[k - Len(one)]
    BY <1>1, ConcatProperties
  <2> HIDE DEF t, n
  <2> QED BY <1>1, <2>1
<1> HIDE DEF t
<1>4. t # <<>>
  BY <1>2, <1>3
<1>5. /\ Tail(t) \in Seq(Byte) /\ Len(Tail(t)) = Len(t) - 1
      /\ \A k \in 1 .. Len(Tail(t)) : Tail(t)[k] = t[k + 1]
  BY <1>3, <1>4, HeadTailProperties
<1> HIDE DEF n
<1>6. Len(Tail(t)) = n
  BY <1>2, <1>3, <1>5
<1>7. ASSUME NEW k \in 1 .. n PROVE Tail(t)[k] = s[k]
  <2>1. k + 1 \in 1 .. 1 + n /\ ~ (k + 1 <= 1) /\ k + 1 - 1 = k
    BY <1>2
  <2>2. t[k + 1] = s[k]
    BY <1>3, <2>1
  <2> QED BY <1>5, <1>6, <2>2
<1>8. Tail(t) = s
  BY <1>5, <1>6, <1>7, SeqEqual DEF n
<1> QED BY <1>8 DEF t, one

\* What a delivery is decided by is seen in the same way through every slice, but for
\* an index payload that was cut short.
LEMMA HandledSame ==
  ASSUME NEW a, NEW b, SameView(a, b), HandlePayload(a).ok
  PROVE  \/ HandlePayload(a) = HandlePayload(b)
         \/ HandlePayload(a).type = "index" /\ CutIndexPayload(b)
<1>1. /\ a \in Slice /\ b \in Slice /\ a.len = b.len /\ a.len \in Nat
      /\ a.len <= Len(a.buffer) /\ a.len <= Len(b.buffer)
      /\ Len(a.buffer) \in Nat /\ Len(b.buffer) \in Nat
      /\ \A k \in 1 .. a.len : a.buffer[k] = b.buffer[k]
  BY BytesAt DEF SameView, Slice
<1>2. GetPayloadType(a) = GetPayloadType(b) /\ GetPayloadType(a) \in {"unknown", "token", "index"}
  <2>1. a.len >= 1 => a.buffer[1] = b.buffer[1]
    BY <1>1
  <2> QED BY <1>1, <2>1, PayloadType
<1>3. CASE GetPayloadType(a) = "unknown"
  BY <1>2, <1>3 DEF HandlePayload
<1>4. CASE GetPayloadType(a) = "token"
  <2>1. /\ a.len >= 11 /\ a.buffer[1] = NativeTokenTransferPrefix
        /\ a.len - 9 = Uint16(a.buffer[8], a.buffer[9])
        /\ a.buffer[7] = ThisChain /\ a.buffer[11] = RawToken
    <3>1. a.len >= 1 /\ a.buffer[1] = NativeTokenTransferPrefix
      BY <1>1, <1>4, PayloadType
    <3>2. HandlePayload(a) # Failed
      BY DEF Failed
    <3> QED BY <1>1, <3>1, <3>2, TokenHandled
  <2>2. HandlePayload(a) = [ ok |-> TRUE, type |-> "token", recipient |-> a.buffer[6],
                             amount |-> a.buffer[3], index |-> Int64(a.buffer[10]) ]
    BY <1>1, <2>1, TokenHandled
  <2>3. /\ a.buffer[1] = b.buffer[1] /\ a.buffer[3] = b.buffer[3] /\ a.buffer[6] = b.buffer[6]
        /\ a.buffer[7] = b.buffer[7] /\ a.buffer[8] = b.buffer[8] /\ a.buffer[9] = b.buffer[9]
        /\ a.buffer[10] = b.buffer[10] /\ a.buffer[11] = b.buffer[11]
    <3>1. /\ 1 \in 1 .. a.len /\ 3 \in 1 .. a.len /\ 6 \in 1 .. a.len /\ 7 \in 1 .. a.len
          /\ 8 \in 1 .. a.len /\ 9 \in 1 .. a.len /\ 10 \in 1 .. a.len /\ 11 \in 1 .. a.len
      <4> DEFINE n == a.len
      <4>1. n \in Nat /\ n >= 11
        BY <1>1, <2>1
      <4> HIDE DEF n
      <4>2. /\ 1 \in 1 .. n /\ 3 \in 1 .. n /\ 6 \in 1 .. n /\ 7 \in 1 .. n
            /\ 8 \in 1 .. n /\ 9 \in 1 .. n /\ 10 \in 1 .. n /\ 11 \in 1 .. n
        BY <4>1
      <4> QED BY <4>2 DEF n
    <3> QED BY <1>1, <3>1
  <2>4. /\ b.len >= 11 /\ b.buffer[1] = NativeTokenTransferPrefix
        /\ b.len - 9 = Uint16(b.buffer[8], b.buffer[9])
        /\ b.buffer[7] = ThisChain /\ b.buffer[11] = RawToken
    BY <1>1, <2>1, <2>3
  <2>5. HandlePayload(b) = [ ok |-> TRUE, type |-> "token", recipient |-> b.buffer[6],
                             amount |-> b.buffer[3], index |-> Int64(b.buffer[10]) ]
    BY <1>1, <2>4, TokenHandled
  <2> QED BY <2>2, <2>3, <2>5
<1>5. CASE GetPayloadType(a) = "index"
  <2>1. CASE a.len >= 3
    <3>1. ~ (Len(a.buffer) < 3) /\ ~ (Len(b.buffer) < 3)
      BY <1>1, <2>1
    <3>2. a.buffer[2] = b.buffer[2] /\ a.buffer[3] = b.buffer[3]
      BY <1>1, <2>1
    <3>3. DecodeIndexPayload(a) = DecodeIndexPayload(b)
      BY <3>1, <3>2 DEF DecodeIndexPayload
    <3> QED BY <1>2, <1>5, <3>3 DEF HandlePayload
  <2>2. CASE ~ (a.len >= 3)
    <3>1. CutIndexPayload(b)
      BY <1>1, <1>2, <1>5, <2>2 DEF CutIndexPayload
    <3>2. HandlePayload(a).type = "index"
      <4> DEFINE index == DecodeIndexPayload(a)
      <4>1. HandlePayload(a) = IF index.ok /\ index.chain = ThisChain
                               THEN [ok |-> TRUE, type |-> "index", index |-> index.index]
                               ELSE Failed
        BY <1>5 DEF HandlePayload
      <4> HIDE DEF index
      <4> QED BY <4>1 DEF Failed
    <3> QED BY <3>1, <3>2
  <2> QED BY <2>1, <2>2
<1> QED BY <1>2, <1>3, <1>4, <1>5

\* The message id names what was executed, for messages of every length and however
\* often they were altered: the digested bytes are those that arrived, and decide on
\* their own what Deliver does, but for an index payload that was cut short.
THEOREM DigestDecidesOutcomeAlways == NTTSpec => []DigestDecidesOutcome
<1>1. Arrived => DigestDecidesOutcome
  <2> SUFFICES ASSUME Arrived, layer = "delivered", outcome.ok
               PROVE  /\ Digested = Bytes(ReceivedManager)
                      /\ \/ outcome = HandlePayload(PayloadOnItsOwn)
                         \/ outcome.type = "index" /\ CutIndexPayload(PayloadOnItsOwn)
    BY DEF DigestDecidesOutcome
  <2> DEFINE r == ReceivedManager
             m == ParseManagerMessage(r)
             alone == [buffer |-> Digested, len |-> Len(Digested)]
             n == ParseManagerMessage(alone)
  <2>1. r \in Slice /\ m.ok
    BY ReceivedSame
  <2>2. PICK payload : SameView(payload, m.payload) /\ outcome = HandlePayload(payload)
    BY ReceivedSame
  <2>3. Digested = Bytes(r)
    <3>1. EncodeManagerMessage([m EXCEPT !.payload = Bytes(@)]) = Bytes(r)
      BY <2>1, ManagerReencoded
    <3>2. Bytes(r) \in Seq(Byte) /\ 0 \in Byte
      BY <2>1, BytesOf DEF Byte, Base
    <3>3. Digested = Tail(<<0>> \o Bytes(r))
      BY <3>1 DEF Digested, ManagerMessageDigest
    <3> QED BY <3>2, <3>3, TailOfPrefixed
  <2> HIDE DEF r
  <2>4. SameView(r, alone)
    <3> DEFINE s == Bytes(r)
    <3>1. s \in Seq(Byte) /\ Len(s) = r.len /\ \A k \in 1 .. r.len : s[k] = r.buffer[k]
      BY <2>1, BytesOf
    <3>2. alone = [buffer |-> s, len |-> Len(s)]
      BY <2>3
    <3>3. Len(s) \in Nat
      BY <3>1, BytesAt
    <3> HIDE DEF s, alone
    <3>4. alone \in Slice
      BY <3>1, <3>2, <3>3 DEF Slice
    <3> QED BY <2>1, <3>1, <3>2, <3>4 DEF SameView
  <2> HIDE DEF alone
  <2>5. SameView(m.payload, n.payload)
    BY <2>1, <2>4, ManagerSame
  <2> HIDE DEF m, n
  <2>6. SameView(payload, n.payload)
    BY <2>2, <2>5 DEF SameView
  <2>7. \/ outcome = HandlePayload(n.payload)
        \/ outcome.type = "index" /\ CutIndexPayload(n.payload)
    BY <2>2, <2>6, HandledSame
  <2>8. n.payload = PayloadOnItsOwn
    BY DEF n, alone, PayloadOnItsOwn
  <2> QED BY <2>3, <2>7, <2>8 DEF r
<1> QED BY <1>1, ArrivedInvariance, PTL

\* What is issued $USDN for is seen in the same way through every slice.
LEMMA TokenSame ==
  ASSUME NEW a, NEW b, SameView(a, b), HandlePayload(a).ok, HandlePayload(a).type = "token"
  PROVE  /\ b \in Slice /\ b.len >= 11 /\ b.buffer[1] = NativeTokenTransferPrefix
         /\ b.len - 9 = Uint16(b.buffer[8], b.buffer[9]) /\ b.buffer[11] = RawToken
         /\ HandlePayload(a).amount = b.buffer[3] /\ HandlePayload(a).recipient = b.buffer[6]
         /\ HandlePayload(a).index = Int64(b.buffer[10]) /\ b.buffer[10] \in Byte
<1> DEFINE h == HandlePayload(a)
<1>1. /\ a \in Slice /\ b \in Slice /\ a.len = b.len /\ a.len \in Nat
      /\ \A k \in 1 .. a.len : a.buffer[k] = b.buffer[k]
  BY DEF SameView, Slice
<1>2. /\ a.len >= 11 /\ a.buffer[1] = NativeTokenTransferPrefix
      /\ a.len - 9 = Uint16(a.buffer[8], a.buffer[9])
      /\ a.buffer[7] = ThisChain /\ a.buffer[11] = RawToken
  BY <1>1, TokenHandled
<1>3. h = [ ok |-> TRUE, type |-> "token", recipient |-> a.buffer[6],
            amount |-> a.buffer[3], index |-> Int64(a.buffer[10]) ]
  BY <1>1, <1>2, TokenHandled
<1> HIDE DEF h
<1>4. /\ a.buffer[1] = b.buffer[1] /\ a.buffer[3] = b.buffer[3] /\ a.buffer[6] = b.buffer[6]
      /\ a.buffer[8] = b.buffer[8] /\ a.buffer[9] = b.buffer[9]
      /\ a.buffer[10] = b.buffer[10] /\ a.buffer[11] = b.buffer[11]
  BY <1>1, <1>2
<1>5. b.buffer[10] \in Byte
  <2>1. /\ b.len <= Len(b.buffer) /\ Len(b.buffer) \in Nat
        /\ \A k \in 1 .. Len(b.buffer) : b.buffer[k] \in Byte
    BY <1>1, BytesAt DEF Slice
  <2> QED BY <1>1, <1>2, <2>1
<1> QED BY <1>1, <1>2, <1>3, <1>4, <1>5 DEF h

\* $USDN is issued only for a payload that is, but for its decimals, what the encoder
\* makes of the amount, recipient and index, although no parser of the additional
\* payload reports what it misses.
THEOREM TokensWellFormedAlways == NTTSpec => []TokensWellFormed
<1>1. Arrived => TokensWellFormed
  <2> SUFFICES ASSUME Arrived, layer = "delivered", outcome.ok, outcome.type = "token"
               PROVE  LET payload == ParseManagerMessage(ReceivedManager).payload
                          ntt     == ParseNativeTokenTransfer(payload)
                          parsed  == [ntt EXCEPT !.additional = Bytes(@)]
                      IN  /\ Bytes(payload) = [EncodeNativeTokenTransfer(parsed)
                                                 EXCEPT ![2] = Bytes(payload)[2]]
                          /\ IsPrefix(EncodeAdditionalPayload(outcome.index, RawToken),
                                      parsed.additional)
                          /\ outcome.amount = parsed.amount
                          /\ outcome.recipient = parsed.to[2]
    BY DEF TokensWellFormed
  <2> DEFINE b == ParseManagerMessage(ReceivedManager).payload
             ntt == ParseNativeTokenTransfer(b)
             parsed == [ntt EXCEPT !.additional = Bytes(@)]
  <2>1. PICK a : SameView(a, b) /\ outcome = HandlePayload(a)
    BY ReceivedSame
  <2> HIDE DEF b
  <2>2. /\ b \in Slice /\ b.len >= 11 /\ b.buffer[1] = NativeTokenTransferPrefix
        /\ b.len - 9 = Uint16(b.buffer[8], b.buffer[9]) /\ b.buffer[11] = RawToken
        /\ outcome.amount = b.buffer[3] /\ outcome.recipient = b.buffer[6]
        /\ outcome.index = Int64(b.buffer[10]) /\ b.buffer[10] \in Byte
    BY <2>1, TokenSame
  <2>3. /\ Bytes(b) = [EncodeNativeTokenTransfer(parsed) EXCEPT ![2] = Bytes(b)[2]]
        /\ parsed.amount = b.buffer[3] /\ parsed.to[2] = b.buffer[6]
        /\ parsed.additional \in Seq(Byte) /\ Len(parsed.additional) = b.len - 9
        /\ \A k \in 1 .. b.len - 9 : parsed.additional[k] = b.buffer[9 + k]
    BY <2>2, TransferReencoded
  <2>4. IsPrefix(EncodeAdditionalPayload(outcome.index, RawToken), parsed.additional)
    <3> DEFINE byte == b.buffer[10]
               s == <<byte, RawToken>>
               t == parsed.additional
               n == b.len - 9
               u == SubSeq(s, 1, 2)
               v == SubSeq(t, 1, 2)
    <3>1. Uint64(Int64(byte)) = byte
      <4>1. byte \in 0 .. 4
        BY <2>2 DEF Byte, Base
      <4> HIDE DEF byte
      <4> QED BY <4>1 DEF Uint64, Int64, Base
    <3>2. EncodeAdditionalPayload(outcome.index, RawToken) = s
      BY <2>2, <3>1 DEF EncodeAdditionalPayload
    <3>3. n \in Nat /\ n >= 2 /\ RawToken \in Byte /\ byte \in Byte
      BY <2>2 DEF Slice, RawToken, Byte, Base
    <3>4. t \in Seq(Byte) /\ Len(t) = n /\ t[1] = byte /\ t[2] = RawToken
      <4>1. t \in Seq(Byte) /\ Len(t) = n /\ \A k \in 1 .. n : t[k] = b.buffer[9 + k]
        BY <2>3
      <4> HIDE DEF t, n
      <4>2. 1 \in 1 .. n /\ 2 \in 1 .. n
        BY <3>3
      <4>3. t[1] = b.buffer[10] /\ t[2] = b.buffer[11]
        BY <4>1, <4>2
      <4> QED BY <2>2, <4>1, <4>3
    <3>5. Len(s) = 2 /\ s[1] = byte /\ s[2] = RawToken
      OBVIOUS
    <3> HIDE DEF s, t, n, byte
    <3>6. /\ u \in Seq(Byte) /\ Len(u) = IF 1 <= 2 THEN 2 - 1 + 1 ELSE 0
          /\ \A i \in 1 .. 2 - 1 + 1 : u[i] = s[1 + i - 1]
      <4>1. 1 \in Int /\ 2 \in Int /\ \A i \in 1 .. 2 : s[i] \in Byte
        BY <3>3, <3>5
      <4> QED BY <4>1, SubSeqProperties
    <3>7. /\ v \in Seq(Byte) /\ Len(v) = IF 1 <= 2 THEN 2 - 1 + 1 ELSE 0
          /\ \A i \in 1 .. 2 - 1 + 1 : v[i] = t[1 + i - 1]
      <4>1. 1 \in Int /\ 2 \in Int /\ \A i \in 1 .. 2 : t[i] \in Byte
        BY <3>3, <3>4
      <4> QED BY <4>1, SubSeqProperties
    <3> HIDE DEF u, v
    <3>8. u[1] = v[1] /\ u[2] = v[2] /\ Len(u) = 2 /\ Len(v) = 2
      BY <3>4, <3>5, <3>6, <3>7
    <3>9. \A i \in 1 .. 2 : u[i] = v[i]
      BY <3>8
    <3>10. u = v
      BY <3>6, <3>7, <3>8, <3>9, SeqEqual
    <3>11. IsPrefix(s, t)
      BY <3>3, <3>4, <3>5, <3>10 DEF IsPrefix, u, v
    <3> QED BY <3>2, <3>11 DEF t
  <2> QED BY <2>2, <2>3, <2>4 DEF b
<1> QED BY <1>1, ArrivedInvariance, PTL


-----------------------------------------------------------------------------
(* Messages that nobody alters. *)

\* The bytes of a message are seen through a slice.
Shown(slice, msg) ==
    /\ slice \in Slice /\ slice.len = Len(msg)
    /\ \A k \in 1 .. Len(msg) : slice.buffer[k] = msg[k]

InManager(payload) == EncodeManagerMessage([id |-> 0, sender |-> 1, payload |-> payload])

InTransceiver(manager) ==
    EncodeTransceiverMessage([ source |-> Peer, recipient |-> PaddedManagerAddress,
                               manager |-> manager, transceiver |-> <<>> ])

\* The manager message that was put into a transceiver message is taken out of it.
LEMMA ManagerUnwrapped ==
  ASSUME NEW m \in Seq(Byte), Len(m) <= 24, NEW room \in Nat
  PROVE  LET t == ParseTransceiverMessage(Padded(InTransceiver(m), room))
         IN  /\ t.ok /\ t.source = Peer /\ t.recipient = PaddedManagerAddress
             /\ Shown(t.manager, m)
<1> DEFINE e == InTransceiver(m)
           n == Len(m)
           a == Padded(e, room)
           t == ParseTransceiverMessage(a)
           capacity == Len(a.buffer)
           c == Cut(a, 5, n)
<1>1. /\ e \in Seq(Byte) /\ Len(e) = n + 7
      /\ e[1] = TransceiverMessagePrefix /\ e[2] = Peer /\ e[3] = PaddedManagerAddress
      /\ Uint16(e[4], e[5]) = n
      /\ \A k \in 1 .. n : e[5 + k] = m[k]
      /\ Uint16(e[n + 6], e[n + 7]) = 0
  <2>1. Peer \in Byte /\ PaddedManagerAddress \in Byte
    BY DEF Peer, PaddedManagerAddress, Byte, Base
  <2> QED BY <2>1, TransceiverEncoded DEF InTransceiver
<1>2. n \in Nat
  BY BytesAt
<1> HIDE DEF e, n
<1>3. /\ a \in Slice /\ capacity = Len(e) + room
      /\ \A k \in 1 .. Len(e) + room : a.buffer[k] = ByteAt(e, k)
  BY <1>1, PaddedView
<1> HIDE DEF a, capacity
<1>4. capacity = n + 7 + room
  BY <1>1, <1>3
<1>5. \A k \in 1 .. n + 7 : a.buffer[k] = e[k]
  <2>1. \A k \in 1 .. n + 7 : k \in 1 .. Len(e) + room /\ k <= Len(e)
    BY <1>1, <1>2
  <2> QED BY <1>3, <2>1 DEF ByteAt
<1>6. /\ a.buffer[1] = e[1] /\ a.buffer[2] = e[2] /\ a.buffer[3] = e[3]
      /\ a.buffer[4] = e[4] /\ a.buffer[5] = e[5]
      /\ a.buffer[n + 6] = e[n + 6] /\ a.buffer[n + 7] = e[n + 7]
  <2>1. /\ 1 \in 1 .. n + 7 /\ 2 \in 1 .. n + 7 /\ 3 \in 1 .. n + 7
        /\ 4 \in 1 .. n + 7 /\ 5 \in 1 .. n + 7
        /\ n + 6 \in 1 .. n + 7 /\ n + 7 \in 1 .. n + 7
    BY <1>2
  <2> QED BY <1>5, <2>1
<1>7. /\ Uint16(a.buffer[4], a.buffer[5]) = n
      /\ Uint16(a.buffer[n + 6], a.buffer[n + 7]) = 0
  BY <1>1, <1>6
<1>8. /\ t.ok <=> /\ capacity >= 5
                  /\ a.buffer[1] = TransceiverMessagePrefix
                  /\ capacity >= n + 7
                  /\ capacity >= n + 7 + 0
      /\ t.ok => /\ t.source = a.buffer[2] /\ t.recipient = a.buffer[3]
                 /\ t.manager = c
  <2> DEFINE M == Uint16(a.buffer[4], a.buffer[5])
             X == Uint16(a.buffer[M + 6], a.buffer[M + 7])
  <2>1. /\ t.ok <=> /\ Len(a.buffer) >= 5
                    /\ a.buffer[1] = TransceiverMessagePrefix
                    /\ Len(a.buffer) >= M + 7
                    /\ Len(a.buffer) >= M + 7 + X
        /\ t.ok => /\ t.source = a.buffer[2] /\ t.recipient = a.buffer[3]
                   /\ t.manager = Cut(a, 5, M)
    BY <1>3, TransceiverParsed
  <2>2. M = n /\ X = 0
    BY <1>7
  <2> HIDE DEF M, X, t
  <2> QED BY <2>1, <2>2 DEF capacity
<1> HIDE DEF t
<1>9. capacity >= 5 /\ capacity >= n + 7 /\ capacity >= n + 7 + 0 /\ 5 + n <= capacity
  BY <1>2, <1>4
<1>10. /\ t.ok /\ t.source = Peer /\ t.recipient = PaddedManagerAddress /\ t.manager = c
  BY <1>1, <1>6, <1>8, <1>9
<1>11. /\ c \in Slice /\ c.len = n
       /\ \A k \in 1 .. capacity - 5 : c.buffer[k] = a.buffer[k + 5]
  <2>1. 5 \in Nat /\ n \in Nat /\ a \in Slice /\ 5 + n <= Len(a.buffer)
    BY <1>2, <1>3, <1>9 DEF capacity
  <2>2. /\ c \in Slice /\ c.len = n
        /\ Len(c.buffer) = Len(a.buffer) - 5
        /\ \A k \in 1 .. Len(a.buffer) - 5 : c.buffer[k] = a.buffer[k + 5]
    BY <2>1, CutEffect, ZenonT(60)
  <2> QED BY <2>2 DEF capacity
<1> HIDE DEF c
<1>12. ASSUME NEW k \in 1 .. n PROVE c.buffer[k] = m[k]
  <2>1. k \in 1 .. capacity - 5 /\ k + 5 \in 1 .. n + 7 /\ k + 5 = 5 + k
    BY <1>2, <1>4
  <2>2. c.buffer[k] = a.buffer[k + 5] /\ a.buffer[k + 5] = e[k + 5] /\ e[5 + k] = m[k]
    BY <1>1, <1>5, <1>11, <2>1
  <2> QED BY <2>1, <2>2
<1> QED BY <1>10, <1>11, <1>12 DEF Shown, t, a, e, n

\* The payload that was put into a manager message is taken out of it.
LEMMA PayloadUnwrapped ==
  ASSUME NEW p \in Seq(Byte), Len(p) <= 20, NEW c, Shown(c, InManager(p))
  PROVE  LET m == ParseManagerMessage(c) IN m.ok /\ Shown(m.payload, p)
<1> DEFINE e == InManager(p)
           n == Len(p)
           m == ParseManagerMessage(c)
           d == Cut(c, 4, n)
<1>1. n \in Nat
  BY BytesAt
<1>2. /\ e \in Seq(Byte) /\ Len(e) = 4 + n /\ Uint16(e[3], e[4]) = n
      /\ \A k \in 1 .. n : e[4 + k] = p[k]
  <2>1. 0 \in Byte /\ 1 \in Byte
    BY DEF Byte, Base
  <2>2. n <= 24
    BY <1>1
  <2> QED BY <2>1, <2>2, ManagerEncoded DEF InManager
<1> HIDE DEF e
<1>3. c \in Slice /\ c.len = 4 + n /\ \A k \in 1 .. 4 + n : c.buffer[k] = e[k]
  BY <1>2 DEF Shown, e
<1> HIDE DEF n
<1>4. 3 \in 1 .. 4 + n /\ 4 \in 1 .. 4 + n /\ 4 + n >= 4 /\ 4 + n - 4 = n
  BY <1>1
<1>5. c.len >= 4 /\ c.len - 4 = Uint16(c.buffer[3], c.buffer[4]) /\ c.len - 4 = n
  <2>1. c.len = 4 + n
    BY <1>3
  <2>2. c.len >= 4 /\ c.len - 4 = n
    <3> DEFINE len == c.len
    <3>1. len = 4 + n
      BY <2>1
    <3> HIDE DEF len
    <3>2. len >= 4 /\ len - 4 = n
      BY <1>1, <3>1
    <3> QED BY <3>2 DEF len
  <2>3. c.buffer[3] = e[3] /\ c.buffer[4] = e[4]
    BY <1>3, <1>4
  <2> QED BY <1>2, <2>2, <2>3
<1>6. m.ok /\ m.payload = d
  BY <1>3, <1>5, ManagerParsed
<1>7. /\ d \in Slice /\ d.len = n
      /\ \A k \in 1 .. Len(c.buffer) - 4 : d.buffer[k] = c.buffer[k + 4]
      /\ Len(c.buffer) \in Nat /\ 4 + n <= Len(c.buffer)
  <2>1. 4 \in Nat /\ Len(c.buffer) \in Nat /\ 4 + n <= Len(c.buffer)
    BY <1>3, BytesAt DEF Slice
  <2> QED BY <1>1, <1>3, <2>1, CutEffect
<1> HIDE DEF d
<1>8. ASSUME NEW k \in 1 .. n PROVE d.buffer[k] = p[k]
  <2>1. k \in 1 .. Len(c.buffer) - 4 /\ k + 4 \in 1 .. 4 + n /\ k + 4 = 4 + k
    BY <1>1, <1>7
  <2>2. d.buffer[k] = c.buffer[k + 4] /\ c.buffer[k + 4] = e[k + 4] /\ e[4 + k] = p[k]
    BY <1>2, <1>3, <1>7, <2>1
  <2> QED BY <2>1, <2>2
<1> QED BY <1>6, <1>7, <1>8 DEF Shown, n

\* What was wrapped twice is handled as it was.
LEMMA RoundTrip ==
  ASSUME NEW p \in Seq(Byte), Len(p) <= 20, NEW room \in Nat
  PROVE  \E payload : /\ Shown(payload, p)
                      /\ Delivered(Padded(InTransceiver(InManager(p)), room))
                           = HandlePayload(payload)
<1> DEFINE e == InManager(p)
           a == Padded(InTransceiver(e), room)
           t == ParseTransceiverMessage(a)
           m == ParseManagerMessage(t.manager)
<1>1. e \in Seq(Byte) /\ Len(e) <= 24
  <2>1. 0 \in Byte /\ 1 \in Byte /\ Len(p) \in Nat
    BY BytesAt DEF Byte, Base
  <2>2. e \in Seq(Byte) /\ Len(e) = 4 + Len(p)
    BY <2>1, ManagerEncoded DEF InManager
  <2> HIDE DEF e
  <2> QED BY <2>1, <2>2
<1> HIDE DEF e
<1>2. t.ok /\ t.source = Peer /\ t.recipient = PaddedManagerAddress /\ Shown(t.manager, e)
  BY <1>1, ManagerUnwrapped
<1> HIDE DEF t
<1>3. m.ok /\ Shown(m.payload, p)
  BY <1>2, PayloadUnwrapped DEF e
<1>4. Delivered(a) = HandlePayload(m.payload)
  BY <1>2, <1>3 DEF Delivered, t
<1> QED BY <1>3, <1>4 DEF e


\* What a delivery makes of a message that arrives as it was meant.
Meant(meaning) ==
    CASE meaning.type = "index" -> [ok |-> TRUE, type |-> "index", index |-> meaning.index]
      [] meaning.type = "token" /\ Len(meaning.additional) >= 2 ->
             [ ok |-> TRUE, type |-> "token", recipient |-> meaning.to[2],
               amount |-> meaning.amount, index |-> meaning.additional[1] ]
      [] OTHER -> Failed

\* The transfers that are sent.
LEMMA TransferSent ==
  ASSUME NEW additional \in Seq(Byte)
  PROVE  LET ntt == Transfer(additional)
             n == Len(additional)
         IN  /\ IsTransfer(ntt)
             /\ Len(EncodeNativeTokenTransfer(ntt)) = IF n = 0 THEN 7 ELSE n + 9
<1> DEFINE ntt == Transfer(additional)
<1>1. /\ ntt.amount = 1 /\ ntt.sourceToken = RawToken /\ ntt.to = <<0, 2>>
      /\ ntt.to[1] = 0 /\ ntt.to[2] = 2 /\ ntt.toChain = ThisChain
      /\ ntt.additional = additional
  BY DEF Transfer
<1>2. IsTransfer(ntt)
  <2>1. /\ 0 \in Byte /\ 1 \in Byte /\ 2 \in Byte /\ RawToken \in Byte /\ ThisChain \in Byte
    BY DEF Byte, Base, RawToken, ThisChain
  <2> HIDE DEF ntt
  <2> QED BY <1>1, <2>1 DEF IsTransfer
<1> HIDE DEF ntt
<1> QED BY <1>1, <1>2, TransferEncoded DEF ntt

\* A transfer with up to eleven bytes of additional payload.
LEMMA TransferHandled ==
  ASSUME NEW additional \in Seq(Byte), Len(additional) <= 11,
         NEW payload, Shown(payload, EncodeNativeTokenTransfer(Transfer(additional)))
  PROVE  /\ Len(additional) >= 2 /\ additional[1] = 1 /\ additional[2] = RawToken
              => HandlePayload(payload) = Meant(Transfer(additional))
         /\ Len(additional) < 2 => HandlePayload(payload) = Meant(Transfer(additional))
<1> DEFINE ntt == Transfer(additional)
           n == Len(additional)
           e == EncodeNativeTokenTransfer(ntt)
           a == payload
           h == HandlePayload(a)
           Issued == /\ a.len >= 11 /\ a.buffer[1] = NativeTokenTransferPrefix
                     /\ a.len - 9 = Uint16(a.buffer[8], a.buffer[9])
                     /\ a.buffer[7] = ThisChain /\ a.buffer[11] = RawToken
<1>1. /\ ntt.type = "token" /\ ntt.amount = 1 /\ ntt.sourceToken = RawToken
      /\ ntt.to = <<0, 2>> /\ ntt.to[1] = 0 /\ ntt.to[2] = 2 /\ ntt.toChain = ThisChain
      /\ ntt.additional = additional
  BY DEF Transfer
<1>2. IsTransfer(ntt)
  BY TransferSent
<1> HIDE DEF ntt
<1>3. n \in Nat
  BY BytesAt
<1>4. /\ Len(e) = IF n = 0 THEN 7 ELSE n + 9
      /\ e[1] = NativeTokenTransferPrefix /\ e[3] = 1 /\ e[6] = 2 /\ e[7] = ThisChain
      /\ n # 0 => /\ Uint16(e[8], e[9]) = n
                  /\ \A k \in 1 .. n : e[9 + k] = additional[k]
  <2> DEFINE x == ntt.additional
             f == Len(x) % (Base * Base)
  <2>1. /\ e \in Seq(Byte)
        /\ Len(e) = IF Len(x) = 0 THEN 7 ELSE Len(x) + 9
        /\ e[1] = NativeTokenTransferPrefix /\ e[2] = Decimals /\ e[3] = ntt.amount
        /\ e[4] = ntt.sourceToken /\ e[5] = ntt.to[1] /\ e[6] = ntt.to[2]
        /\ e[7] = ntt.toChain
        /\ Len(x) # 0 => /\ e[8] = f \div Base /\ e[9] = f % Base
                         /\ Len(x) <= 24 => Uint16(e[8], e[9]) = Len(x)
                         /\ \A k \in 1 .. Len(x) : e[9 + k] = x[k]
    BY <1>2, TransferEncoded
  <2>2. x = additional
    BY <1>1
  <2> HIDE DEF e, f, x
  <2>3. n <= 24
    BY <1>3
  <2> QED BY <1>1, <2>1, <2>2, <2>3
<1>5. a \in Slice /\ a.len = Len(e) /\ \A k \in 1 .. Len(e) : a.buffer[k] = e[k]
  BY DEF Shown, ntt
<1> HIDE DEF e
<1>6. Len(e) <= 20 /\ Len(e) >= 7 /\ Len(e) \in Nat
  BY <1>3, <1>4
<1>7. a.buffer[1] = e[1] /\ a.buffer[3] = e[3] /\ a.buffer[6] = e[6] /\ a.buffer[7] = e[7]
  BY <1>5, <1>6
<1>8. /\ Issued => h = [ ok |-> TRUE, type |-> "token", recipient |-> a.buffer[6],
                         amount |-> a.buffer[3], index |-> Int64(a.buffer[10]) ]
      /\ a.len >= 1 /\ a.buffer[1] = NativeTokenTransferPrefix /\ ~Issued => h = Failed
  BY <1>5, TokenHandled
<1> HIDE DEF h
<1>9. ASSUME n >= 2, additional[1] = 1, additional[2] = RawToken
      PROVE  h = Meant(ntt)
  <2>1. Len(e) = n + 9 /\ Uint16(e[8], e[9]) = n /\ \A k \in 1 .. n : e[9 + k] = additional[k]
    BY <1>3, <1>4, <1>9
  <2>2. e[10] = additional[1] /\ e[11] = additional[2]
    <3>1. 1 \in 1 .. n /\ 2 \in 1 .. n /\ 9 + 1 = 10 /\ 9 + 2 = 11
      BY <1>3, <1>9
    <3> QED BY <2>1, <3>1
  <2>3. a.buffer[8] = e[8] /\ a.buffer[9] = e[9] /\ a.buffer[10] = e[10] /\ a.buffer[11] = e[11]
    <3>1. /\ 8 \in 1 .. n + 9 /\ 9 \in 1 .. n + 9 /\ 10 \in 1 .. n + 9 /\ 11 \in 1 .. n + 9
      BY <1>3, <1>9
    <3> QED BY <1>5, <2>1, <3>1
  <2>4. Issued
    <3>1. a.len = n + 9 /\ n + 9 >= 11 /\ n + 9 - 9 = n
      BY <1>3, <1>5, <1>9, <2>1
    <3>2. a.len >= 11 /\ a.len - 9 = Uint16(a.buffer[8], a.buffer[9])
      BY <2>1, <2>3, <3>1
    <3> QED BY <1>4, <1>7, <1>9, <2>2, <2>3, <3>2
  <2>5. Int64(a.buffer[10]) = 1
    BY <1>9, <2>2, <2>3 DEF Int64, Base
  <2>6. h = [ok |-> TRUE, type |-> "token", recipient |-> 2, amount |-> 1, index |-> 1]
    BY <1>4, <1>7, <1>8, <2>4, <2>5
  <2>7. Meant(ntt) = [ok |-> TRUE, type |-> "token", recipient |-> 2, amount |-> 1, index |-> 1]
    BY <1>1, <1>9 DEF Meant
  <2> QED BY <2>6, <2>7
<1>10. ASSUME n < 2 PROVE h = Meant(ntt)
  <2>1. a.len < 11 /\ a.len >= 1 /\ a.len \in Nat
    BY <1>3, <1>4, <1>5, <1>6, <1>10
  <2>2. ~Issued
    BY <2>1
  <2>3. h = Failed
    BY <1>4, <1>7, <1>8, <2>1, <2>2
  <2>4. Meant(ntt) = Failed
    <3>1. ~ (n >= 2)
      BY <1>3, <1>10
    <3>2. ntt.type # "index" /\ ~ (ntt.type = "token" /\ Len(ntt.additional) >= 2)
      BY <1>1, <3>1
    <3> QED BY <3>2 DEF Meant
  <2> QED BY <2>3, <2>4
<1> QED BY <1>9, <1>10 DEF h, e, ntt

\* An index update.
LEMMA IndexHandled ==
  ASSUME NEW payload, Shown(payload, EncodeIndexPayload(1, ThisChain))
  PROVE  /\ Len(EncodeIndexPayload(1, ThisChain)) <= 20
         /\ HandlePayload(payload) = [ok |-> TRUE, type |-> "index", index |-> 1]
<1> DEFINE a == payload
           e == EncodeIndexPayload(1, ThisChain)
           d == DecodeIndexPayload(a)
           h == HandlePayload(a)
<1>1. Len(e) = 3 /\ e[1] = M0IT /\ e[2] = 1 /\ e[3] = ThisChain
  BY DEF EncodeIndexPayload, Uint64, Base
<1> HIDE DEF e
<1>2. a \in Slice /\ a.len = 3 /\ a.buffer[1] = M0IT /\ a.buffer[2] = 1 /\ a.buffer[3] = ThisChain
  BY <1>1 DEF Shown, e
<1>3. Len(a.buffer) \in Nat /\ Len(a.buffer) >= 3
  BY <1>2, BytesAt DEF Slice
<1>4. GetPayloadType(a) = "index"
  <2>1. a.len >= 1
    BY <1>2
  <2> QED BY <1>2, <2>1, PayloadType
<1>5. d = [ok |-> TRUE, index |-> Int64(a.buffer[2]), chain |-> a.buffer[3]]
  BY <1>3 DEF DecodeIndexPayload
<1>6. Int64(1) = 1
  BY DEF Int64, Base
<1>7. d.ok /\ d.index = 1 /\ d.chain = ThisChain
  BY <1>2, <1>5, <1>6
<1> HIDE DEF d
<1>8. h = [ok |-> TRUE, type |-> "index", index |-> 1]
  BY <1>4, <1>7 DEF HandlePayload, d
<1>9. Len(e) <= 20
  BY <1>1
<1> QED BY <1>8, <1>9 DEF e


\* Each meaning is handled as it was meant.
LEMMA MeaningHandled ==
  ASSUME NEW meaning \in Meanings, NEW room \in Nat
  PROVE  Delivered(Padded(InTransceiver(InManager(Encoded(meaning))), room)) = Meant(meaning)
<1> DEFINE p == Encoded(meaning)
           a == Padded(InTransceiver(InManager(p)), room)
<1>1. p \in Seq(Byte)
  BY MeaningsEncoded
<1>2. Len(p) <= 20 /\ \A payload : Shown(payload, p) => HandlePayload(payload) = Meant(meaning)
  <2>1. ASSUME meaning = [type |-> "index", index |-> 1],
               p = EncodeIndexPayload(1, ThisChain)
        PROVE  /\ Len(p) <= 20
               /\ \A payload : Shown(payload, p) => HandlePayload(payload) = Meant(meaning)
    <3>1. Meant(meaning) = [ok |-> TRUE, type |-> "index", index |-> 1]
      BY <2>1 DEF Meant
    <3>2. Len(EncodeIndexPayload(1, ThisChain)) <= 20
      BY DEF EncodeIndexPayload
    <3>3. ASSUME NEW payload, Shown(payload, EncodeIndexPayload(1, ThisChain))
          PROVE  HandlePayload(payload) = [ok |-> TRUE, type |-> "index", index |-> 1]
      BY <3>3, IndexHandled
    <3> HIDE DEF p
    <3> QED BY <2>1, <3>1, <3>2, <3>3
  <2>2. ASSUME NEW additional \in Seq(Byte),
               additional \in Additionals,
               meaning = Transfer(additional),
               p = EncodeNativeTokenTransfer(Transfer(additional))
        PROVE  /\ Len(p) <= 20
               /\ \A payload : Shown(payload, p) => HandlePayload(payload) = Meant(meaning)
    <3>1. \/ Len(additional) < 2
          \/ Len(additional) >= 2 /\ additional[1] = 1 /\ additional[2] = RawToken
      <4>1. CASE additional = <<1, 1>>
        BY <4>1 DEF RawToken
      <4>2. CASE additional = <<1, 1, 4>>
        BY <4>2 DEF RawToken
      <4>3. CASE additional = <<1>>
        BY <4>3
      <4>4. CASE additional = <<>>
        BY <4>4
      <4> QED BY <2>2, <4>1, <4>2, <4>3, <4>4 DEF Additionals
    <3>2. Len(additional) <= 11
      <4>1. CASE additional = <<1, 1>>
        BY <4>1
      <4>2. CASE additional = <<1, 1, 4>>
        BY <4>2
      <4>3. CASE additional = <<1>>
        BY <4>3
      <4>4. CASE additional = <<>>
        BY <4>4
      <4> QED BY <2>2, <4>1, <4>2, <4>3, <4>4 DEF Additionals
    <3> DEFINE e == EncodeNativeTokenTransfer(Transfer(additional))
    <3>3. ASSUME NEW payload, Shown(payload, e)
          PROVE  HandlePayload(payload) = Meant(Transfer(additional))
      BY <3>1, <3>2, <3>3, TransferHandled
    <3>4. Len(e) <= 20
      <4>1. Len(e) = IF Len(additional) = 0 THEN 7 ELSE Len(additional) + 9
        BY TransferSent
      <4>2. Len(additional) \in Nat
        BY BytesAt
      <4> HIDE DEF e
      <4> QED BY <3>2, <4>1, <4>2
    <3> HIDE DEF p, e
    <3> QED BY <2>2, <3>3, <3>4 DEF e
  <2> QED BY <2>1, <2>2, MeaningsEncoded
<1> HIDE DEF p
<1>3. PICK payload : /\ Shown(payload, p)
                     /\ Delivered(a) = HandlePayload(payload)
  BY <1>1, <1>2, RoundTrip
<1> QED BY <1>2, <1>3 DEF p

\* How far a message that nobody altered has come.
Unaltered ==
    /\ meant \in Meanings /\ altered \in Nat
    /\ layer \in {"payload", "manager", "transceiver", "delivered"}
    /\ altered = 0 =>
          /\ layer = "payload" => bz = Encoded(meant)
          /\ layer = "manager" => bz = InManager(Encoded(meant))
          /\ layer \in {"transceiver", "delivered"} =>
                bz = InTransceiver(InManager(Encoded(meant)))

LEMMA UnalteredInvariance == NTTSpec => []Unaltered
<1>1. NTTInit => Unaltered
  BY DEF NTTInit, Unaltered
<1>2. Unaltered /\ [NTTNext]_wireVars => Unaltered'
  <2> SUFFICES ASSUME Unaltered, [NTTNext]_wireVars PROVE Unaltered'
    OBVIOUS
  <2>1. CASE Alter
    <3>1. altered' = altered + 1 /\ meant' = meant /\ layer' = layer
      BY <2>1 DEF Alter
    <3>2. altered' \in Nat /\ altered' # 0
      BY <3>1 DEF Unaltered
    <3> QED BY <3>1, <3>2 DEF Unaltered
  <2>2. CASE WrapInManagerMessage
    BY <2>2 DEF WrapInManagerMessage, Unaltered, InManager
  <2>3. CASE WrapInTransceiverMessage
    BY <2>3 DEF WrapInTransceiverMessage, Unaltered, InTransceiver
  <2>4. CASE \E spare \in Spare : Deliver(spare)
    BY <2>4 DEF Deliver, Unaltered
  <2>5. CASE UNCHANGED wireVars
    BY <2>5 DEF wireVars, Unaltered
  <2> QED BY <2>1, <2>2, <2>3, <2>4, <2>5 DEF NTTNext
<1> QED BY <1>1, <1>2, PTL DEF NTTSpec

\* A message that nobody alters is delivered as it was meant, wherever its buffer ends.
THEOREM DeliveredAsMeantAlways == NTTSpec => []DeliveredAsMeant
<1>1. Arrived /\ Unaltered => DeliveredAsMeant
  <2> SUFFICES ASSUME Arrived, Unaltered, layer = "delivered", altered = 0
               PROVE  outcome = Meant(meant)
    BY DEF DeliveredAsMeant, Meant
  <2>1. bz = InTransceiver(InManager(Encoded(meant))) /\ meant \in Meanings
    BY DEF Unaltered
  <2> PICK room \in Nat : outcome = Delivered(Padded(bz, room))
    BY DEF Arrived
  <2> QED BY <2>1, MeaningHandled
<1> QED BY <1>1, ArrivedInvariance, UnalteredInvariance, PTL

=============================================================================
