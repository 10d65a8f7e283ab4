------------------------ MODULE TcpdumpBuffersProofs ------------------------
(***************************************************************************)
(* The link traces lose nothing, for buffers of any size and packets of any *)
(* length, although packets and the reader come between the statements of   *)
(* hopclock's rotation, until a packet spoils one: what the reader gets is  *)
(* what was recorded, every byte once and in order.  Nothing is ever        *)
(* written beyond a buffer, and every packet without a record is counted.   *)
(***************************************************************************)
EXTENDS TcpdumpBuffers, FiniteSetTheorems, SequenceTheorems, TLAPS

Byte == Nat \X Nat
Block == [1..BufSize -> Byte]

\* The rotation of hopclock after one, two, three and four statements.
Left1 == <<"hold", "hold_len", "store", "store_len">>
Left2 == <<"hold_len", "store", "store_len">>
Left3 == <<"store", "store_len">>
Left4 == <<"store_len">>

\* What is left to read of the hold buffer, and what is in the store buffer.
HoldData == SubSeq(buf[holdbuf], reader.pos + 1, holdbuf_len)
StoreData == SubSeq(buf[storebuf], 1, storebuf_len)

StateInv ==
    /\ buf \in [{1, 2} -> Block]
    /\ holdbuf \in {1, 2} /\ storebuf \in {1, 2} /\ tempPtr \in {1, 2}
    /\ holdbuf_len \in 0..(BufSize - 1) /\ storebuf_len \in 0..(BufSize - 1)
    /\ capturelength \in Nat
    /\ tick_counter \in 0..HZ
    /\ recorded \in Seq(Byte) /\ stream \in Seq(Byte)
    /\ reader \in [pc : {"user", "wait", "test", "copy", "end"}, pos : Nat, want : Nat]
    /\ rotating \in {<<>>, Statements, Left1, Left2, Left3, Left4}
    /\ raced \in BOOLEAN

\* The position is inside the hold buffer, and only "end" may find it at its end.
PosInv ==
    /\ reader.pc \in {"user", "wait", "test"} =>
         IF holdbuf_len = 0 THEN reader.pos = 0 ELSE reader.pos < holdbuf_len
    /\ reader.pc = "copy" => reader.pos < holdbuf_len
    /\ reader.pc = "end" => holdbuf_len # 0 /\ reader.pos <= holdbuf_len

\* Before the length of the store buffer is taken both buffers hold data, the hold
\* buffer none while a rotation is under way; afterwards only the hold buffer does.
DataInv ==
    /\ rotating \in {<<>>, Statements, Left1, Left2} => recorded = (stream \o HoldData) \o StoreData
    /\ rotating \in {Left3, Left4} => recorded = stream \o HoldData
    /\ rotating \in {<<>>, Statements, Left1, Left4} => holdbuf # storebuf
    /\ rotating \in {Left2, Left3} => holdbuf = storebuf /\ tempPtr # storebuf
    /\ rotating = Left1 => tempPtr = holdbuf
    /\ rotating \in {Statements, Left1, Left2} => holdbuf_len = 0

\* The packets that have a record, and the count of the others.
Recorded == {recorded[i][1] : i \in 1..Len(recorded)}
CountInv ==
    /\ traced \in 0..MaxPackets /\ dropcount \in Nat
    /\ Recorded \subseteq 1..traced
    /\ Cardinality(Recorded) + dropcount = traced

\* The inductive invariant: the second part until a packet spoils a rotation.
SoundInv == PosInv /\ DataInv
TraceInv == StateInv /\ CountInv /\ (raced \/ SoundInv)
-----------------------------------------------------------------------------
(* Parts of a block.                                                         *)

LEMMA Sizes ==
    /\ BufSize \in Nat /\ BufSize > 0 /\ HZ \in Nat /\ HZ > 0 /\ MaxRead \in Nat /\ MaxPackets \in Nat
    /\ HdrLen = 1 /\ \A n \in CaptureLengths : n \in Nat
    /\ \A len \in Lengths : len \in Nat /\ len >= 1 /\ len + 2 <= BufSize
BY TcpdumpAssumption DEF TcpdumpAssumption, HdrLen

LEMMA BlockIsSeq ==
    ASSUME NEW b \in Block
    PROVE  b \in Seq(Byte) /\ Len(b) = BufSize
BY Sizes DEF Block

LEMMA PartOf ==
    ASSUME NEW b \in Block, NEW m \in Nat, NEW n \in m..BufSize
    PROVE  /\ SubSeq(b, m + 1, n) \in Seq(Byte) /\ Len(SubSeq(b, m + 1, n)) = n - m
           /\ \A i \in 1..(n - m) : SubSeq(b, m + 1, n)[i] = b[m + i]
<1>1. BufSize \in Nat
  BY Sizes
<1>2. m + 1 \in Int /\ n \in Int /\ \A i \in (m + 1)..n : b[i] \in Byte
  BY <1>1 DEF Block
<1>3. /\ SubSeq(b, m + 1, n) \in Seq(Byte)
      /\ Len(SubSeq(b, m + 1, n)) = IF m + 1 <= n THEN n - (m + 1) + 1 ELSE 0
      /\ \A i \in 1..(n - (m + 1) + 1) : SubSeq(b, m + 1, n)[i] = b[(m + 1) + i - 1]
  BY <1>2, SubSeqProperties
<1>4. n - (m + 1) + 1 = n - m /\ \A i \in 1..(n - m) : (m + 1) + i - 1 = m + i
  BY <1>2
<1>5. Len(SubSeq(b, m + 1, n)) = n - m
  BY <1>2, <1>3
<1>6. QED
  BY <1>3, <1>4, <1>5

LEMMA PartEmpty ==
    ASSUME NEW b, NEW m \in Nat
    PROVE  SubSeq(b, m + 1, m) = << >>
BY SubSeqEmpty

LEMMA PartSplit ==
    ASSUME NEW b \in Block, NEW m \in Nat, NEW j \in m..BufSize, NEW n \in j..BufSize
    PROVE  SubSeq(b, m + 1, n) = SubSeq(b, m + 1, j) \o SubSeq(b, j + 1, n)
<1>1. b \in Seq(Byte) /\ Len(b) = BufSize /\ BufSize \in Nat
  BY BlockIsSeq, Sizes
<1>2. m + 1 \in 1..(Len(b) + 1) /\ j \in ((m + 1) - 1)..Len(b) /\ n \in j..Len(b)
  BY <1>1
<1>3. QED
  BY <1>1, <1>2, ConcatAdjacentSubSeq

\* A record is appended behind the first at bytes.
LEMMA PartWrite ==
    ASSUME NEW b \in Block, NEW at \in Nat, NEW r \in Seq(Byte), at + Len(r) <= BufSize,
           NEW c, c = [i \in 1..BufSize |-> IF i \in (at + 1)..(at + Len(r)) THEN r[i - at] ELSE b[i]]
    PROVE  c \in Block /\ SubSeq(c, 1, at + Len(r)) = SubSeq(b, 1, at) \o r
<1>1. BufSize \in Nat /\ Len(r) \in Nat
  BY Sizes
<1>2. c \in Block
  BY <1>1 DEF Block
<1>3. /\ SubSeq(c, 1, at + Len(r)) \in Seq(Byte) /\ Len(SubSeq(c, 1, at + Len(r))) = at + Len(r)
      /\ \A i \in 1..(at + Len(r)) : SubSeq(c, 1, at + Len(r))[i] = c[i]
  <2>1. PICK n \in 0..BufSize : n = at + Len(r)
    BY <1>1
  <2>2. /\ SubSeq(c, 0 + 1, n) \in Seq(Byte) /\ Len(SubSeq(c, 0 + 1, n)) = n - 0
        /\ \A i \in 1..(n - 0) : SubSeq(c, 0 + 1, n)[i] = c[0 + i]
    BY <1>1, <1>2, PartOf
  <2>3. 0 + 1 = 1 /\ n - 0 = n /\ \A i \in 1..n : 0 + i = i
    BY <1>1
  <2>4. QED
    BY <2>1, <2>2, <2>3
<1>4. /\ SubSeq(b, 1, at) \in Seq(Byte) /\ Len(SubSeq(b, 1, at)) = at
      /\ \A i \in 1..at : SubSeq(b, 1, at)[i] = b[i]
  <2>1. at \in 0..BufSize
    BY <1>1
  <2>2. /\ SubSeq(b, 0 + 1, at) \in Seq(Byte) /\ Len(SubSeq(b, 0 + 1, at)) = at - 0
        /\ \A i \in 1..(at - 0) : SubSeq(b, 0 + 1, at)[i] = b[0 + i]
    BY <2>1, PartOf
  <2>3. 0 + 1 = 1 /\ at - 0 = at /\ \A i \in 1..at : 0 + i = i
    OBVIOUS
  <2>4. QED
    BY <2>2, <2>3
<1>5. PICK s \in Seq(Byte) : s = SubSeq(c, 1, at + Len(r))
  BY <1>3
<1>6. PICK t \in Seq(Byte) : t = SubSeq(b, 1, at)
  BY <1>4
<1>7. /\ t \o r \in Seq(Byte) /\ Len(t \o r) = at + Len(r)
      /\ \A i \in 1..(at + Len(r)) : (t \o r)[i] = IF i <= at THEN t[i] ELSE r[i - at]
  BY <1>4, <1>6, ConcatProperties
<1>8. \A i \in 1..(at + Len(r)) : s[i] = (t \o r)[i]
  <2> TAKE i \in 1..(at + Len(r))
  <2>1. s[i] = c[i] /\ i \in 1..BufSize
    BY <1>1, <1>3, <1>5
  <2>2. CASE i <= at
    <3>1. i \in 1..at /\ i \notin (at + 1)..(at + Len(r))
      BY <1>1, <2>2
    <3>2. QED
      BY <1>4, <1>6, <1>7, <2>1, <2>2, <3>1
  <2>3. CASE ~(i <= at)
    <3>1. i \in (at + 1)..(at + Len(r))
      BY <1>1, <2>3
    <3>2. QED
      BY <1>7, <2>1, <2>3, <3>1
  <2>4. QED
    BY <2>2, <2>3
<1>9. s = t \o r
  <2>1. PICK u \in Seq(Byte) : u = t \o r
    BY <1>7
  <2>2. Len(s) = Len(u) /\ \A i \in 1..Len(s) : s[i] = u[i]
    BY <1>3, <1>5, <1>7, <1>8, <2>1
  <2>3. s = u
    BY <2>2
  <2>4. QED
    BY <2>1, <2>3
<1>10. QED
  BY <1>2, <1>5, <1>6, <1>9
-----------------------------------------------------------------------------
(* The stages of a rotation.                                                 *)

LEMMA Stages ==
    /\ Len(Statements) = 5 /\ Len(Left1) = 4 /\ Len(Left2) = 3 /\ Len(Left3) = 2 /\ Len(Left4) = 1
    /\ Head(Statements) = "temp" /\ Head(Left1) = "hold" /\ Head(Left2) = "hold_len"
    /\ Head(Left3) = "store" /\ Head(Left4) = "store_len"
    /\ Tail(Statements) = Left1 /\ Tail(Left1) = Left2 /\ Tail(Left2) = Left3 /\ Tail(Left3) = Left4
    /\ Tail(Left4) = << >>
BY DEF Statements, Left1, Left2, Left3, Left4

\* The stages differ.
LEMMA StagesDiffer ==
    /\ << >> \notin {Statements, Left1, Left2, Left3, Left4}
    /\ Statements \notin {Left1, Left2, Left3, Left4}
    /\ Left1 \notin {Left2, Left3, Left4} /\ Left2 \notin {Left3, Left4} /\ Left3 # Left4
<1>1. PICK e, s0, s1, s2, s3, s4 :
        e = << >> /\ s0 = Statements /\ s1 = Left1 /\ s2 = Left2 /\ s3 = Left3 /\ s4 = Left4
  OBVIOUS
<1>2. Len(e) = 0
  BY <1>1
<1>3. Len(s0) = 5 /\ Len(s1) = 4 /\ Len(s2) = 3 /\ Len(s3) = 2 /\ Len(s4) = 1
  <2>1. Len(s0) = 5
    BY <1>1 DEF Statements
  <2>2. Len(s1) = 4
    BY <1>1 DEF Left1
  <2>3. Len(s2) = 3
    BY <1>1 DEF Left2
  <2>4. Len(s3) = 2
    BY <1>1 DEF Left3
  <2>5. Len(s4) = 1
    BY <1>1 DEF Left4
  <2>6. QED
    BY <2>1, <2>2, <2>3, <2>4, <2>5
<1>4. /\ e \notin {s0, s1, s2, s3, s4} /\ s0 \notin {s1, s2, s3, s4}
      /\ s1 \notin {s2, s3, s4} /\ s2 \notin {s3, s4} /\ s3 # s4
  <2>1. e \notin {s0, s1, s2, s3, s4}
    BY <1>2, <1>3
  <2>2. s0 \notin {s1, s2, s3, s4}
    BY <1>3
  <2>3. s1 \notin {s2, s3, s4}
    BY <1>3
  <2>4. s2 \notin {s3, s4}
    BY <1>3
  <2>5. s3 # s4
    BY <1>3
  <2>6. QED
    BY <2>1, <2>2, <2>3, <2>4, <2>5
<1>5. QED
  BY <1>1, <1>4, Zenon

-----------------------------------------------------------------------------
(* The reader.                                                               *)

\* The position is never beyond the end; the two parts are sequences of bytes.
LEMMA Parts ==
    ASSUME StateInv, PosInv
    PROVE  /\ reader.pos \in 0..holdbuf_len
           /\ buf[holdbuf] \in Block /\ buf[storebuf] \in Block
           /\ HoldData \in Seq(Byte) /\ Len(HoldData) = holdbuf_len - reader.pos
           /\ StoreData \in Seq(Byte) /\ Len(StoreData) = storebuf_len
<1>1. BufSize \in Nat
  BY Sizes
<1>2. reader.pos \in 0..holdbuf_len
  BY <1>1 DEF StateInv, PosInv
<1>3. buf[holdbuf] \in Block /\ buf[storebuf] \in Block
  BY DEF StateInv
<1>4. HoldData \in Seq(Byte) /\ Len(HoldData) = holdbuf_len - reader.pos
  <2>1. reader.pos \in Nat /\ holdbuf_len \in reader.pos..BufSize
    BY <1>1, <1>2 DEF StateInv
  <2>2. QED
    BY <1>3, <2>1, PartOf DEF HoldData
<1>5. StoreData \in Seq(Byte) /\ Len(StoreData) = storebuf_len
  <2>1. storebuf_len \in 0..BufSize /\ 0 + 1 = 1 /\ storebuf_len - 0 = storebuf_len
    BY <1>1 DEF StateInv
  <2>2. SubSeq(buf[storebuf], 0 + 1, storebuf_len) \in Seq(Byte) /\ Len(SubSeq(buf[storebuf], 0 + 1, storebuf_len)) = storebuf_len - 0
    BY <1>3, <2>1, PartOf
  <2>3. QED
    BY <2>1, <2>2 DEF StoreData
<1>6. QED
  BY <1>2, <1>3, <1>4, <1>5

\* An empty hold buffer has nothing left to read.
LEMMA HoldEmpty ==
    ASSUME StateInv, PosInv, holdbuf_len = 0
    PROVE  /\ reader.pos = 0 /\ reader.pc \in {"user", "wait", "test"}
           /\ HoldData = << >> /\ stream \o HoldData = stream
<1>1. reader.pos = 0 /\ reader.pc \in {"user", "wait", "test"}
  BY DEF StateInv, PosInv
<1>2. HoldData = << >>
  <2>1. SubSeq(buf[holdbuf], 0 + 1, 0) = << >>
    BY PartEmpty
  <2>2. QED
    BY <1>1, <2>1 DEF HoldData
<1>3. stream \o HoldData = stream
  BY <1>2, ConcatEmptySeq DEF StateInv
<1>4. QED
  BY <1>1, <1>2, <1>3

\* Where the buffers, the position and the records stay, so does the data.
LEMMA DataStays ==
    ASSUME DataInv, reader'.pos = reader.pos,
           UNCHANGED <<buf, holdbuf, storebuf, tempPtr, holdbuf_len, storebuf_len, rotating, recorded, stream>>
    PROVE  DataInv'
<1>1. HoldData' = HoldData /\ StoreData' = StoreData
  BY DEF HoldData, StoreData
<1>2. QED
  BY <1>1, Zenon DEF DataInv

\* A step that changes only where the reader is in proc_read_dumps.
LEMMA ReaderMoves ==
    ASSUME TraceInv, NEW c \in {"user", "wait", "test", "copy"}, NEW w \in Nat,
           reader' = [pc |-> c, pos |-> reader.pos, want |-> w],
           c = "copy" => holdbuf_len # 0,
           reader.pc \in {"user", "wait", "test"},
           UNCHANGED <<bufs, dropcount, capturelength, tick_counter, rotating, raced, traced, recorded, stream>>
    PROVE  TraceInv'
<1>1. UNCHANGED <<buf, holdbuf, storebuf, tempPtr, holdbuf_len, storebuf_len>>
  BY DEF bufs
<1>2. /\ reader'.pc = c /\ reader'.pos = reader.pos /\ reader.pos \in Nat
      /\ reader' \in [pc : {"user", "wait", "test", "copy", "end"}, pos : Nat, want : Nat]
  BY DEF TraceInv, StateInv
<1>3. StateInv'
  BY <1>1, <1>2 DEF TraceInv, StateInv
<1>4. SoundInv => PosInv'
  BY <1>1, <1>2 DEF SoundInv, PosInv
<1>5. SoundInv => DataInv'
  BY <1>1, <1>2, DataStays DEF SoundInv
<1>6. CountInv'
  BY DEF TraceInv, CountInv, Recorded
<1>7. QED
  BY <1>3, <1>4, <1>5, <1>6 DEF TraceInv, SoundInv

\* The reader copies bytes: they move from the hold buffer to the stream.
LEMMA CopiedSound ==
    ASSUME StateInv, SoundInv, NEW copied \in Nat, read_copied(copied)
    PROVE  SoundInv'
<1> USE DEF SoundInv
<1>1. /\ reader.pc = "copy" /\ copied <= copy_amount
      /\ stream' = stream \o HoldBytes(copied)
      /\ reader' = [reader EXCEPT !.pc = "end", !.pos = @ + copied]
      /\ UNCHANGED <<buf, holdbuf, storebuf, tempPtr, holdbuf_len, storebuf_len, rotating, recorded>>
  BY DEF read_copied, Unread
<1>2. /\ BufSize \in Nat /\ reader.pos \in Nat /\ reader.want \in Nat /\ holdbuf_len \in Nat
      /\ holdbuf_len <= BufSize /\ reader.pos < holdbuf_len
  BY <1>1, Sizes DEF StateInv, PosInv
<1>3. PICK j \in Nat : j = reader.pos + copied
  BY <1>2
<1>4. j <= holdbuf_len /\ j \in reader.pos..BufSize /\ holdbuf_len \in j..BufSize
  <2>1. copied <= holdbuf_len - reader.pos
    BY <1>1, <1>2 DEF copy_amount, Smaller
  <2>2. QED
    BY <1>2, <1>3, <2>1
<1>5. reader' = [pc |-> "end", pos |-> j, want |-> reader.want]
  BY <1>1, <1>3 DEF StateInv
<1>6. reader'.pc = "end" /\ reader'.pos = j
  BY <1>5
<1>7. PICK x \in Seq(Byte) : x = SubSeq(buf[holdbuf], reader.pos + 1, j)
  BY <1>2, <1>4, PartOf, Parts
<1>8. PICK y \in Seq(Byte) : y = SubSeq(buf[holdbuf], j + 1, holdbuf_len)
  BY <1>2, <1>4, PartOf, Parts
<1>9. HoldData = x \o y /\ HoldData' = y /\ StoreData' = StoreData
  <2>1. HoldData = x \o y
    BY <1>2, <1>4, <1>7, <1>8, PartSplit, Parts DEF HoldData
  <2>2. HoldData' = y /\ StoreData' = StoreData
    BY <1>1, <1>6, <1>8 DEF HoldData, StoreData
  <2>3. QED
    BY <2>1, <2>2
<1>10. stream' = stream \o x /\ stream \in Seq(Byte)
  <2>1. HoldBytes(copied) = x
    <3>1. j <= BufSize
      BY <1>2, <1>4
    <3>2. HoldBytes(copied) = SubSeq(buf[holdbuf], reader.pos + 1, j)
      BY <1>3, <3>1, Zenon DEF HoldBytes
    <3>3. QED
      BY <1>7, <3>2, Zenon
  <2>2. QED
    BY <1>1, <2>1 DEF StateInv
<1>11. PosInv'
  BY <1>1, <1>2, <1>4, <1>6 DEF PosInv
<1>12. stream \o HoldData = stream' \o HoldData'
  <2>1. stream \o (x \o y) = (stream \o x) \o y
    <3>1. stream \in Seq(Byte)
      BY <1>10
    <3>2. QED
      BY <3>1, ConcatAssociative
  <2>2. QED
    BY <1>9, <1>10, <2>1, Zenon
<1>13. DataInv'
  BY <1>1, <1>9, <1>12, Zenon DEF DataInv
<1>14. QED
  BY <1>11, <1>13

LEMMA CopiedKeeps ==
    ASSUME TraceInv, NEW copied \in Nat, read_copied(copied)
    PROVE  TraceInv'
<1>1. /\ stream' = stream \o HoldBytes(copied)
      /\ reader' = [reader EXCEPT !.pc = "end", !.pos = @ + copied]
      /\ UNCHANGED <<buf, holdbuf, storebuf, tempPtr, holdbuf_len, storebuf_len, dropcount, capturelength,
                     tick_counter, rotating, raced, traced, recorded>>
  BY DEF read_copied, Unread
<1>2. HoldBytes(copied) \in Seq(Byte)
  <2>1. PICK m \in Nat, n \in Nat : m = reader.pos /\ n = m + copied
    BY DEF TraceInv, StateInv
  <2>2. CASE n <= BufSize
    <3>1. n \in m..BufSize /\ buf[holdbuf] \in Block
      BY <2>1, <2>2, Sizes DEF TraceInv, StateInv
    <3>2. SubSeq(buf[holdbuf], m + 1, n) \in Seq(Byte)
      BY <3>1, PartOf
    <3>3. QED
      BY <2>1, <2>2, <3>2 DEF HoldBytes
  <2>3. CASE ~(n <= BufSize)
    <3>1. HoldBytes(copied) = [i \in 1..copied |-> <<0, 0>>] /\ <<0, 0>> \in Byte
      BY <2>1, <2>3 DEF HoldBytes, Byte
    <3>2. QED
      BY <3>1
  <2>4. QED
    BY <2>2, <2>3
<1>3. StateInv'
  <2>1. stream' \in Seq(Byte)
    BY <1>1, <1>2, ConcatProperties DEF TraceInv, StateInv
  <2>2. reader' \in [pc : {"user", "wait", "test", "copy", "end"}, pos : Nat, want : Nat]
    <3>1. reader \in [pc : {"user", "wait", "test", "copy", "end"}, pos : Nat, want : Nat]
      BY DEF TraceInv, StateInv
    <3>2. PICK j \in Nat : j = reader.pos + copied
      BY <3>1
    <3>3. reader' = [pc |-> "end", pos |-> j, want |-> reader.want]
      BY <1>1, <3>1, <3>2
    <3>4. QED
      BY <3>1, <3>3
  <2>3. QED
    BY <1>1, <2>1, <2>2 DEF TraceInv, StateInv
<1>4. CountInv'
  BY <1>1 DEF TraceInv, CountInv, Recorded
<1>5. SoundInv => SoundInv'
  BY CopiedSound DEF TraceInv
<1>6. QED
  BY <1>1, <1>3, <1>4, <1>5 DEF TraceInv

\* The reader gives the hold buffer up when it has got all of it.
LEMMA DoneKeeps ==
    ASSUME TraceInv, read_done
    PROVE  TraceInv'
<1>1. /\ reader.pc = "end"
      /\ holdbuf_len' = IF reader.pos >= holdbuf_len THEN 0 ELSE holdbuf_len
      /\ reader' = [reader EXCEPT !.pc = "user", !.pos = IF reader.pos >= holdbuf_len THEN 0 ELSE @]
      /\ UNCHANGED <<buf, holdbuf, storebuf, tempPtr, storebuf_len, dropcount, capturelength,
                     tick_counter, rotating, raced, traced, recorded, stream>>
  BY DEF read_done, Unread
<1>2. /\ BufSize \in Nat /\ reader.pos \in Nat /\ reader.want \in Nat /\ holdbuf_len \in Nat /\ BufSize > 0
  BY <1>1, Sizes DEF TraceInv, StateInv
<1>3. PICK j \in Nat : j = IF reader.pos >= holdbuf_len THEN 0 ELSE reader.pos
  BY <1>2
<1>4. reader' = [pc |-> "user", pos |-> j, want |-> reader.want]
  BY <1>1, <1>3 DEF TraceInv, StateInv
<1>5. reader'.pc = "user" /\ reader'.pos = j
      /\ reader' \in [pc : {"user", "wait", "test", "copy", "end"}, pos : Nat, want : Nat]
  BY <1>2, <1>4
<1>6. StateInv'
  BY <1>1, <1>2, <1>5 DEF TraceInv, StateInv
<1>7. CountInv'
  BY <1>1 DEF TraceInv, CountInv, Recorded
<1>8. ASSUME SoundInv PROVE SoundInv'
  <2>1. reader.pos <= holdbuf_len /\ holdbuf_len # 0
    BY <1>1, <1>8 DEF SoundInv, PosInv
  <2>2. PosInv'
    BY <1>1, <1>2, <1>3, <1>5, <2>1 DEF PosInv
  <2>3. HoldData' = HoldData /\ StoreData' = StoreData
    <3>1. CASE reader.pos >= holdbuf_len
      <4>1. reader.pos = holdbuf_len /\ j = 0 /\ holdbuf_len' = 0 /\ 0 \in Nat
        BY <1>1, <1>2, <1>3, <2>1, <3>1
      <4>2. HoldData = << >>
        BY <1>2, <4>1, PartEmpty DEF HoldData
      <4>3. HoldData' = << >>
        BY <1>5, <4>1, PartEmpty DEF HoldData
      <4>4. QED
        BY <1>1, <4>2, <4>3 DEF StoreData
    <3>2. CASE ~(reader.pos >= holdbuf_len)
      BY <1>1, <1>3, <1>5, <3>2 DEF HoldData, StoreData
    <3>3. QED
      BY <3>1, <3>2
  <2>4. rotating \notin {Statements, Left1, Left2}
    BY <1>8, <2>1 DEF SoundInv, DataInv
  <2>5. DataInv'
    BY <1>1, <1>8, <2>3, <2>4, Zenon DEF SoundInv, DataInv
  <2>6. QED
    BY <2>2, <2>5 DEF SoundInv
<1>9. QED
  BY <1>1, <1>6, <1>7, <1>8 DEF TraceInv

LEMMA ReaderKeeps ==
    ASSUME TraceInv, Reader
    PROVE  TraceInv'
<1>2. MaxRead \in Nat /\ reader \in [pc : {"user", "wait", "test", "copy", "end"}, pos : Nat, want : Nat]
  BY Sizes DEF TraceInv, StateInv
<1>3. ASSUME NEW n \in 1..MaxRead, read(n) PROVE TraceInv'
  <2>1. /\ reader.pc = "user" /\ reader' = [pc |-> "wait", pos |-> reader.pos, want |-> n] /\ n \in Nat
        /\ UNCHANGED <<bufs, dropcount, capturelength, tick_counter, rotating, raced, traced, recorded, stream>>
    <3>1. n \in Nat
      BY <1>2
    <3>2. PICK m : m = n
      OBVIOUS
    <3>3. reader.pc = "user" /\ reader' = [reader EXCEPT !.pc = "wait", !.want = m]
      BY <1>3, <3>2, Zenon DEF read
    <3>4. reader' = [pc |-> "wait", pos |-> reader.pos, want |-> m]
      BY <1>2, <3>3
    <3>5. UNCHANGED <<bufs, dropcount, capturelength, tick_counter, rotating, raced, traced, recorded, stream>>
      BY <1>3 DEF read, Unread, bufs
    <3>6. QED
      BY <3>1, <3>2, <3>3, <3>4, <3>5, Zenon
  <2>2. QED
    BY <2>1, ReaderMoves
<1>4. CASE read_woken
  <2>1. /\ reader.pc = "wait" /\ holdbuf_len # 0
        /\ reader' = [pc |-> "copy", pos |-> reader.pos, want |-> reader.want] /\ reader.want \in Nat
        /\ UNCHANGED <<bufs, dropcount, capturelength, tick_counter, rotating, raced, traced, recorded, stream>>
    BY <1>2, <1>4 DEF read_woken, Unread, bufs
  <2>2. QED
    BY <2>1, ReaderMoves
<1>5. CASE read_signalled
  <2>1. /\ reader.pc = "wait"
        /\ reader' = [pc |-> "test", pos |-> reader.pos, want |-> reader.want] /\ reader.want \in Nat
        /\ UNCHANGED <<bufs, dropcount, capturelength, tick_counter, rotating, raced, traced, recorded, stream>>
    BY <1>2, <1>5 DEF read_signalled, Unread, bufs
  <2>2. QED
    BY <2>1, ReaderMoves
<1>6. CASE read_tested
  <2>1. PICK c \in {"user", "copy"} : c = IF holdbuf_len = 0 THEN "user" ELSE "copy"
    OBVIOUS
  <2>2. /\ reader.pc = "test"
        /\ reader' = [pc |-> c, pos |-> reader.pos, want |-> reader.want] /\ reader.want \in Nat
        /\ UNCHANGED <<bufs, dropcount, capturelength, tick_counter, rotating, raced, traced, recorded, stream>>
    BY <1>2, <1>6, <2>1 DEF read_tested, Unread, bufs
  <2>3. c = "copy" => holdbuf_len # 0
    BY <2>1
  <2>4. QED
    BY <2>2, <2>3, ReaderMoves
<1>7. ASSUME NEW n \in 0..MaxRead, read_copied(n) PROVE TraceInv'
  <2>1. n \in Nat
    BY <1>2
  <2>2. QED
    BY <1>7, <2>1, CopiedKeeps
<1>8. CASE read_done
  BY <1>8, DoneKeeps
<1>9. QED
  BY <1>3, <1>4, <1>5, <1>6, <1>7, <1>8 DEF Reader
-----------------------------------------------------------------------------
(* Packets on traced links.                                                  *)

LEMMA RecordIs ==
    ASSUME StateInv, NEW n \in Nat, NEW len \in Lengths
    PROVE  /\ Record(n, len) \in Seq(Byte)
           /\ Len(Record(n, len)) \in 1..(len + 1)
           /\ \A i \in 1..Len(Record(n, len)) : Record(n, len)[i][1] = n
<1>1. len \in Nat /\ len >= 1 /\ HdrLen = 1 /\ capturelength \in Nat
  BY Sizes DEF StateInv
<1>2. Captured(len) \in Nat /\ Captured(len) <= len
  BY <1>1 DEF Captured, Smaller
<1>3. PICK m \in 1..(len + 1) : m = HdrLen + Captured(len)
  BY <1>1, <1>2
<1>4. m \in Nat /\ Record(n, len) = [i \in 1..m |-> <<n, i>>]
  BY <1>1, <1>3 DEF Record
<1>5. \A i \in 1..m : <<n, i>> \in Byte
  BY <1>4 DEF Byte
<1>6. PICK r \in Seq(Byte) : r = [i \in 1..m |-> <<n, i>>]
  BY <1>4, <1>5
<1>7. Len(r) = m /\ \A i \in 1..m : r[i] = <<n, i>>
  BY <1>4, <1>6
<1>8. \A i \in 1..m : r[i][1] = n
  BY <1>7
<1>9. QED
  BY <1>3, <1>4, <1>6, <1>7, <1>8

LEMMA WriteIs ==
    ASSUME StateInv, NEW b \in {1, 2}, NEW at \in Nat, NEW r \in Seq(Byte), at + Len(r) <= BufSize,
           Write(b, at, r)
    PROVE  /\ buf' \in [{1, 2} -> Block]
           /\ \A d \in {1, 2} : d # b => buf'[d] = buf[d]
           /\ SubSeq(buf'[b], 1, at + Len(r)) = SubSeq(buf[b], 1, at) \o r
           /\ storebuf_len' = at + Len(r) /\ recorded' = recorded \o r
<1>1. buf \in [{1, 2} -> Block] /\ buf[b] \in Block
  BY DEF StateInv
<1>2. PICK c : c = [i \in 1..BufSize |-> IF i \in (at + 1)..(at + Len(r)) THEN r[i - at] ELSE buf[b][i]]
  OBVIOUS
<1>3. c \in Block /\ SubSeq(c, 1, at + Len(r)) = SubSeq(buf[b], 1, at) \o r
  BY <1>1, <1>2, PartWrite
<1>4. buf' = [buf EXCEPT ![b] = c] /\ storebuf_len' = at + Len(r) /\ recorded' = recorded \o r
  BY <1>2, Zenon DEF Write
<1>5. buf'[b] = c /\ buf' \in [{1, 2} -> Block] /\ \A d \in {1, 2} : d # b => buf'[d] = buf[d]
  BY <1>1, <1>3, <1>4
<1>6. QED
  BY <1>3, <1>4, <1>5

\* A record adds its packet to those that have one.
LEMMA OneMore ==
    ASSUME CountInv, recorded \in Seq(Byte), traced < MaxPackets, traced' = traced + 1,
           dropcount' = dropcount,
           NEW r \in Seq(Byte), Len(r) >= 1, \A i \in 1..Len(r) : r[i][1] = traced + 1,
           recorded' = recorded \o r
    PROVE  CountInv'
<1>1. traced \in Nat /\ MaxPackets \in Nat /\ dropcount \in Nat
  BY Sizes DEF CountInv
<1>2. /\ Len(recorded') = Len(recorded) + Len(r) /\ Len(recorded) \in Nat /\ Len(r) \in Nat
      /\ \A i \in 1..(Len(recorded) + Len(r)) :
           recorded'[i] = IF i <= Len(recorded) THEN recorded[i] ELSE r[i - Len(recorded)]
  BY ConcatProperties
<1>3. Recorded' = {recorded'[i][1] : i \in 1..Len(recorded')}
  BY DEF Recorded
<1>4. Recorded' = Recorded \cup {traced + 1}
  <2>1. ASSUME NEW x \in Recorded' PROVE x \in Recorded \cup {traced + 1}
    <3>1. PICK i \in 1..Len(recorded') : x = recorded'[i][1]
      BY <1>3, <2>1
    <3>2. CASE i <= Len(recorded)
      <4>1. i \in 1..Len(recorded) /\ recorded'[i] = recorded[i]
        BY <1>2, <3>1, <3>2
      <4>2. QED
        BY <3>1, <4>1 DEF Recorded
    <3>3. CASE ~(i <= Len(recorded))
      <4>1. i - Len(recorded) \in 1..Len(r) /\ recorded'[i] = r[i - Len(recorded)]
        BY <1>2, <3>1, <3>3
      <4>2. QED
        BY <3>1, <4>1
    <3>4. QED
      BY <3>2, <3>3
  <2>2. ASSUME NEW x \in Recorded PROVE x \in Recorded'
    <3>1. PICK i \in 1..Len(recorded) : x = recorded[i][1]
      BY <2>2 DEF Recorded
    <3>2. i \in 1..Len(recorded') /\ recorded'[i] = recorded[i]
      BY <1>2, <3>1
    <3>3. QED
      BY <1>3, <3>1, <3>2
  <2>3. traced + 1 \in Recorded'
    <3>1. /\ Len(recorded) + 1 \in 1..Len(recorded')
          /\ recorded'[Len(recorded) + 1] = r[(Len(recorded) + 1) - Len(recorded)]
      BY <1>2
    <3>2. (Len(recorded) + 1) - Len(recorded) = 1 /\ 1 \in 1..Len(r)
      BY <1>2
    <3>3. recorded'[Len(recorded) + 1][1] = traced + 1
      BY <3>1, <3>2
    <3>4. QED
      BY <1>3, <3>1, <3>3
  <2>4. QED
    BY <2>1, <2>2, <2>3
<1>5. Recorded \subseteq 1..traced
  BY DEF CountInv
<1>6. IsFiniteSet(Recorded)
  <2>1. IsFiniteSet(1..traced)
    BY <1>1, FS_Interval
  <2>2. QED
    BY <1>5, <2>1, FS_Subset
<1>7. traced + 1 \notin Recorded
  <2>1. traced + 1 \notin 1..traced
    BY <1>1
  <2>2. QED
    BY <1>5, <2>1
<1>8. Cardinality(Recorded') = Cardinality(Recorded) + 1
  BY <1>4, <1>6, <1>7, FS_AddElement
<1>9. Recorded' \subseteq 1..(traced + 1)
  BY <1>1, <1>4, <1>5
<1>10. Cardinality(Recorded) \in Nat /\ Cardinality(Recorded) + dropcount = traced
  BY <1>6, FS_CardinalityType DEF CountInv
<1>11. QED
  BY <1>1, <1>8, <1>9, <1>10 DEF CountInv

\* What every packet does to the state, spoilt or not.
LEMMA PacketState ==
    ASSUME StateInv, CountInv, NEW len \in Lengths, handle_tcpdump(len)
    PROVE  StateInv' /\ CountInv'
<1>1. /\ traced < MaxPackets /\ traced' = traced + 1 /\ raced' = (raced \/ Spoils(len))
      /\ UNCHANGED <<capturelength, rotating, reader, stream>>
  BY DEF handle_tcpdump
<1>2. /\ BufSize \in Nat /\ HZ \in Nat /\ len \in Nat /\ len >= 1 /\ len + 2 <= BufSize /\ HdrLen = 1
      /\ traced \in Nat /\ traced + 1 \in Nat /\ holdbuf_len \in Nat /\ storebuf_len \in Nat
      /\ recorded \in Seq(Byte) /\ holdbuf \in {1, 2} /\ storebuf \in {1, 2} /\ raced' \in BOOLEAN
  BY <1>1, Sizes DEF StateInv, CountInv
<1>3. PICK r \in Seq(Byte) : /\ r = Record(traced + 1, len) /\ Len(r) \in 1..(len + 1)
                             /\ \A i \in 1..Len(r) : r[i][1] = traced + 1
  <2>2. PICK n \in Nat : n = traced + 1
    BY <1>2
  <2>3. PICK r : r = Record(n, len)
    OBVIOUS
  <2>4. r \in Seq(Byte) /\ Len(r) \in 1..(len + 1) /\ \A i \in 1..Len(r) : r[i][1] = n
    BY <2>3, RecordIs
  <2>5. QED
    BY <2>2, <2>3, <2>4
<1>4. ASSUME dropcount' = dropcount, recorded' = recorded \o r PROVE CountInv'
  <2>1. Len(r) >= 1
    BY <1>2, <1>3
  <2>2. QED
    BY <1>1, <1>2, <1>3, <1>4, <2>1, OneMore
<1>6. recorded \o r \in Seq(Byte)
  BY <1>2, ConcatProperties
<1>7. CASE /\ ~Full(len) /\ Write(storebuf, storebuf_len, r)
           /\ UNCHANGED <<holdbuf, storebuf, tempPtr, holdbuf_len, dropcount, tick_counter>>
  <2>1. storebuf_len + Len(r) < BufSize /\ storebuf_len + Len(r) <= BufSize
    BY <1>2, <1>3, <1>7 DEF Full
  <2>2. /\ buf' \in [{1, 2} -> Block]
        /\ storebuf_len' = storebuf_len + Len(r) /\ recorded' = recorded \o r
    BY <1>2, <1>7, <2>1, WriteIs
  <2>3. storebuf_len' \in 0..(BufSize - 1)
    BY <1>2, <1>3, <2>1, <2>2
  <2>4. StateInv'
    BY <1>1, <1>2, <1>6, <1>7, <2>2, <2>3 DEF StateInv
  <2>5. QED
    BY <1>4, <1>7, <2>2, <2>4
<1>8. CASE /\ Full(len) /\ holdbuf_len = 0 /\ tick_counter' = 0 /\ ROTATE_TCPDUMP_BUFFERS
           /\ Write(holdbuf, 0, r) /\ dropcount' = dropcount
  <2>1. tempPtr' = holdbuf /\ holdbuf' = storebuf /\ holdbuf_len' = storebuf_len /\ storebuf' = holdbuf
    BY <1>8 DEF ROTATE_TCPDUMP_BUFFERS
  <2>2. 0 \in Nat /\ 0 + Len(r) = Len(r) /\ 0 + Len(r) <= BufSize /\ Len(r) \in 0..(BufSize - 1)
    BY <1>2, <1>3
  <2>3. /\ buf' \in [{1, 2} -> Block]
        /\ storebuf_len' = 0 + Len(r) /\ recorded' = recorded \o r
    BY <1>2, <1>8, <2>2, WriteIs
  <2>4. StateInv'
    BY <1>1, <1>2, <1>6, <1>8, <2>1, <2>2, <2>3 DEF StateInv
  <2>5. QED
    BY <1>4, <1>8, <2>3, <2>4
<1>9. CASE /\ dropcount' = dropcount + 1 /\ UNCHANGED <<bufs, tick_counter, recorded>>
  <2>1. UNCHANGED <<buf, holdbuf, storebuf, tempPtr, holdbuf_len, storebuf_len>>
    BY <1>9 DEF bufs
  <2>2. StateInv'
    BY <1>1, <1>2, <1>9, <2>1 DEF StateInv
  <2>5. CountInv'
    <3>1. Recorded' = Recorded
      BY <1>9 DEF Recorded
    <3>2. MaxPackets \in Nat /\ dropcount \in Nat /\ Recorded \subseteq 1..traced
          /\ Cardinality(Recorded) + dropcount = traced
      BY Sizes DEF CountInv
    <3>3. IsFiniteSet(Recorded)
      <4>1. IsFiniteSet(1..traced)
        BY <1>2, FS_Interval
      <4>2. QED
        BY <3>2, <4>1, FS_Subset
    <3>4. Cardinality(Recorded) \in Nat
      BY <3>3, FS_CardinalityType
    <3>5. Recorded \subseteq 1..(traced + 1)
      BY <1>2, <3>2
    <3>6. QED
      BY <1>1, <1>2, <1>9, <3>1, <3>2, <3>4, <3>5 DEF CountInv
  <2>6. QED
    BY <2>2, <2>5
<1>10. QED
  BY <1>3, <1>7, <1>8, <1>9 DEF handle_tcpdump

\* A packet that does not spoil a rotation leaves the data sound.
LEMMA PacketSound ==
    ASSUME StateInv, CountInv, SoundInv, NEW len \in Lengths, handle_tcpdump(len), ~Spoils(len)
    PROVE  SoundInv'
<1> USE DEF SoundInv
<1>1. UNCHANGED <<capturelength, rotating, reader, stream>>
  BY DEF handle_tcpdump
<1>2. /\ BufSize \in Nat /\ len \in Nat /\ len >= 1 /\ len + 2 <= BufSize /\ HdrLen = 1
      /\ traced \in Nat /\ traced + 1 \in Nat /\ holdbuf_len \in Nat /\ storebuf_len \in Nat
      /\ stream \in Seq(Byte) /\ recorded \in Seq(Byte) /\ holdbuf \in {1, 2} /\ storebuf \in {1, 2}
  BY Sizes DEF StateInv, CountInv
<1>3. PICK r \in Seq(Byte) : r = Record(traced + 1, len) /\ Len(r) \in 1..(len + 1)
  <2>2. PICK n \in Nat : n = traced + 1
    BY <1>2
  <2>3. PICK r : r = Record(n, len)
    OBVIOUS
  <2>4. r \in Seq(Byte) /\ Len(r) \in 1..(len + 1)
    BY <2>3, RecordIs
  <2>5. QED
    BY <2>2, <2>3, <2>4
<1>5. /\ HoldData \in Seq(Byte) /\ StoreData \in Seq(Byte) /\ stream \o HoldData \in Seq(Byte)
  BY <1>2, Parts, ConcatProperties
<1>7. CASE /\ ~Full(len) /\ Write(storebuf, storebuf_len, r)
           /\ UNCHANGED <<holdbuf, storebuf, tempPtr, holdbuf_len, dropcount, tick_counter>>
  <2>0. rotating \in {<<>>, Statements, Left1, Left2} /\ recorded = (stream \o HoldData) \o StoreData
    <3>1. rotating = <<>> \/ ~(Len(rotating) <= 2)
      BY <1>7 DEF Spoils
    <3>2. Len(Left3) = 2 /\ Len(Left4) = 1
      BY Stages
    <3>3. rotating # Left3 /\ rotating # Left4
      <4>1. CASE rotating = <<>>
        BY <4>1, StagesDiffer
      <4>2. CASE ~(Len(rotating) <= 2)
        <5>1. PICK n : n = Len(rotating)
          OBVIOUS
        <5>2. rotating = Left3 => n = 2
          BY <3>2, <5>1, Zenon
        <5>3. rotating = Left4 => n = 1
          BY <3>2, <5>1, Zenon
        <5>4. ~(n <= 2)
          BY <4>2, <5>1, Zenon
        <5>5. n # 2 /\ n # 1
          BY <5>4
        <5>6. QED
          BY <5>2, <5>3, <5>5
      <4>3. QED
        BY <3>1, <4>1, <4>2
    <3>4. QED
      BY <3>3 DEF StateInv, DataInv
  <2>1. storebuf_len + Len(r) <= BufSize
    BY <1>2, <1>3, <1>7 DEF Full
  <2>2. /\ \A d \in {1, 2} : d # storebuf => buf'[d] = buf[d]
        /\ SubSeq(buf'[storebuf], 1, storebuf_len + Len(r)) = StoreData \o r
        /\ storebuf_len' = storebuf_len + Len(r) /\ recorded' = recorded \o r
    BY <1>2, <1>7, <2>1, WriteIs DEF StoreData
  <2>3. StoreData' = StoreData \o r
    BY <1>7, <2>2 DEF StoreData
  <2>4. PosInv'
    BY <1>1, <1>7 DEF PosInv
  <2>5. HoldData' = HoldData
    <3>1. CASE holdbuf # storebuf
      BY <1>1, <1>2, <1>7, <2>2, <3>1 DEF HoldData
    <3>2. CASE holdbuf = storebuf
      <4>1. holdbuf_len = 0
        BY <2>0, <3>2 DEF DataInv
      <4>2. reader.pos = 0 /\ HoldData = << >>
        BY <4>1, HoldEmpty
      <4>3. SubSeq(buf'[holdbuf], 0 + 1, 0) = << >>
        BY PartEmpty
      <4>4. QED
        BY <1>1, <1>7, <4>1, <4>2, <4>3 DEF HoldData
    <3>3. QED
      BY <3>1, <3>2
  <2>7. recorded' = (stream' \o HoldData') \o StoreData'
    <3>1. ((stream \o HoldData) \o StoreData) \o r = (stream \o HoldData) \o (StoreData \o r)
      <4>1. PICK x \in Seq(Byte) : x = stream \o HoldData
        BY <1>5
      <4>2. PICK y \in Seq(Byte) : y = StoreData
        BY <1>5
      <4>3. (x \o y) \o r = x \o (y \o r)
        BY ConcatAssociative
      <4>4. QED
        BY <4>1, <4>2, <4>3
    <3>2. QED
      BY <1>1, <2>0, <2>2, <2>3, <2>5, <3>1, Zenon
  <2>8. DataInv'
    BY <1>1, <1>7, <2>0, <2>7, StagesDiffer, Zenon DEF DataInv
  <2>10. QED
    BY <2>4, <2>8
<1>8. CASE /\ Full(len) /\ holdbuf_len = 0 /\ ROTATE_TCPDUMP_BUFFERS /\ Write(holdbuf, 0, r)
  <2>0. rotating = <<>> /\ holdbuf # storebuf /\ recorded = (stream \o HoldData) \o StoreData
    BY <1>8 DEF Spoils, DataInv
  <2>1. holdbuf' = storebuf /\ holdbuf_len' = storebuf_len /\ storebuf' = holdbuf
    BY <1>8 DEF ROTATE_TCPDUMP_BUFFERS
  <2>2. 0 \in Nat /\ 0 + Len(r) = Len(r) /\ 0 + Len(r) <= BufSize
    BY <1>2, <1>3
  <2>3. /\ buf'[storebuf] = buf[storebuf]
        /\ SubSeq(buf'[holdbuf], 1, 0 + Len(r)) = SubSeq(buf[holdbuf], 1, 0) \o r
        /\ storebuf_len' = 0 + Len(r) /\ recorded' = recorded \o r
    BY <1>2, <1>8, <2>0, <2>2, WriteIs
  <2>4. SubSeq(buf[holdbuf], 1, 0) = << >> /\ << >> \o r = r
    BY SubSeqEmpty, ConcatEmptySeq
  <2>5. StoreData' = r
    BY <2>1, <2>2, <2>3, <2>4 DEF StoreData
  <2>6. reader.pos = 0 /\ reader.pc \in {"user", "wait", "test"} /\ stream \o HoldData = stream
    BY <1>8, HoldEmpty
  <2>7. HoldData' = StoreData
    BY <1>1, <2>1, <2>3, <2>6 DEF HoldData, StoreData
  <2>9. recorded' = (stream' \o HoldData') \o StoreData'
    BY <1>1, <2>0, <2>3, <2>5, <2>6, <2>7, Zenon
  <2>11. PosInv'
    BY <1>1, <1>2, <2>1, <2>6 DEF PosInv
  <2>12. DataInv'
    BY <1>1, <2>0, <2>1, <2>9, StagesDiffer DEF DataInv
  <2>14. QED
    BY <2>11, <2>12
<1>9. CASE UNCHANGED <<bufs, tick_counter, recorded>>
  <2>1. UNCHANGED <<buf, holdbuf, storebuf, tempPtr, holdbuf_len, storebuf_len>>
    BY <1>9 DEF bufs
  <2>2. PosInv'
    BY <1>1, <2>1 DEF PosInv
  <2>4. DataInv'
    BY <1>1, <1>9, <2>1, DataStays
  <2>6. QED
    BY <2>2, <2>4
<1>10. QED
  BY <1>3, <1>7, <1>8, <1>9 DEF handle_tcpdump

LEMMA PacketKeeps ==
    ASSUME TraceInv, NEW len \in Lengths, handle_tcpdump(len)
    PROVE  TraceInv'
<1>1. StateInv' /\ CountInv'
  BY PacketState DEF TraceInv
<1>2. raced' = (raced \/ Spoils(len))
  BY DEF handle_tcpdump
<1>3. raced \/ Spoils(len) \/ SoundInv'
  BY PacketSound DEF TraceInv
<1>4. QED
  BY <1>1, <1>2, <1>3 DEF TraceInv
-----------------------------------------------------------------------------
(* The rotation of hopclock.                                                 *)

LEMMA HopClockKeeps ==
    ASSUME TraceInv, hopclock
    PROVE  TraceInv'
<1>1. /\ rotating = <<>> /\ tick_counter' = IF tick_counter + 1 >= HZ THEN 0 ELSE tick_counter + 1
      /\ UNCHANGED <<buf, holdbuf, storebuf, tempPtr, holdbuf_len, storebuf_len,
                     dropcount, capturelength, reader, raced, traced, recorded, stream>>
  BY DEF hopclock, bufs
<1>2. rotating' = <<>> \/ (rotating' = Statements /\ holdbuf_len = 0)
  BY DEF hopclock
<1>3. HZ \in Nat /\ HZ > 0 /\ tick_counter' \in 0..HZ
  BY <1>1, Sizes DEF TraceInv, StateInv
<1>4. StateInv'
  BY <1>1, <1>2, <1>3 DEF TraceInv, StateInv
<1>5. CountInv'
  BY <1>1 DEF TraceInv, CountInv, Recorded
<1>6. ASSUME SoundInv PROVE SoundInv'
  <2>1. PosInv'
    BY <1>1, <1>6 DEF SoundInv, PosInv
  <2>2. HoldData' = HoldData /\ StoreData' = StoreData
    BY <1>1 DEF HoldData, StoreData
  <2>3. holdbuf # storebuf /\ recorded = (stream \o HoldData) \o StoreData
    BY <1>1, <1>6 DEF SoundInv, DataInv
  <2>4. recorded' = (stream' \o HoldData') \o StoreData'
    BY <1>1, <2>2, <2>3, Zenon
  <2>5. DataInv'
    BY <1>1, <1>2, <2>3, <2>4, StagesDiffer DEF DataInv
  <2>6. QED
    BY <2>1, <2>5 DEF SoundInv
<1>7. QED
  BY <1>1, <1>4, <1>5, <1>6 DEF TraceInv

\* One statement of the rotation after the other.
LEMMA RotationState ==
    ASSUME StateInv, tcpdump_handle_inactivity
    PROVE  StateInv'
<1>1. /\ rotating # <<>> /\ Execute(Head(rotating)) /\ rotating' = Tail(rotating)
      /\ UNCHANGED <<buf, dropcount, capturelength, tick_counter, reader, raced, traced, recorded, stream>>
  BY DEF tcpdump_handle_inactivity, Execute
<1>2. rotating' \in {<<>>, Left1, Left2, Left3, Left4}
  BY <1>1, Stages DEF StateInv
<1>3. /\ holdbuf' \in {1, 2} /\ storebuf' \in {1, 2} /\ tempPtr' \in {1, 2}
  BY <1>1 DEF StateInv, Execute
<1>4. holdbuf_len' \in 0..(BufSize - 1) /\ storebuf_len' \in 0..(BufSize - 1)
  BY <1>1, Sizes DEF StateInv, Execute
<1>5. QED
  BY <1>1, <1>2, <1>3, <1>4 DEF StateInv

LEMMA RotationSound ==
    ASSUME StateInv, SoundInv, tcpdump_handle_inactivity
    PROVE  SoundInv'
<1> USE DEF SoundInv
<1>1. /\ rotating # <<>> /\ Execute(Head(rotating)) /\ rotating' = Tail(rotating)
      /\ UNCHANGED <<buf, reader, recorded, stream>>
  BY DEF tcpdump_handle_inactivity, Execute
<1>2. /\ BufSize \in Nat /\ storebuf_len \in 0..(BufSize - 1) /\ BufSize > 0
      /\ holdbuf \in {1, 2} /\ storebuf \in {1, 2} /\ tempPtr \in {1, 2}
  BY Sizes DEF StateInv
<1>3. CASE rotating = Statements
  <2>1. /\ tempPtr' = holdbuf /\ UNCHANGED <<holdbuf, holdbuf_len, storebuf, storebuf_len>> /\ rotating' = Left1
    BY <1>1, <1>3, Stages DEF Execute
  <2>2. holdbuf # storebuf /\ holdbuf_len = 0 /\ recorded = (stream \o HoldData) \o StoreData
    BY <1>3 DEF DataInv
  <2>4. PosInv'
    BY <1>1, <2>1 DEF PosInv
  <2>5. StoreData' = StoreData /\ HoldData' = HoldData
    BY <1>1, <2>1 DEF StoreData, HoldData
  <2>6. recorded' = (stream' \o HoldData') \o StoreData'
    BY <1>1, <2>2, <2>5, Zenon
  <2>7. DataInv'
    BY <2>1, <2>2, <2>6, StagesDiffer DEF DataInv
  <2>8. QED
    BY <2>4, <2>7
<1>4. CASE rotating = Left1
  <2>1. /\ holdbuf' = storebuf /\ UNCHANGED <<tempPtr, holdbuf_len, storebuf, storebuf_len>> /\ rotating' = Left2
    BY <1>1, <1>4, Stages DEF Execute
  <2>2. /\ holdbuf # storebuf /\ holdbuf_len = 0 /\ recorded = (stream \o HoldData) \o StoreData
        /\ tempPtr = holdbuf
    BY <1>4 DEF DataInv
  <2>4. PosInv'
    BY <1>1, <2>1 DEF PosInv
  <2>5. StoreData' = StoreData /\ HoldData' = HoldData
    <3>1. reader.pos = 0 /\ HoldData = << >>
      BY <2>2, HoldEmpty
    <3>2. SubSeq(buf[storebuf], 0 + 1, 0) = << >>
      BY PartEmpty
    <3>3. QED
      BY <1>1, <2>1, <2>2, <3>1, <3>2 DEF StoreData, HoldData
  <2>6. recorded' = (stream' \o HoldData') \o StoreData'
    BY <1>1, <2>2, <2>5, Zenon
  <2>7. DataInv'
    BY <2>1, <2>2, <2>6, StagesDiffer DEF DataInv
  <2>8. QED
    BY <2>4, <2>7
<1>5. CASE rotating = Left2
  <2>1. /\ holdbuf_len' = storebuf_len /\ UNCHANGED <<tempPtr, holdbuf, storebuf, storebuf_len>> /\ rotating' = Left3
    BY <1>1, <1>5, Stages DEF Execute
  <2>2. /\ holdbuf = storebuf /\ tempPtr # storebuf /\ holdbuf_len = 0
        /\ recorded = (stream \o HoldData) \o StoreData
    BY <1>5 DEF DataInv
  <2>3. reader.pos = 0 /\ reader.pc \in {"user", "wait", "test"} /\ stream \o HoldData = stream
    BY <2>2, HoldEmpty
  <2>4. PosInv'
    BY <1>1, <1>2, <2>1, <2>3 DEF PosInv
  <2>5. HoldData' = StoreData
    BY <1>1, <2>1, <2>2, <2>3 DEF StoreData, HoldData
  <2>6. recorded' = stream' \o HoldData'
    BY <1>1, <2>2, <2>3, <2>5, Zenon
  <2>7. DataInv'
    BY <2>1, <2>2, <2>6, StagesDiffer DEF DataInv
  <2>8. QED
    BY <2>4, <2>7
<1>6. CASE rotating = Left3
  <2>1. /\ storebuf' = tempPtr /\ UNCHANGED <<tempPtr, holdbuf, holdbuf_len, storebuf_len>> /\ rotating' = Left4
    BY <1>1, <1>6, Stages DEF Execute
  <2>2. holdbuf = storebuf /\ tempPtr # storebuf /\ recorded = stream \o HoldData
    BY <1>6 DEF DataInv
  <2>4. PosInv'
    BY <1>1, <2>1 DEF PosInv
  <2>5. HoldData' = HoldData
    BY <1>1, <2>1 DEF HoldData
  <2>6. recorded' = stream' \o HoldData'
    BY <1>1, <2>2, <2>5, Zenon
  <2>7. DataInv'
    BY <2>1, <2>2, <2>6, StagesDiffer DEF DataInv
  <2>8. QED
    BY <2>4, <2>7
<1>7. CASE rotating = Left4
  <2>1. /\ storebuf_len' = 0 /\ UNCHANGED <<tempPtr, holdbuf, holdbuf_len, storebuf>> /\ rotating' = <<>>
    BY <1>1, <1>7, Stages DEF Execute
  <2>2. holdbuf # storebuf /\ recorded = stream \o HoldData
    BY <1>7 DEF DataInv
  <2>4. PosInv'
    BY <1>1, <2>1 DEF PosInv
  <2>5. HoldData' = HoldData /\ StoreData' = << >>
    <3>1. SubSeq(buf[storebuf], 1, 0) = << >>
      BY SubSeqEmpty
    <3>2. QED
      BY <1>1, <2>1, <3>1 DEF StoreData, HoldData
  <2>6. (stream \o HoldData) \o << >> = stream \o HoldData
    <3>1. stream \o HoldData \in Seq(Byte)
      BY Parts, ConcatProperties DEF StateInv
    <3>2. QED
      BY <3>1, ConcatEmptySeq
  <2>7. recorded' = (stream' \o HoldData') \o StoreData'
    BY <1>1, <2>2, <2>5, <2>6, Zenon
  <2>8. DataInv'
    BY <2>1, <2>2, <2>7, StagesDiffer DEF DataInv
  <2>9. QED
    BY <2>4, <2>8
<1>8. QED
  BY <1>1, <1>3, <1>4, <1>5, <1>6, <1>7 DEF StateInv

LEMMA RotationKeeps ==
    ASSUME TraceInv, tcpdump_handle_inactivity
    PROVE  TraceInv'
<1>1. UNCHANGED <<raced, dropcount, traced, recorded>>
  BY DEF tcpdump_handle_inactivity
<1>2. CountInv'
  BY <1>1 DEF TraceInv, CountInv, Recorded
<1>3. QED
  BY <1>1, <1>2, RotationState, RotationSound DEF TraceInv

LEMMA SetCaptureKeeps ==
    ASSUME TraceInv, NEW n \in CaptureLengths, set_capturelength(n)
    PROVE  TraceInv'
<1>1. /\ capturelength' = n /\ n \in Nat
      /\ UNCHANGED <<buf, holdbuf, storebuf, tempPtr, holdbuf_len, storebuf_len, dropcount, tick_counter,
                     rotating, reader, raced, traced, recorded, stream>>
  BY Sizes DEF set_capturelength, bufs
<1>2. StateInv' /\ CountInv'
  BY <1>1 DEF TraceInv, StateInv, CountInv, Recorded
<1>3. SoundInv => SoundInv'
  <2>1. PosInv => PosInv'
    BY <1>1 DEF PosInv
  <2>2. DataInv => DataInv'
    BY <1>1, DataStays
  <2>3. QED
    BY <2>1, <2>2 DEF SoundInv
<1>4. QED
  BY <1>1, <1>2, <1>3 DEF TraceInv
-----------------------------------------------------------------------------
(* The theorems.                                                              *)

LEMMA InitKeeps ==
    ASSUME Init
    PROVE  TraceInv
<1>1. /\ holdbuf = 1 /\ storebuf = 2 /\ tempPtr = 1 /\ holdbuf_len = 0 /\ storebuf_len = 0
      /\ dropcount = 0 /\ tick_counter = 0 /\ rotating = <<>> /\ traced = 0 /\ raced = FALSE
      /\ reader = [pc |-> "user", pos |-> 0, want |-> 0] /\ recorded = <<>> /\ stream = <<>>
      /\ buf = [b \in {1, 2} |-> [i \in 1..BufSize |-> <<0, 0>>]] /\ capturelength \in CaptureLengths
  BY DEF Init
<1>2. buf \in [{1, 2} -> Block]
  BY <1>1 DEF Block, Byte
<1>3. << >> \in Seq(Byte)
  OBVIOUS
<1>4. StateInv
  <2>1. raced \in BOOLEAN
    BY <1>1, Zenon
  <2>2. capturelength \in Nat /\ 0 \in 0..HZ /\ 0 \in 0..(BufSize - 1)
    BY <1>1, Sizes
  <2>3. reader \in [pc : {"user", "wait", "test", "copy", "end"}, pos : Nat, want : Nat]
    BY <1>1
  <2>4. rotating \in {<<>>, Statements, Left1, Left2, Left3, Left4}
    BY <1>1
  <2>5. /\ holdbuf \in {1, 2} /\ storebuf \in {1, 2} /\ tempPtr \in {1, 2}
        /\ holdbuf_len \in 0..(BufSize - 1) /\ storebuf_len \in 0..(BufSize - 1) /\ tick_counter \in 0..HZ
    BY <1>1, <2>2
  <2>6. QED
    BY <1>1, <1>2, <1>3, <2>1, <2>2, <2>3, <2>4, <2>5 DEF StateInv
<1>5. PosInv
  BY <1>1 DEF PosInv
<1>6. HoldData = << >> /\ StoreData = << >>
  <2>1. SubSeq(buf[holdbuf], 0 + 1, 0) = << >> /\ SubSeq(buf[storebuf], 1, 0) = << >>
    BY SubSeqEmpty
  <2>2. reader.pos = 0
    BY <1>1
  <2>3. QED
    BY <1>1, <2>1, <2>2 DEF HoldData, StoreData
<1>7. recorded = (stream \o HoldData) \o StoreData
  <2>1. << >> \o << >> = << >>
    BY <1>3, ConcatEmptySeq
  <2>2. QED
    BY <1>1, <1>6, <2>1, Zenon
<1>8. DataInv
  BY <1>1, <1>7, StagesDiffer DEF DataInv
<1>9. CountInv
  <2>1. Recorded = {}
    BY <1>1 DEF Recorded
  <2>2. Cardinality({}) = 0
    BY FS_EmptySet
  <2>3. QED
    BY <1>1, <2>1, <2>2, Sizes DEF CountInv
<1>10. QED
  BY <1>4, <1>5, <1>8, <1>9 DEF TraceInv, SoundInv

\* The bytes are where they belong at every statement of hopclock's rotation, whoever
\* runs in between, until a packet spoils one.
THEOREM TraceInvariant == Spec => []TraceInv
<1>1. Init => TraceInv
  BY InitKeeps
<1>2. TraceInv /\ [Next]_vars => TraceInv'
  <2> SUFFICES ASSUME TraceInv, [Next]_vars PROVE TraceInv'
    OBVIOUS
  <2>1. CASE UNCHANGED vars
    <3>1. UNCHANGED <<buf, holdbuf, storebuf, tempPtr, holdbuf_len, storebuf_len, dropcount, capturelength,
                      tick_counter, rotating, reader, raced, traced, recorded, stream>>
      BY <2>1 DEF vars, bufs
    <3>2. StateInv' /\ CountInv'
      BY <3>1 DEF TraceInv, StateInv, CountInv, Recorded
    <3>3. PosInv => PosInv'
      BY <3>1 DEF PosInv
    <3>4. DataInv => DataInv'
      BY <3>1, DataStays
    <3>5. QED
      BY <3>1, <3>2, <3>3, <3>4 DEF TraceInv, SoundInv
  <2>2. QED
    BY <2>1, PacketKeeps, SetCaptureKeeps, HopClockKeeps, RotationKeeps, ReaderKeeps DEF Next
<1>3. QED
  BY <1>1, <1>2, PTL DEF Spec

\* The invariant gives the properties.
LEMMA TraceGives ==
    ASSUME TraceInv
    PROVE  TypeOK /\ EveryByteOnce /\ NeverEOF
<1> USE DEF TraceInv
<1>1. TypeOK
  <2>1. BufSize \in Nat /\ MaxPackets \in Nat
    BY Sizes
  <2>2. dropcount \in 0..MaxPackets
    <3>1. IsFiniteSet(1..traced) /\ Recorded \subseteq 1..traced
      BY FS_Interval DEF CountInv
    <3>2. Cardinality(Recorded) \in Nat
      BY <3>1, FS_Subset, FS_CardinalityType
    <3>3. QED
      BY <2>1, <3>2 DEF CountInv
  <2>3. ~raced => reader.pos \in 0..holdbuf_len
    BY Parts DEF SoundInv
  <2>4. holdbuf_len \in 0..(BufSize - 1) /\ reader.pos \in Nat
        /\ reader.pc \in {"user", "wait", "test", "copy", "end"}
    BY DEF StateInv
  <2>5. ~raced => reader.pos <= BufSize
    BY <2>1, <2>3, <2>4
  <2>6. QED
    BY <2>1, <2>2, <2>4, <2>5 DEF StateInv, TypeOK
<1>2. EveryByteOnce
  <2>0. Cardinality({recorded[i][1] : i \in 1..Len(recorded)}) + dropcount = traced
    BY DEF CountInv, Recorded
  <2>1. ASSUME ~raced, rotating = <<>> PROVE AllThere
    <3>1. recorded = (stream \o HoldData) \o StoreData
      BY <2>1 DEF SoundInv, DataInv
    <3>2. reader.pos \in 0..holdbuf_len /\ holdbuf_len \in Nat
      BY <2>1, Parts DEF SoundInv, StateInv
    <3>3. ~(reader.pos > holdbuf_len) /\ 0 + 1 = 1
      BY <3>2
    <3>4. HoldData = InUse(holdbuf, IF reader.pos > holdbuf_len THEN holdbuf_len ELSE reader.pos, holdbuf_len)
      BY <3>3 DEF HoldData, InUse
    <3>5. StoreData = InUse(storebuf, 0, storebuf_len)
      BY <3>3 DEF StoreData, InUse
    <3>6. QED
      BY <3>1, <3>4, <3>5, Zenon DEF AllThere
  <2>2. QED
    BY <2>0, <2>1 DEF EveryByteOnce, AllThere
<1>3. NeverEOF
  BY DEF SoundInv, PosInv, NeverEOF
<1>4. QED
  BY <1>1, <1>2, <1>3

\* handle_tcpdump writes nothing beyond the end of a buffer, whatever it interrupts, and
\* the reader reads nothing there until a packet has spoilt a rotation.
THEOREM TypeCorrect == Spec => []TypeOK
BY TraceInvariant, TraceGives, PTL

\* For any size of the buffers, with packets and the reader inside hopclock's rotation:
\* every byte of every record reaches the reader once and in order, or is still in one of
\* the buffers, until a packet that comes there rotates the buffers itself or is recorded
\* after the length was taken; and every packet without a record is counted, always.
THEOREM NoByteLost == Spec => []EveryByteOnce
BY TraceInvariant, TraceGives, PTL

\* Until then the reader never meets an end of file.
THEOREM NoEndOfFile == Spec => []NeverEOF
BY TraceInvariant, TraceGives, PTL
=============================================================================
