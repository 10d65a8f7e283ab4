--------------------------- MODULE TcpdumpBuffers ---------------------------
(***************************************************************************)
(* The link traces of the Linux module (mn_tcpdump.c, compiled with         *)
(* MN_TCPDUMP).  handle_tcpdump appends a record for every packet on a      *)
(* traced link to the store buffer; when that is full, or a second has      *)
(* passed, it is exchanged with the hold buffer, provided that one has been *)
(* read to its end; proc_read_dumps copies the hold buffer to the one       *)
(* program that reads /proc/sys/modelnet/tcpdump/dumps.                     *)
(*                                                                          *)
(* One processor.  handle_tcpdump runs in a softirq and is one step.  The   *)
(* reader and hopclock run in process context and hold no lock: a packet    *)
(* comes between any two of their statements, also inside the rotation, and *)
(* so does the other of the two.  A byte of a record is a pair of the       *)
(* record and its offset; the length of the header is one unit.             *)
(***************************************************************************)
EXTENDS Integers, Sequences, FiniteSets

CONSTANTS BufSize,      \* TCPDUMP_BUF_SIZE
          Lengths,      \* lengths of packets
          CaptureLengths, \* values of tcpdump_capturelength; 0 captures all
          HZ,
          MaxRead,      \* the largest read(2) of the reader
          MaxPackets,   \* packets on traced links
          MaxFaults     \* how often copy_to_user falls short, or a signal
                        \* interrupts the reader

HdrLen == 1  \* sizeof(struct mn_tcpdump_hdr)

ASSUME TcpdumpAssumption ==
    /\ {BufSize, HZ, MaxRead} \subseteq Nat \ {0}
    /\ {MaxPackets, MaxFaults} \cup CaptureLengths \subseteq Nat
    /\ Lengths \subseteq 1..(BufSize - HdrLen - 1)

VARIABLES buf,        \* the two blocks of memory
          holdbuf, storebuf, tempPtr,  \* which of them these point to
          holdbuf_len, storebuf_len,
          dropcount,
          capturelength,
          tick_counter,
          rotating,   \* statements of the rotation hopclock has yet to execute
          reader,     \* [pc, pos, want]: in proc_read_dumps; *ppos; *lenp
          raced,      \* history: a packet has spoilt a rotation of hopclock's
          traced,     \* history: packets seen on traced links
          recorded,   \* history: the bytes of all records written, in order
          stream,     \* what the reader has got, in order
          faults

bufs == <<buf, holdbuf, storebuf, tempPtr, holdbuf_len, storebuf_len>>
vars == <<bufs, dropcount, capturelength, tick_counter, rotating, reader, raced, traced,
          recorded, stream, faults>>

\* init_mn_tcpdump_buffers.
Init == /\ buf = [b \in {1, 2} |-> [i \in 1..BufSize |-> <<0, 0>>]]
        /\ holdbuf = 1 /\ storebuf = 2 /\ tempPtr = 1
        /\ holdbuf_len = 0 /\ storebuf_len = 0
        /\ dropcount = 0
        /\ capturelength \in CaptureLengths
        /\ tick_counter = 0
        /\ rotating = <<>>
        /\ reader = [pc |-> "user", pos |-> 0, want |-> 0]
        /\ raced = FALSE
        /\ traced = 0
        /\ recorded = <<>> /\ stream = <<>>
        /\ faults = 0
-----------------------------------------------------------------------------
(* ROTATE_TCPDUMP_BUFFERS, as one step and statement by statement.           *)

ROTATE_TCPDUMP_BUFFERS ==
    /\ tempPtr' = holdbuf
    /\ holdbuf' = storebuf
    /\ holdbuf_len' = storebuf_len
    /\ storebuf' = holdbuf

\* The statements of the macro in their order.
Statements == <<"temp", "hold", "hold_len", "store", "store_len">>

Execute(statement) ==
    /\ tempPtr' = IF statement = "temp" THEN holdbuf ELSE tempPtr
    /\ holdbuf' = IF statement = "hold" THEN storebuf ELSE holdbuf
    /\ holdbuf_len' = IF statement = "hold_len" THEN storebuf_len ELSE holdbuf_len
    /\ storebuf' = IF statement = "store" THEN tempPtr ELSE storebuf
    /\ storebuf_len' = IF statement = "store_len" THEN 0 ELSE storebuf_len
    /\ UNCHANGED buf
-----------------------------------------------------------------------------
Smaller(a, b) == IF a < b THEN a ELSE b

\* No room for the packet, whatever part of it will be captured; the faulty variant
\* counts the header alone.
Full_header(len) == storebuf_len + HdrLen >= BufSize
Full(len) == storebuf_len + len + HdrLen >= BufSize

Captured(len) == IF capturelength = 0 THEN len ELSE Smaller(len, capturelength)

\* The bytes of the record of packet n.
Record(n, len) == [i \in 1..(HdrLen + Captured(len)) |-> <<n, i>>]

\* Append record r to block b, which is in use up to at.
Write(b, at, r) ==
    /\ buf' = [buf EXCEPT ![b] =
                [i \in 1..BufSize |-> IF i \in (at + 1)..(at + Len(r)) THEN r[i - at] ELSE @[i]]]
    /\ storebuf_len' = at + Len(r)
    /\ recorded' = recorded \o r

\* A packet that comes inside hopclock's rotation spoils it when it rotates the
\* buffers itself, or when it is recorded after the length of the store buffer has
\* been taken.
Spoils(len) == rotating # <<>> /\ (IF Full(len) THEN holdbuf_len = 0 ELSE Len(rotating) <= 2)

\* handle_tcpdump, for a packet of length len on a traced link.  The faulty
\* variant rotates onto a hold buffer that has not been read.
handle_tcpdump_force(len) ==
    /\ traced < MaxPackets
    /\ traced' = traced + 1
    /\ raced' = (raced \/ Spoils(len))
    /\ LET r == Record(traced + 1, len)
       IN  \/ /\ ~Full(len)
              /\ Write(storebuf, storebuf_len, r)
              /\ UNCHANGED <<holdbuf, storebuf, tempPtr, holdbuf_len, tick_counter>>
           \/ /\ Full(len)
              /\ tick_counter' = 0
              /\ ROTATE_TCPDUMP_BUFFERS
              /\ Write(holdbuf, 0, r)
    /\ UNCHANGED <<dropcount, capturelength, rotating, reader, stream, faults>>

handle_tcpdump(len) ==
    /\ traced < MaxPackets
    /\ traced' = traced + 1
    /\ raced' = (raced \/ Spoils(len))
    /\ LET r == Record(traced + 1, len)
       IN  \/ /\ ~Full(len)
              /\ Write(storebuf, storebuf_len, r)
              /\ UNCHANGED <<holdbuf, storebuf, tempPtr, holdbuf_len, dropcount, tick_counter>>
           \/ /\ Full(len) /\ holdbuf_len = 0
              /\ tick_counter' = 0
              /\ ROTATE_TCPDUMP_BUFFERS
              /\ Write(holdbuf, 0, r)
              /\ UNCHANGED dropcount
           \/ /\ Full(len) /\ holdbuf_len # 0
              /\ dropcount' = dropcount + 1
              /\ UNCHANGED <<bufs, tick_counter, recorded>>
    /\ UNCHANGED <<capturelength, rotating, reader, stream, faults>>

\* hopclock's share: every HZ ticks it calls tcpdump_handle_inactivity, which
\* tests and then rotates.  In the faulty variant the second never comes.
hopclock_never ==
    /\ rotating = <<>>
    /\ tick_counter' = (tick_counter + 1) % HZ
    /\ UNCHANGED <<bufs, dropcount, capturelength, rotating, reader, raced, traced, recorded,
                   stream, faults>>

hopclock ==
    /\ rotating = <<>>
    /\ tick_counter' = IF tick_counter + 1 >= HZ THEN 0 ELSE tick_counter + 1
    /\ rotating' = IF tick_counter + 1 >= HZ /\ holdbuf_len = 0 /\ storebuf_len # 0
                   THEN Statements ELSE <<>>
    /\ UNCHANGED <<bufs, dropcount, capturelength, reader, raced, traced, recorded, stream, faults>>

tcpdump_handle_inactivity ==
    /\ rotating # <<>>
    /\ Execute(Head(rotating))
    /\ rotating' = Tail(rotating)
    /\ UNCHANGED <<dropcount, capturelength, tick_counter, reader, raced, traced, recorded,
                   stream, faults>>

\* A write of /proc/sys/modelnet/tcpdump/capturelength.
set_capturelength(n) ==
    /\ capturelength # n /\ traced < MaxPackets
    /\ capturelength' = n
    /\ UNCHANGED <<bufs, dropcount, tick_counter, rotating, reader, raced, traced, recorded,
                   stream, faults>>
-----------------------------------------------------------------------------
(* proc_read_dumps.                                                          *)

Unread == UNCHANGED <<buf, holdbuf, storebuf, tempPtr, storebuf_len, dropcount, capturelength,
                      tick_counter, rotating, raced, traced, recorded>>

\* The call; at the end of a buffer that is still held it returns nothing.
read(want) ==
    /\ reader.pc = "user"
    /\ ~(reader.pos >= holdbuf_len /\ holdbuf_len # 0)
    /\ reader' = [reader EXCEPT !.pc = "wait", !.want = want]
    /\ UNCHANGED <<holdbuf_len, stream, faults>> /\ Unread

\* wait_event_interruptible.
read_woken ==
    /\ reader.pc = "wait"
    /\ holdbuf_len # 0
    /\ reader' = [reader EXCEPT !.pc = "copy"]
    /\ UNCHANGED <<holdbuf_len, stream, faults>> /\ Unread

\* A signal: the read fails, unless data has come in by the time of the test.
read_signalled ==
    /\ reader.pc = "wait"
    /\ holdbuf_len = 0 /\ faults < MaxFaults
    /\ reader' = [reader EXCEPT !.pc = "test"]
    /\ faults' = faults + 1
    /\ UNCHANGED <<holdbuf_len, stream>> /\ Unread

read_tested ==
    /\ reader.pc = "test"
    /\ reader' = [reader EXCEPT !.pc = IF holdbuf_len = 0 THEN "user" ELSE "copy"]
    /\ UNCHANGED <<holdbuf_len, stream, faults>> /\ Unread

\* copy_to_user and the advance of *ppos; copied may fall short of the request.  The
\* difference is unsigned, and behind the block comes whatever memory follows it.
copy_amount == IF reader.pos <= holdbuf_len
               THEN Smaller(holdbuf_len - reader.pos, reader.want) ELSE reader.want
HoldBytes(copied) == IF reader.pos + copied <= BufSize
                     THEN SubSeq(buf[holdbuf], reader.pos + 1, reader.pos + copied)
                     ELSE [i \in 1..copied |-> <<0, 0>>]

read_copied(copied) ==
    /\ reader.pc = "copy"
    /\ copied <= copy_amount
    /\ copied < copy_amount => faults < MaxFaults
    /\ faults' = IF copied < copy_amount THEN faults + 1 ELSE faults
    /\ stream' = stream \o HoldBytes(copied)
    /\ reader' = [reader EXCEPT !.pc = "end", !.pos = @ + copied]
    /\ UNCHANGED holdbuf_len /\ Unread

\* At the end of the buffer it is given up; the faulty variant keeps *ppos.
read_done_keep ==
    LET end == reader.pos >= holdbuf_len
    IN  /\ reader.pc = "end"
        /\ holdbuf_len' = IF end THEN 0 ELSE holdbuf_len
        /\ reader' = [reader EXCEPT !.pc = "user"]
        /\ UNCHANGED <<stream, faults>> /\ Unread

read_done ==
    LET end == reader.pos >= holdbuf_len
    IN  /\ reader.pc = "end"
        /\ holdbuf_len' = IF end THEN 0 ELSE holdbuf_len
        /\ reader' = [reader EXCEPT !.pc = "user", !.pos = IF end THEN 0 ELSE @]
        /\ UNCHANGED <<stream, faults>> /\ Unread

Reader == \/ \E n \in 1..MaxRead : read(n)
          \/ read_woken
          \/ read_signalled
          \/ read_tested
          \/ \E n \in 0..MaxRead : read_copied(n)
          \/ read_done
-----------------------------------------------------------------------------
Next == \/ \E len \in Lengths : handle_tcpdump(len)
        \/ \E n \in CaptureLengths : set_capturelength(n)
        \/ hopclock
        \/ tcpdump_handle_inactivity
        \/ Reader

\* hopclock runs in every tick and finishes; the reader goes on reading.
Fairness == /\ WF_vars(hopclock)
            /\ WF_vars(tcpdump_handle_inactivity)
            /\ WF_vars(Reader)

Spec == Init /\ [][Next]_vars /\ Fairness
-----------------------------------------------------------------------------
\* Type: in particular handle_tcpdump writes nothing beyond the end of a buffer,
\* whatever it interrupts, and proc_read_dumps reads nothing there unless a packet
\* has spoilt a rotation.
TypeOK ==
    /\ {holdbuf, storebuf, tempPtr} \subseteq {1, 2}
    /\ holdbuf_len \in 0..BufSize /\ storebuf_len \in 0..BufSize
    /\ dropcount \in 0..MaxPackets
    /\ tick_counter \in 0..HZ
    /\ raced \in BOOLEAN
    /\ reader.pos \in Nat /\ (~raced => reader.pos <= BufSize)
    /\ reader.pc \in {"user", "wait", "test", "copy", "end"}

\* What the reader has got, what is left of the hold buffer and the store buffer
\* are together the records that were written, every byte once and in order
\* (outside the rotation, which takes them through intermediate places).
InUse(b, from, to) == SubSeq(buf[b], from + 1, to)
AllThere ==
    rotating = <<>> =>
        recorded = stream \o InUse(holdbuf, IF reader.pos > holdbuf_len THEN holdbuf_len
                                            ELSE reader.pos, holdbuf_len)
                          \o InUse(storebuf, 0, storebuf_len)

\* No byte is lost, doubled or moved although packets and the reader come between the
\* statements of hopclock's rotation, until a packet that comes there rotates the
\* buffers itself or is recorded after the length was taken; and always every packet
\* on a traced link has its record or is counted in dropcount.
EveryByteOnce ==
    /\ raced \/ AllThere
    /\ Cardinality({recorded[i][1] : i \in 1..Len(recorded)}) + dropcount = traced

\* The reader never gets to an end of file, which would be a position at or beyond
\* the end of a buffer that holds data, unless a packet has spoilt a rotation.
NeverEOF == ~raced /\ reader.pc = "user" /\ holdbuf_len # 0 => reader.pos < holdbuf_len

\* The reader gets every record in the end, even when the links fall silent with
\* the store buffer half full: hopclock pushes it out (and no packet spoils that).
EverythingRead == \A n \in 1..MaxPackets :
    (traced = n) ~> (traced > n \/ stream = recorded \/ raced)
=============================================================================
