------------------------- MODULE ClientLibraryProofs -------------------------
(***************************************************************************)
(* libipaddr.c's bookkeeping of sockets is right for any descriptors and    *)
(* ports: as long as no rebind of a socket has failed, the library's bits   *)
(* say what the kernel knows, every datagram leaves with the address its    *)
(* destination calls for, and a port the application asked for is kept. The *)
(* names of the hosts file are found in the cache once the file has been    *)
(* read, until the library gives names up.                                  *)
(***************************************************************************)
EXTENDS ClientLibrary, SequenceTheorems, WellFoundedInduction, NaturalsInduction, TLAPS

Addrs   == {"none", "mnet", "real"}
AllPorts == Ports \cup {0, AnyPort}
Socket  == [kind : {"socket"}, addr : Addrs, port : AllPorts,
            peer : {"none", "core", "self", "ext"}]

\* What st can be: the kernel's table and three sets of descriptors.
State == [k : [Fds -> {Closed, File} \cup Socket],
          unbound : SUBSET Fds, mnet : SUBSET Fds, hasport : SUBSET Fds]

\* What the library and the application may count on for descriptor s, when w is
\* the kernel's and the library's state and port the one the application bound s
\* to: the bits are right, a port asked for is the socket's and marked as such,
\* and a connected socket has the address its peer calls for.
Sound(w, s, port) ==
    /\ s \in w.unbound <=> w.k[s].addr = "none"
    /\ s \in w.mnet <=> w.k[s].addr = "mnet"
    /\ port # 0 => w.k[s].port = port /\ s \in w.hasport /\ s \notin w.unbound
    /\ w.k[s].peer # "none" => w.k[s].addr = AddrFor(w.k[s].peer)

TypeInv == st \in State /\ asked \in [Fds -> Ports \cup {0}] /\ lost \subseteq Fds

\* A descriptor that is not a socket's has no history.
CleanInv == \A s \in Fds \ Sockets(st) : asked[s] = 0 /\ s \notin lost

SoundInv == \A s \in Sockets(st) \ lost : Sound(st, s, asked[s])

\* The inductive invariant.
ClientInv == TypeInv /\ CleanInv /\ SoundInv /\ RightSource
-----------------------------------------------------------------------------
(* What the operations on st return.                                         *)

\* Records of st that are sockets.
LEMMA SocketsOf ==
    ASSUME NEW w \in State
    PROVE  /\ \A s \in Fds : s \in Sockets(w) <=> w.k[s] \in Socket
           /\ Free(w) \cap Sockets(w) = {}
<1>1. ASSUME NEW s \in Fds PROVE s \in Sockets(w) <=> w.k[s] \in Socket
  <2>1. w.k[s] \in {Closed, File} \cup Socket
    BY DEF State
  <2>2. Closed.kind # "socket" /\ File.kind # "socket"
    BY DEF Closed, File
  <2>3. \A r \in Socket : r.kind = "socket"
    BY DEF Socket
  <2>4. QED
    BY <2>1, <2>2, <2>3 DEF Sockets
<1>2. Free(w) \cap Sockets(w) = {}
  BY DEF Free, Sockets, Closed
<1>3. QED
  BY <1>1, <1>2

\* A socket record is made of its four fields.
LEMMA SocketFields ==
    ASSUME NEW a \in Addrs, NEW p \in AllPorts, NEW q \in {"none", "core", "self", "ext"}
    PROVE  [kind |-> "socket", addr |-> a, port |-> p, peer |-> q] \in Socket
BY DEF Socket

\* A process starts with no sockets and no files, and has none when it is dead.
LEMMA NothingOpen ==
    NoSockets \in State /\ Sockets(NoSockets) = {} /\ \A s \in Fds : NoSockets.k[s] = Closed
<1>1. NoSockets \in State /\ NoSockets.k = [s \in Fds |-> Closed]
  BY DEF NoSockets, State
<1>2. QED
  BY <1>1 DEF Sockets, Closed

\* A new socket is a socket.
LEMMA UnboundIsSocket == Unbound \in Socket
BY SocketFields DEF Unbound, Addrs, AllPorts

\* A nonempty set of numbers has a least one.
LEMMA LeastOf ==
    ASSUME NEW s \in SUBSET Nat, s # {}
    PROVE  \E x \in s : \A y \in s : x <= y
<1>1. \E x \in s : \A y \in s : ~(<<y, x>> \in OpToRel(<, Nat))
  BY NatLessThanWellFounded, WFMin
<1>2. PICK x \in s : \A y \in s : ~(<<y, x>> \in OpToRel(<, Nat))
  BY <1>1
<1>3. ASSUME NEW y \in s PROVE x <= y
  <2>1. y \in Nat /\ x \in Nat
    OBVIOUS
  <2>2. ASSUME y < x PROVE FALSE
    <3>1. <<y, x>> \in Nat \X Nat /\ <<y, x>>[1] < <<y, x>>[2]
      BY <2>1, <2>2
    <3>2. <<y, x>> \in OpToRel(<, Nat)
      BY <3>1, Zenon DEF OpToRel
    <3>3. QED
      BY <3>2, <1>2
  <2>3. QED
    BY <2>1, <2>2
<1>4. QED
  BY <1>3

\* Where there is a free descriptor, the kernel finds one.
LEMMA NewFdIsFree ==
    ASSUME NEW w \in State, Free(w) # {}
    PROVE  NewFd(w) \in Free(w)
<1>1. Free(w) \in SUBSET Nat
  BY ClientAssumption DEF Free, ClientAssumption
<1>2. PICK x \in Free(w) : \A y \in Free(w) : x <= y
  BY <1>1, LeastOf
<1>3. QED
  BY <1>2 DEF NewFd

\* One descriptor's entry is replaced and its three bits are set or cleared:
\* v differs from w at most in what concerns s.
Elsewhere(v, w, s) ==
    \A t \in Fds \ {s} : /\ v.k[t] = w.k[t]
                         /\ t \in v.unbound <=> t \in w.unbound
                         /\ t \in v.mnet <=> t \in w.mnet
                         /\ t \in v.hasport <=> t \in w.hasport

\* bind_to changes the socket's address and port and its three bits.
LEMMA BindTo ==
    ASSUME NEW w \in State, NEW s \in Sockets(w), NEW addr \in {"mnet", "real"},
           NEW port \in AllPorts
    PROVE  LET v == bind_to(w, s, addr, port)
           IN  /\ v \in State /\ Elsewhere(v, w, s) /\ s \in Sockets(v)
               /\ v.k[s].addr = addr /\ v.k[s].peer = w.k[s].peer
               /\ port # 0 => v.k[s].port = port
               /\ s \notin v.unbound
               /\ s \in v.mnet <=> addr = "mnet"
               /\ s \in v.hasport <=> port # 0
<1> DEFINE v == bind_to(w, s, addr, port)
           r == [w.k[s] EXCEPT !.addr = addr, !.port = IF port = 0 THEN AnyPort ELSE port]
<1>1. s \in Fds /\ w.k[s] \in Socket
  BY SocketsOf DEF Sockets
<1>2. r \in Socket /\ r.addr = addr /\ r.peer = w.k[s].peer /\ (port # 0 => r.port = port)
  BY <1>1 DEF Socket, Addrs, AllPorts
<1>3. v = [w EXCEPT !.k = [w.k EXCEPT ![s] = r],
                    !.unbound = w.unbound \ {s},
                    !.mnet = IF addr = "mnet" THEN w.mnet \cup {s} ELSE w.mnet \ {s},
                    !.hasport = IF port # 0 THEN w.hasport \cup {s} ELSE w.hasport \ {s}]
  <2> DEFINE pp == IF port = 0 THEN AnyPort ELSE port
             k1 == [w.k EXCEPT ![s] = [w.k[s] EXCEPT !.addr = addr]]
  <2>1. w.k \in [Fds -> {Closed, File} \cup Socket]
    BY DEF State
  <2>2. k1[s] = [w.k[s] EXCEPT !.addr = addr]
    BY <1>1, <2>1
  <2>3. [k1[s] EXCEPT !.port = pp] = r
    BY <1>1, <2>2 DEF Socket
  <2>4. [k1 EXCEPT ![s] = [k1[s] EXCEPT !.port = pp]] = [w.k EXCEPT ![s] = r]
    <3> HIDE DEF r
    <3> QED BY <1>1, <2>1, <2>3
  <2>5. v = [w EXCEPT !.k = [k1 EXCEPT ![s] = [k1[s] EXCEPT !.port = pp]],
                      !.unbound = w.unbound \ {s},
                      !.mnet = IF addr = "mnet" THEN w.mnet \cup {s} ELSE w.mnet \ {s},
                      !.hasport = IF port # 0 THEN w.hasport \cup {s} ELSE w.hasport \ {s}]
    <3> DEFINE mm == IF addr = "mnet" THEN w.mnet \cup {s} ELSE w.mnet \ {s}
               hh == IF port # 0 THEN w.hasport \cup {s} ELSE w.hasport \ {s}
               x  == [w EXCEPT !.k = k1]
    <3>1. x.k = k1 /\ x.unbound = w.unbound /\ x.mnet = w.mnet /\ x.hasport = w.hasport
      BY DEF State
    <3>2. v = [x EXCEPT !.k = [x.k EXCEPT ![s] = [x.k[s] EXCEPT !.port = pp]],
                        !.unbound = w.unbound \ {s}, !.mnet = mm, !.hasport = hh]
      BY <3>1 DEF bind_to, State
    <3> QED BY <3>1, <3>2 DEF State
  <2> QED BY <2>4, <2>5
<1>4. /\ v.k = [w.k EXCEPT ![s] = r] /\ v.unbound = w.unbound \ {s}
      /\ v.mnet = IF addr = "mnet" THEN w.mnet \cup {s} ELSE w.mnet \ {s}
      /\ v.hasport = IF port # 0 THEN w.hasport \cup {s} ELSE w.hasport \ {s}
      /\ v \in State
  <2> HIDE DEF r
  <2> DEFINE kk == [w.k EXCEPT ![s] = r]
             mm == IF addr = "mnet" THEN w.mnet \cup {s} ELSE w.mnet \ {s}
             hh == IF port # 0 THEN w.hasport \cup {s} ELSE w.hasport \ {s}
  <2>1. kk \in [Fds -> {Closed, File} \cup Socket]
    BY <1>1, <1>2 DEF State
  <2>2. mm \subseteq Fds /\ hh \subseteq Fds /\ w.unbound \ {s} \subseteq Fds
    BY <1>1 DEF State
  <2> HIDE DEF v, kk, mm, hh
  <2>3. v = [w EXCEPT !.k = kk, !.unbound = w.unbound \ {s}, !.mnet = mm, !.hasport = hh]
    BY <1>3 DEF kk, mm, hh
  <2>4. v \in State /\ v.k = kk /\ v.unbound = w.unbound \ {s} /\ v.mnet = mm /\ v.hasport = hh
    BY <2>1, <2>2, <2>3 DEF State
  <2> QED BY <2>4 DEF kk, mm, hh
<1>5. v.k[s] = r
  BY <1>1, <1>4 DEF State
<1>6. Elsewhere(v, w, s)
  BY <1>1, <1>4 DEF State, Elsewhere
<1>7. s \in Sockets(v)
  BY <1>1, <1>2, <1>4, <1>5, SocketsOf
<1>8. QED
  <2> HIDE DEF v, r
  <2> QED BY <1>2, <1>4, <1>5, <1>6, <1>7 DEF v

\* The kernel's entry of one descriptor is replaced; the library's bits stay.
LEMMA Replaced ==
    ASSUME NEW w \in State, NEW s \in Fds, NEW x \in {Closed, File} \cup Socket
    PROVE  LET v == [w EXCEPT !.k = [w.k EXCEPT ![s] = x]]
           IN  /\ v \in State /\ Elsewhere(v, w, s) /\ v.k[s] = x
               /\ v.unbound = w.unbound /\ v.mnet = w.mnet /\ v.hasport = w.hasport
<1> DEFINE kk == [w.k EXCEPT ![s] = x]
           v  == [w EXCEPT !.k = kk]
<1>1. kk \in [Fds -> {Closed, File} \cup Socket] /\ kk[s] = x
      /\ \A t \in Fds \ {s} : kk[t] = w.k[t]
  BY DEF State
<1> HIDE DEF kk
<1>2. /\ v \in State /\ v.k = kk
      /\ v.unbound = w.unbound /\ v.mnet = w.mnet /\ v.hasport = w.hasport
  BY <1>1 DEF State
<1> HIDE DEF v
<1>3. Elsewhere(v, w, s) /\ v.k[s] = x
  BY <1>1, <1>2 DEF Elsewhere
<1>4. QED
  BY <1>2, <1>3 DEF v, kk

\* autobind gives an unbound socket an address and leaves the rest alone.
LEMMA Autobind ==
    ASSUME NEW w \in State, NEW s \in Sockets(w)
    PROVE  LET v == autobind(w, s)
           IN  /\ v \in State /\ Elsewhere(v, w, s) /\ s \in Sockets(v)
               /\ w.k[s].addr # "none" => v = w
<1>1. s \in Fds /\ w.k[s] \in Socket
  BY SocketsOf DEF Sockets
<1>2. CASE w.k[s].addr # "none"
  BY <1>1, <1>2 DEF autobind, Elsewhere
<1>3. CASE w.k[s].addr = "none"
  <2> DEFINE r == [w.k[s] EXCEPT !.addr = "real", !.port = AnyPort]
             v == [w EXCEPT !.k = [w.k EXCEPT ![s] = r]]
  <2>1. r \in Socket
    BY <1>1 DEF Socket, Addrs, AllPorts
  <2>2. autobind(w, s) = v
    BY <1>1, <1>3 DEF autobind, State, Socket
  <2> HIDE DEF r
  <2>3. v \in State /\ Elsewhere(v, w, s) /\ v.k[s] = r
    BY <1>1, <2>1, Replaced
  <2> HIDE DEF v
  <2>4. s \in Sockets(v)
    BY <1>1, <2>1, <2>3, SocketsOf
  <2>5. QED
    BY <1>3, <2>2, <2>3, <2>4
<1>4. QED
  BY <1>2, <1>3

\* rebind_to's new socket in the place of s.
LEMMA Renewed ==
    ASSUME NEW w \in State, NEW s \in Sockets(w)
    PROVE  LET v == [w EXCEPT !.k[s] = Unbound]
           IN  /\ v \in State /\ Elsewhere(v, w, s) /\ s \in Sockets(v) /\ v.k[s] = Unbound
               /\ v.unbound = w.unbound /\ v.mnet = w.mnet /\ v.hasport = w.hasport
<1> DEFINE v == [w EXCEPT !.k = [w.k EXCEPT ![s] = Unbound]]
<1>1. s \in Fds
  BY DEF Sockets
<1>2. /\ v \in State /\ Elsewhere(v, w, s) /\ v.k[s] = Unbound
      /\ v.unbound = w.unbound /\ v.mnet = w.mnet /\ v.hasport = w.hasport
  BY <1>1, Replaced, UnboundIsSocket
<1>3. v = [w EXCEPT !.k[s] = Unbound]
  OBVIOUS
<1> HIDE DEF v
<1>4. s \in Sockets(v)
  BY <1>1, <1>2, SocketsOf, UnboundIsSocket
<1>5. QED
  BY <1>2, <1>3, <1>4

\* Two changes that concern s alone.
LEMMA ElsewhereTrans ==
    ASSUME NEW u, NEW v, NEW w, NEW s, Elsewhere(u, v, s), Elsewhere(v, w, s)
    PROVE  Elsewhere(u, w, s)
BY DEF Elsewhere

\* rebind_to in the vocabulary of BindTo: it gives up, binds the new socket to the old
\* port or, where the application does not care, to another, or leaves it unbound.
LEMMA RebindTo ==
    ASSUME NEW w \in State, NEW s \in Sockets(w), NEW addr \in {"mnet", "real"},
           NEW taken \in BOOLEAN
    PROVE  LET v == rebind_to(w, s, addr, taken)
           IN  /\ v \in State /\ Elsewhere(v, w, s) /\ s \in Sockets(v)
               /\ \/ v = w
                  \/ v.k[s].addr = "none"
                  \/ /\ v.k[s].addr = addr /\ v.k[s].peer = "none"
                     /\ s \notin v.unbound
                     /\ s \in v.mnet <=> addr = "mnet"
                     /\ s \in w.hasport /\ w.k[s].port # 0 =>
                          v.k[s].port = w.k[s].port /\ s \in v.hasport
<1> DEFINE port == w.k[s].port
           new  == [w EXCEPT !.k[s] = Unbound]
           v    == rebind_to(w, s, addr, taken)
<1>1. s \in Fds /\ w.k[s] \in Socket /\ port \in AllPorts /\ 0 \in AllPorts
  BY SocketsOf DEF Sockets, Socket, AllPorts
<1>2. /\ new \in State /\ Elsewhere(new, w, s) /\ s \in Sockets(new) /\ new.k[s] = Unbound
  BY Renewed
<1>3. v = w \/ v = bind_to(new, s, addr, port) \/ (v = bind_to(new, s, addr, 0) /\ s \notin w.hasport) \/ v = new
  BY DEF rebind_to
<1> HIDE DEF v, new, port
<1>4. CASE v = w
  BY <1>4 DEF Elsewhere, v
<1>5. CASE v = bind_to(new, s, addr, port)
  <2>1. /\ v \in State /\ Elsewhere(v, new, s) /\ s \in Sockets(v)
        /\ v.k[s].addr = addr /\ v.k[s].peer = new.k[s].peer
        /\ port # 0 => v.k[s].port = port
        /\ s \notin v.unbound
        /\ s \in v.mnet <=> addr = "mnet"
        /\ s \in v.hasport <=> port # 0
    BY <1>1, <1>2, <1>5, BindTo
  <2>2. new.k[s].peer = "none" /\ Elsewhere(v, w, s)
    BY <1>2, <2>1, ElsewhereTrans DEF Unbound
  <2>3. QED
    BY <2>1, <2>2 DEF v, port
<1>6. CASE v = bind_to(new, s, addr, 0) /\ s \notin w.hasport
  <2>1. /\ v \in State /\ Elsewhere(v, new, s) /\ s \in Sockets(v)
        /\ v.k[s].addr = addr /\ v.k[s].peer = new.k[s].peer
        /\ s \notin v.unbound
        /\ s \in v.mnet <=> addr = "mnet"
    BY <1>1, <1>2, <1>6, BindTo
  <2>2. new.k[s].peer = "none" /\ Elsewhere(v, w, s)
    BY <1>2, <2>1, ElsewhereTrans DEF Unbound
  <2>3. QED
    BY <1>6, <2>1, <2>2 DEF v
<1>7. CASE v = new
  <2>1. v.k[s].addr = "none"
    BY <1>2, <1>7 DEF Unbound
  <2>2. QED
    BY <1>2, <1>7, <2>1 DEF v
<1>8. QED
  BY <1>3, <1>4, <1>5, <1>6, <1>7

\* The test lost_by makes: the socket has got the address the destination calls for,
\* or the bits said it had it.
Got(w, v, s, dest) ==
    \/ v.k[s].addr = AddrFor(dest)
    \/ s \notin w.unbound /\ (AddrFor(dest) = "mnet") = (s \in w.mnet)

\* rebind_if_needed keeps a sound socket sound, with the address dest calls for,
\* unless it fails to get that address.
LEMMA RebindSound ==
    ASSUME NEW w \in State, NEW s \in Sockets(w), NEW dest \in Dests,
           NEW taken \in BOOLEAN, NEW port \in Ports \cup {0}
    PROVE  LET v == rebind_if_needed(w, s, dest, taken)
           IN  /\ v \in State /\ Elsewhere(v, w, s) /\ s \in Sockets(v)
               /\ Sound(w, s, port) /\ Got(w, v, s, dest) =>
                    Sound(v, s, port) /\ v.k[s].addr = AddrFor(dest)
<1> DEFINE addr == AddrFor(dest)
           v    == rebind_if_needed(w, s, dest, taken)
<1>1. addr \in {"mnet", "real"}
  BY DEF AddrFor
<1>2. s \in Fds /\ w.k[s] \in Socket /\ w.k[s].addr \in Addrs
  BY SocketsOf DEF Sockets, Socket
<1>3. 0 \in AllPorts
  BY DEF AllPorts
<1>4. \A q : AddrFor(q) # "none"
  BY DEF AddrFor
<1> HIDE DEF addr
<1>5. CASE s \in w.unbound /\ Bindable(w, s, addr, 0, taken)
  <2>1. v = bind_to(w, s, addr, 0)
    BY <1>5 DEF rebind_if_needed, addr
  <2>2. /\ v \in State /\ Elsewhere(v, w, s) /\ s \in Sockets(v)
        /\ v.k[s].addr = addr /\ v.k[s].peer = w.k[s].peer
        /\ s \notin v.unbound /\ (s \in v.mnet <=> addr = "mnet")
    BY <1>1, <1>3, <2>1, BindTo
  <2>3. Sound(w, s, port) => port = 0 /\ w.k[s].peer = "none"
    BY <1>4, <1>5 DEF Sound
  <2> HIDE DEF v
  <2>4. Sound(w, s, port) => Sound(v, s, port)
    BY <1>1, <2>2, <2>3 DEF Sound
  <2>5. QED
    BY <2>2, <2>4 DEF v, addr
<1>6. CASE s \in w.unbound /\ ~Bindable(w, s, addr, 0, taken)
  <2>1. v = w
    BY <1>6 DEF rebind_if_needed, addr
  <2>2. w.k[s].addr # "none"
    BY <1>6 DEF Bindable
  <2>3. QED
    BY <1>6, <2>1, <2>2 DEF Sound, Elsewhere
<1>7. CASE s \notin w.unbound /\ (addr = "mnet") = (s \in w.mnet)
  <2>1. v = w
    BY <1>7 DEF rebind_if_needed, addr
  <2>2. Sound(w, s, port) => w.k[s].addr = addr
    BY <1>1, <1>2, <1>7 DEF Sound, Addrs
  <2>3. QED
    BY <2>1, <2>2 DEF Elsewhere, addr
<1>8. CASE s \notin w.unbound /\ (addr = "mnet") # (s \in w.mnet)
  <2>1. v = rebind_to(w, s, addr, taken)
    BY <1>8 DEF rebind_if_needed, addr
  <2>2. /\ v \in State /\ Elsewhere(v, w, s) /\ s \in Sockets(v)
        /\ \/ v = w
           \/ v.k[s].addr = "none"
           \/ /\ v.k[s].addr = addr /\ v.k[s].peer = "none"
              /\ s \notin v.unbound
              /\ s \in v.mnet <=> addr = "mnet"
              /\ s \in w.hasport /\ w.k[s].port # 0 =>
                   v.k[s].port = w.k[s].port /\ s \in v.hasport
    BY <1>1, <2>1, RebindTo
  <2> HIDE DEF v
  <2>3. Got(w, v, s, dest) => v.k[s].addr = addr
    BY <1>8 DEF Got, addr
  <2>4. Sound(w, s, port) /\ v.k[s].addr = addr => Sound(v, s, port)
    BY <1>1, <2>2 DEF Sound
  <2>5. QED
    BY <2>2, <2>3, <2>4 DEF v, addr
<1>9. QED
  BY <1>5, <1>6, <1>7, <1>8
-----------------------------------------------------------------------------
(* The invariant.                                                            *)

\* What concerns one descriptor alone leaves the others sound.
LEMMA SoundElsewhere ==
    ASSUME NEW v, NEW w, NEW s, Elsewhere(v, w, s), NEW t \in Fds \ {s}, NEW port
    PROVE  /\ Sound(w, t, port) => Sound(v, t, port)
           /\ t \in Sockets(v) <=> t \in Sockets(w)
BY DEF Elsewhere, Sound, Sockets

\* After a step on descriptor s alone, the invariant is owed for s only.
LEMMA StepOn ==
    ASSUME ClientInv, NEW s \in Fds, st' \in State, Elsewhere(st', st, s),
           asked' \in [Fds -> Ports \cup {0}], lost' \subseteq Fds,
           \A t \in Fds \ {s} : asked'[t] = asked[t] /\ (t \in lost' <=> t \in lost),
           s \notin Sockets(st)' => asked'[s] = 0 /\ s \notin lost',
           s \in Sockets(st)' \ lost' => Sound(st', s, asked'[s]),
           RightSource'
    PROVE  ClientInv'
<1>1. TypeInv'
  BY DEF TypeInv
<1>2. CleanInv'
  <2> SUFFICES ASSUME NEW t \in Fds, t \notin Sockets(st') PROVE asked'[t] = 0 /\ t \notin lost'
    BY DEF CleanInv, Sockets
  <2>1. CASE t = s
    BY <2>1 DEF Sockets
  <2>2. CASE t # s
    BY <2>2, SoundElsewhere DEF ClientInv, CleanInv
  <2>3. QED
    BY <2>1, <2>2
<1>3. SoundInv'
  <2> SUFFICES ASSUME NEW t \in Sockets(st') \ lost' PROVE Sound(st', t, asked'[t])
    BY DEF SoundInv, Sockets, Sound
  <2>1. t \in Fds
    BY DEF Sockets
  <2>2. CASE t = s
    BY <2>2 DEF Sockets
  <2>3. CASE t # s
    BY <2>1, <2>3, SoundElsewhere DEF ClientInv, SoundInv
  <2>4. QED
    BY <2>2, <2>3
<1>4. QED
  BY <1>1, <1>2, <1>3 DEF ClientInv

\* What connect, sendto and sendmsg do to a socket: it is sound and has the address the
\* destination calls for, or it has just been lost.
LEMMA Towards ==
    ASSUME ClientInv, NEW s \in Sockets(st), NEW dest \in Dests, NEW taken \in BOOLEAN
    PROVE  LET v == towards(s, dest, taken)
               l == lost_by(s, dest, taken)
           IN  /\ v \in State /\ Elsewhere(v, st, s) /\ s \in Sockets(v)
               /\ l \subseteq Fds /\ \A t \in Fds \ {s} : t \in l <=> t \in lost
               /\ s \notin l => Sound(v, s, asked[s]) /\ v.k[s].addr = AddrFor(dest)
<1> DEFINE u == rebind_if_needed(st, s, dest, taken)
           v == towards(s, dest, taken)
           l == lost_by(s, dest, taken)
<1>1. s \in Fds /\ asked[s] \in Ports \cup {0} /\ st \in State /\ lost \subseteq Fds
  BY DEF Sockets, ClientInv, TypeInv
<1>2. /\ u \in State /\ Elsewhere(u, st, s) /\ s \in Sockets(u)
      /\ Sound(st, s, asked[s]) /\ Got(st, u, s, dest) =>
           Sound(u, s, asked[s]) /\ u.k[s].addr = AddrFor(dest)
  BY <1>1, RebindSound
<1>3. l = IF Got(st, u, s, dest) THEN lost ELSE lost \cup {s}
  BY DEF lost_by, Got
<1>4. v = autobind(u, s)
  BY DEF towards
<1> HIDE DEF u, l, v
<1>5. v \in State /\ Elsewhere(v, u, s) /\ s \in Sockets(v) /\ (u.k[s].addr # "none" => v = u)
  BY <1>2, <1>4, Autobind
<1>6. Elsewhere(v, st, s)
  BY <1>2, <1>5, ElsewhereTrans
<1>7. ASSUME s \notin l PROVE Sound(v, s, asked[s]) /\ v.k[s].addr = AddrFor(dest)
  <2>1. Got(st, u, s, dest) /\ s \notin lost
    BY <1>3, <1>7
  <2>2. Sound(st, s, asked[s])
    BY <2>1 DEF ClientInv, SoundInv
  <2>3. Sound(u, s, asked[s]) /\ u.k[s].addr = AddrFor(dest)
    BY <1>2, <2>1, <2>2
  <2>4. AddrFor(dest) # "none"
    BY DEF AddrFor
  <2>5. QED
    BY <1>5, <2>3, <2>4
<1>8. QED
  BY <1>1, <1>3, <1>5, <1>6, <1>7 DEF v, l

\* socket marks the new descriptor as unbound and nothing else.
LEMMA Opened ==
    ASSUME NEW w \in State, NEW s \in Fds
    PROVE  LET v == opened(w, s)
           IN  v \in State /\ Elsewhere(v, w, s) /\ s \in Sockets(v) /\ Sound(v, s, 0)
<1> DEFINE v  == opened(w, s)
           kk == [w.k EXCEPT ![s] = Unbound]
<1>1. v = [w EXCEPT !.k = kk, !.unbound = w.unbound \cup {s},
                    !.mnet = w.mnet \ {s}, !.hasport = w.hasport \ {s}]
  BY DEF opened
<1>2. kk \in [Fds -> {Closed, File} \cup Socket] /\ kk[s] = Unbound
      /\ \A t \in Fds \ {s} : kk[t] = w.k[t]
  BY UnboundIsSocket DEF State
<1> HIDE DEF kk, v
<1>3. v \in State /\ v.k = kk /\ v.unbound = w.unbound \cup {s} /\ v.mnet = w.mnet \ {s}
      /\ v.hasport = w.hasport \ {s}
  BY <1>1, <1>2 DEF State
<1>4. Elsewhere(v, w, s)
  BY <1>2, <1>3 DEF Elsewhere
<1>5. s \in Sockets(v) /\ Sound(v, s, 0)
  BY <1>2, <1>3 DEF Sockets, Sound, Unbound
<1>6. QED
  BY <1>3, <1>4, <1>5 DEF v

\* Every call of the application keeps the invariant.
LEMMA ClientStep == ClientInv /\ [Next]_vars => ClientInv'
<1> SUFFICES ASSUME ClientInv, [Next]_vars PROVE ClientInv'
  OBVIOUS
<1>0. st \in State /\ asked \in [Fds -> Ports \cup {0}] /\ lost \subseteq Fds /\ RightSource
  BY DEF ClientInv, TypeInv
<1>1. CASE socket
  <2> DEFINE s == NewFd(st)
  <2>1. st' = opened(st, s) /\ asked' = asked /\ lost' = lost /\ stray' = stray
    BY <1>1 DEF socket
  <2>2. s \in Fds /\ s \notin Sockets(st)
    BY <1>0, <1>1, NewFdIsFree, SocketsOf DEF socket, Free
  <2>3. asked[s] = 0 /\ s \notin lost
    BY <2>2 DEF ClientInv, CleanInv
  <2> HIDE DEF s
  <2>4. st' \in State /\ Elsewhere(st', st, s) /\ s \in Sockets(st') /\ Sound(st', s, 0)
    BY <1>0, <2>1, <2>2, Opened
  <2>5. RightSource' /\ s \in Sockets(st)'
    BY <1>0, <2>1, <2>4 DEF RightSource, Sockets
  <2>6. QED
    BY <1>0, <2>1, <2>2, <2>3, <2>4, <2>5, StepOn
<1>2. ASSUME NEW s \in Fds, close(s) PROVE ClientInv'
  <2>1. st' = [st EXCEPT !.k = [st.k EXCEPT ![s] = Closed]] /\ stray' = stray
        /\ asked' = [asked EXCEPT ![s] = 0] /\ lost' = lost \ {s}
    BY <1>2 DEF close
  <2>2. st' \in State /\ Elsewhere(st', st, s) /\ st'.k[s] = Closed
    BY <1>0, <2>1, Replaced
  <2>3. s \notin Sockets(st)'
    BY <2>2 DEF Sockets, Closed
  <2>4. asked' \in [Fds -> Ports \cup {0}] /\ asked'[s] = 0
        /\ \A t \in Fds \ {s} : asked'[t] = asked[t]
    BY <1>0, <2>1
  <2>5. RightSource' /\ lost' \subseteq Fds
    BY <1>0, <2>1 DEF RightSource
  <2>6. QED
    BY <2>1, <2>2, <2>3, <2>4, <2>5, StepOn
<1>3. ASSUME NEW s \in Fds, send(s) PROVE ClientInv'
  <2>1. /\ s \in Sockets(st) /\ st.k[s].peer # "none"
        /\ stray' = Strayed(s \in lost, st.k[s].peer, st.k[s].addr)
        /\ st' = st /\ asked' = asked /\ lost' = lost
    BY <1>3 DEF send
  <2>2. s \notin lost => st.k[s].addr = AddrFor(st.k[s].peer)
    BY <2>1 DEF ClientInv, SoundInv, Sound
  <2>3. st.k[s].peer # "mnet"
    BY <1>0, <2>1, SocketsOf DEF Socket
  <2>4. stray' = Nothing
    BY <1>0, <2>1, <2>2, <2>3 DEF Strayed, RightSource
  <2>5. QED
    BY <2>1, <2>4 DEF ClientInv, TypeInv, CleanInv, SoundInv, RightSource, Sockets, Sound
<1>4. ASSUME NEW s \in Fds, NEW port \in Ports \cup {0}, NEW taken \in BOOLEAN,
             bind(s, port, taken)
      PROVE  ClientInv'
  <2>1. s \in Sockets(st) /\ lost' = lost /\ stray' = stray
    BY <1>4 DEF bind
  <2>2. CASE ~Bindable(st, s, "mnet", port, taken)
    <3>1. st' = st /\ asked' = asked
      BY <1>4, <2>2 DEF bind
    <3>2. QED
      BY <2>1, <3>1 DEF ClientInv, TypeInv, CleanInv, SoundInv, RightSource, Sockets, Sound
  <2>3. CASE Bindable(st, s, "mnet", port, taken)
    <3>1. st' = bind_to(st, s, "mnet", port) /\ asked' = [asked EXCEPT ![s] = port]
      BY <1>4, <2>3 DEF bind
    <3>2. port \in AllPorts
      BY DEF AllPorts
    <3>3. /\ st' \in State /\ Elsewhere(st', st, s) /\ s \in Sockets(st')
          /\ st'.k[s].addr = "mnet" /\ st'.k[s].peer = st.k[s].peer
          /\ port # 0 => st'.k[s].port = port
          /\ s \notin st'.unbound
          /\ s \in st'.mnet
          /\ s \in st'.hasport <=> port # 0
      BY <1>0, <2>1, <3>1, <3>2, BindTo
    <3>4. st.k[s].addr = "none" /\ \A q : AddrFor(q) # "none"
      BY <2>3 DEF Bindable, AddrFor
    <3>5. s \notin lost => st.k[s].peer = "none"
      BY <2>1, <3>4 DEF ClientInv, SoundInv, Sound
    <3>6. asked' \in [Fds -> Ports \cup {0}] /\ asked'[s] = port
          /\ \A t \in Fds \ {s} : asked'[t] = asked[t]
      BY <1>0, <3>1
    <3>7. s \notin lost => Sound(st', s, asked'[s])
      BY <3>3, <3>5, <3>6 DEF Sound
    <3>8. RightSource' /\ s \in Sockets(st)' /\ lost' \subseteq Fds
      BY <1>0, <2>1, <3>3 DEF RightSource, Sockets
    <3>9. QED
      BY <2>1, <3>3, <3>6, <3>7, <3>8, StepOn
  <2>4. QED
    BY <2>2, <2>3
<1>5. ASSUME NEW s \in Fds, NEW dest \in Dests, NEW taken \in BOOLEAN, connect(s, dest, taken)
      PROVE  ClientInv'
  <2> DEFINE v == towards(s, dest, taken)
             x == [v.k[s] EXCEPT !.peer = Marked(dest)]
  <2>1. s \in Sockets(st) /\ lost' = lost_by(s, dest, taken) /\ stray' = stray /\ asked' = asked
        /\ st' = [v EXCEPT !.k = [v.k EXCEPT ![s] = x]]
    BY <1>5 DEF connect
  <2>2. /\ v \in State /\ Elsewhere(v, st, s) /\ s \in Sockets(v)
        /\ lost' \subseteq Fds /\ \A t \in Fds \ {s} : t \in lost' <=> t \in lost
        /\ s \notin lost' => Sound(v, s, asked[s]) /\ v.k[s].addr = AddrFor(dest)
    BY <2>1, Towards
  <2> HIDE DEF v
  <2>3. v.k[s] \in Socket
    BY <2>2, SocketsOf
  <2>4. Marked(dest) \in {"core", "self", "ext"} /\ AddrFor(Marked(dest)) = AddrFor(dest)
    BY DEF Marked, AddrFor, Dests
  <2>5. x \in Socket /\ x.peer = Marked(dest) /\ x.addr = v.k[s].addr /\ x.port = v.k[s].port
    BY <2>3, <2>4 DEF Socket
  <2> HIDE DEF x
  <2>6. /\ st' \in State /\ Elsewhere(st', v, s) /\ st'.k[s] = x
        /\ st'.unbound = v.unbound /\ st'.mnet = v.mnet /\ st'.hasport = v.hasport
    BY <2>1, <2>2, <2>5, Replaced
  <2>7. s \notin lost' => Sound(st', s, asked[s])
    BY <2>2, <2>4, <2>5, <2>6 DEF Sound
  <2>8. Elsewhere(st', st, s)
    BY <2>2, <2>6, ElsewhereTrans
  <2>9. s \in Sockets(st)' /\ RightSource'
    BY <1>0, <2>1, <2>5, <2>6 DEF Sockets, Socket, RightSource
  <2>10. QED
    BY <1>0, <2>1, <2>2, <2>6, <2>7, <2>8, <2>9, StepOn
<1>6. ASSUME NEW s \in Fds, NEW dest \in Dests, NEW taken \in BOOLEAN, sendto(s, dest, taken)
      PROVE  ClientInv'
  <2> DEFINE v == towards(s, dest, taken)
  <2>1. s \in Sockets(st) /\ lost' = lost_by(s, dest, taken) /\ asked' = asked /\ st' = v
        /\ stray' = Strayed(s \in lost', Marked(dest), v.k[s].addr)
    BY <1>6 DEF sendto
  <2>2. /\ v \in State /\ Elsewhere(v, st, s) /\ s \in Sockets(v)
        /\ lost' \subseteq Fds /\ \A t \in Fds \ {s} : t \in lost' <=> t \in lost
        /\ s \notin lost' => Sound(v, s, asked[s]) /\ v.k[s].addr = AddrFor(dest)
    BY <2>1, Towards
  <2> HIDE DEF v
  <2>3. Marked(dest) # "mnet" /\ AddrFor(Marked(dest)) = AddrFor(dest)
    BY DEF Marked, AddrFor, Dests
  <2>4. stray' = Nothing
    BY <1>0, <2>1, <2>2, <2>3 DEF Strayed, RightSource
  <2>5. s \in Sockets(st)' /\ RightSource'
    BY <2>1, <2>2, <2>4 DEF Sockets, RightSource
  <2>6. QED
    BY <1>0, <2>1, <2>2, <2>5, StepOn
<1>7. ASSUME NEW name \in Names, lookup(name) PROVE ClientInv'
  <2>1. asked' = asked /\ lost' = lost /\ stray' = stray
    BY <1>7 DEF lookup
  <2>2. st' = st \/ (Free(st) # {} /\ st' = [st EXCEPT !.k[NewFd(st)] = File])
    BY <1>7 DEF lookup, lookup_none, lookup_cache, lookup_unopened, lookup_file
  <2>3. CASE st' = st
    BY <2>1, <2>3 DEF ClientInv, TypeInv, CleanInv, SoundInv, RightSource, Sockets, Sound
  <2>4. CASE Free(st) # {} /\ st' = [st EXCEPT !.k[NewFd(st)] = File]
    <3> DEFINE s == NewFd(st)
    <3>1. s \in Fds /\ s \notin Sockets(st)
      BY <1>0, <2>4, NewFdIsFree, SocketsOf DEF Free
    <3>2. asked[s] = 0 /\ s \notin lost
      BY <3>1 DEF ClientInv, CleanInv
    <3>3. st' = [st EXCEPT !.k = [st.k EXCEPT ![s] = File]]
      BY <2>4
    <3> HIDE DEF s
    <3>4. st' \in State /\ Elsewhere(st', st, s) /\ st'.k[s] = File
      BY <1>0, <3>1, <3>3, Replaced
    <3>5. s \notin Sockets(st)' /\ RightSource'
      BY <1>0, <2>1, <3>4 DEF Sockets, File, RightSource
    <3>6. QED
      BY <1>0, <2>1, <3>1, <3>2, <3>4, <3>5, StepOn
  <2>5. QED
    BY <2>2, <2>3, <2>4
<1>10. ASSUME NEW name \in Names, lookup_dies(name) PROVE ClientInv'
  BY <1>0, <1>10, NothingOpen DEF lookup_dies, ClientInv, TypeInv, CleanInv, SoundInv, RightSource, Sockets
<1>8. CASE UNCHANGED vars
  BY <1>8 DEF vars, ClientInv, TypeInv, CleanInv, SoundInv, RightSource, Sockets, Sound
<1>9. QED
  BY <1>1, <1>2, <1>3, <1>4, <1>5, <1>6, <1>7, <1>8, <1>10 DEF Next

\* Sockets, descriptors and the library's bits stay in step for ever.
THEOREM ClientInvariant == Spec => []ClientInv
<1>1. Init => ClientInv
  <2> SUFFICES ASSUME Init PROVE ClientInv
    OBVIOUS
  <2>1. st \in State /\ Sockets(st) = {}
    BY NothingOpen DEF Init
  <2>2. QED
    BY <2>1 DEF Init, ClientInv, TypeInv, CleanInv, SoundInv, RightSource
<1>2. QED
  BY <1>1, ClientStep, PTL DEF Spec

\* The library's two bits say what the kernel knows of every socket that has never
\* failed to be rebound, for any number of descriptors and any sequence of calls.
THEOREM BitsAreTruthful == Spec => []BitsTruthful
<1>1. ClientInv => BitsTruthful
  BY DEF ClientInv, SoundInv, Sound, BitsTruthful
<1>2. QED
  BY <1>1, ClientInvariant, PTL

\* No datagram of such a socket leaves with the wrong source or past the emulator.
THEOREM SourceIsRight == Spec => []RightSource
<1>1. ClientInv => RightSource
  BY DEF ClientInv
<1>2. QED
  BY <1>1, ClientInvariant, PTL

\* Such a socket keeps the port the application bound it to through every rebind.
THEOREM PortIsKept == Spec => []PortKept
<1>1. ClientInv => PortKept
  BY DEF ClientInv, SoundInv, Sound, PortKept
<1>2. QED
  BY <1>1, ClientInvariant, PTL
-----------------------------------------------------------------------------
(* The names.                                                                *)

Caches == [Slots -> Seq(Names)]
Holds(c, name) == \E i \in 1..Len(c[Slot[name]]) : c[Slot[name]][i] = name
Keeps(c, d) == d \in Caches /\ \A name \in Names : Holds(c, name) => Holds(d, name)

\* Every entry of chain a is one of chain b.
Within(a, b) == \A i \in 1..Len(a) : \E j \in 1..Len(b) : b[j] = a[i]

\* The inductive invariant: once the file has been open, its names are in the cache.
FileOpen == \E s \in Fds : st.k[s] = File
Known(name) == Holds(cache, name) \/ name \in uncached
NameInv == /\ cache \in Caches
           /\ mdb /\ Preload /\ FileOpen => \A i \in 1..Len(Hosts) : Known(Hosts[i].name)

\* A chain with one of its entries in front, or a new one, has lost nothing.
LEMMA InFront ==
    ASSUME NEW S, NEW a \in Seq(S), NEW b \in Seq(S), NEW r, r = a \o b
    PROVE  r \in Seq(S) /\ Within(a, r) /\ Within(b, r)
<1>1. r \in Seq(S) /\ Len(r) = Len(a) + Len(b) /\ Len(a) \in Nat /\ Len(b) \in Nat
  OBVIOUS
<1>2. ASSUME NEW i \in 1..Len(a) PROVE \E j \in 1..Len(r) : r[j] = a[i]
  <2>1. i \in 1..Len(r) /\ r[i] = a[i]
    BY <1>1
  <2>2. QED
    BY <2>1
<1>3. ASSUME NEW i \in 1..Len(b) PROVE \E j \in 1..Len(r) : r[j] = b[i]
  <2>1. Len(a) + i \in 1..Len(r) /\ r[Len(a) + i] = b[i]
    BY <1>1
  <2>2. QED
    BY <2>1
<1>4. QED
  BY <1>1, <1>2, <1>3 DEF Within

LEMMA ToFront ==
    ASSUME NEW S, NEW chain \in Seq(S), NEW i \in 1..Len(chain)
    PROVE  to_front(chain, i) \in Seq(S) /\ Within(chain, to_front(chain, i))
<1> DEFINE x == <<chain[i]>>
           a == SubSeq(chain, 1, i - 1)
           b == SubSeq(chain, i + 1, Len(chain))
           r == to_front(chain, i)
<1>1. x \in Seq(S) /\ Len(x) = 1 /\ x[1] = chain[i]
  OBVIOUS
<1>2. a \in Seq(S) /\ Len(a) = i - 1 /\ \A j \in 1..(i - 1) : a[j] = chain[j]
  OBVIOUS
<1>3. b \in Seq(S) /\ Len(b) = Len(chain) - i /\ \A j \in 1..(Len(chain) - i) : b[j] = chain[i + j]
  OBVIOUS
<1>4. r = x \o a \o b
  BY DEF to_front
<1> HIDE DEF x, a, b, r
<1>5. PICK y : y = x \o a
  OBVIOUS
<1>6. y \in Seq(S) /\ Within(x, y) /\ Within(a, y)
  BY <1>1, <1>2, <1>5, InFront
<1>7. r \in Seq(S) /\ Within(y, r) /\ Within(b, r)
  <2>1. r = y \o b
    BY <1>4, <1>5
  <2>2. QED
    BY <1>3, <1>6, <2>1, InFront
<1>8. ASSUME NEW l \in 1..Len(chain) PROVE \E j \in 1..Len(r) : r[j] = chain[l]
  <2>1. CASE l = i
    <3>1. 1 \in 1..Len(x) /\ x[1] = chain[l]
      BY <1>1, <2>1
    <3>2. PICK k \in 1..Len(y) : y[k] = chain[l]
      BY <1>6, <3>1 DEF Within
    <3>3. QED
      BY <1>7, <3>2 DEF Within
  <2>2. CASE l < i
    <3>1. l \in 1..Len(a) /\ a[l] = chain[l]
      BY <1>2, <2>2
    <3>2. PICK k \in 1..Len(y) : y[k] = chain[l]
      BY <1>6, <3>1 DEF Within
    <3>3. QED
      BY <1>7, <3>2 DEF Within
  <2>3. CASE l > i
    <3>1. PICK k \in 1..(Len(chain) - i) : l = i + k
      <4>1. l - i \in 1..(Len(chain) - i) /\ l = i + (l - i)
        BY <2>3
      <4>2. QED
        BY <4>1
    <3>2. k \in 1..Len(b) /\ b[k] = chain[l]
      BY <1>3, <3>1
    <3>3. QED
      BY <1>7, <3>2 DEF Within
  <2>4. QED
    BY <2>1, <2>2, <2>3
<1>9. QED
  BY <1>7, <1>8 DEF r, Within

\* One slot gets another chain.
LEMMA ChainReplaced ==
    ASSUME NEW c \in Caches, NEW name \in Names, NEW chain \in Seq(Names),
           Within(c[Slot[name]], chain)
    PROVE  Keeps(c, [c EXCEPT ![Slot[name]] = chain])
<1> DEFINE d == [c EXCEPT ![Slot[name]] = chain]
<1>1. Slot[name] \in Slots /\ \A n \in Names : Slot[n] \in Slots
  BY DEF Slots
<1>2. d \in Caches /\ d[Slot[name]] = chain /\ \A x \in Slots : x # Slot[name] => d[x] = c[x]
  BY <1>1 DEF Caches
<1> HIDE DEF d
<1>3. ASSUME NEW n \in Names, Holds(c, n) PROVE Holds(d, n)
  <2>1. CASE Slot[n] = Slot[name]
    <3>1. PICK l \in 1..Len(c[Slot[name]]) : c[Slot[name]][l] = n
      BY <1>3, <2>1 DEF Holds
    <3>2. PICK j \in 1..Len(chain) : chain[j] = n
      BY <3>1 DEF Within
    <3>3. QED
      BY <1>2, <2>1, <3>2 DEF Holds
  <2>2. CASE Slot[n] # Slot[name]
    BY <1>1, <1>2, <1>3, <2>2 DEF Holds
  <2>3. QED
    BY <2>1, <2>2
<1>4. QED
  BY <1>2, <1>3 DEF Keeps, d

LEMMA PutName ==
    ASSUME NEW c \in Caches, NEW name \in Names
    PROVE  Keeps(c, put_name_hash(c, name)) /\ Holds(put_name_hash(c, name), name)
<1>1. PICK old \in Seq(Names) : old = c[Slot[name]]
  BY DEF Caches, Slots
<1>2. PICK x : x = <<name>>
  OBVIOUS
<1>a. x \in Seq(Names) /\ Len(x) = 1 /\ x[1] = name
  BY <1>2
<1>3. PICK chain : chain = x \o old
  OBVIOUS
<1>4. chain \in Seq(Names) /\ Within(x, chain) /\ Within(old, chain)
  BY <1>3, <1>a, InFront
<1>5. put_name_hash(c, name) = [c EXCEPT ![Slot[name]] = chain]
  BY <1>1, <1>2, <1>3 DEF put_name_hash
<1>6. Keeps(c, put_name_hash(c, name))
  BY <1>1, <1>4, <1>5, ChainReplaced
<1>7. put_name_hash(c, name)[Slot[name]] = chain
  BY <1>5 DEF Caches, Slots
<1>8. \E j \in 1..Len(chain) : chain[j] = name
  <2>1. 1 \in 1..Len(x)
    BY <1>a
  <2>2. QED
    BY <1>a, <1>4, <2>1 DEF Within
<1>9. QED
  BY <1>6, <1>7, <1>8 DEF Holds

\* Reading the file line by line: the recursive function is what its equation says.
Reads(f, c, n, nomem) == f = [i \in 0..n |-> IF i = 0 THEN c ELSE put_line(f[i - 1], i, nomem)]

LEMMA ReadsExist ==
    ASSUME NEW c, NEW nomem, NEW n \in Nat
    PROVE  \E f : Reads(f, c, n, nomem)
<1> DEFINE Is(f, k) == f = [i \in 0..k |-> IF i = 0 THEN c ELSE put_line(f[i - 1], i, nomem)]
           Bad == {k \in Nat : ~(\E f : Is(f, k))}
<1>1. SUFFICES ASSUME Bad # {} PROVE FALSE
  BY DEF Reads
<1>2. PICK k \in Bad : \A j \in Bad : k <= j
  <2>1. Bad \subseteq Nat
    OBVIOUS
  <2> HIDE DEF Bad
  <2>2. QED
    BY <1>1, <2>1, LeastOf
<1>3. k \in Nat /\ ~(\E f : Is(f, k))
  OBVIOUS
<1>4. CASE k = 0
  <2> DEFINE z == [i \in 0..0 |-> c]
  <2>1. Is(z, 0)
    OBVIOUS
  <2>2. QED
    BY <1>3, <1>4, <2>1
<1>5. CASE k # 0
  <2>1. k - 1 \in Nat /\ k - 1 \notin Bad
    <3>1. k - 1 \in Nat /\ ~(k <= k - 1)
      BY <1>3, <1>5
    <3> HIDE DEF Bad
    <3>2. k - 1 \notin Bad
      BY <1>2, <3>1
    <3>3. QED
      BY <3>1, <3>2
  <2>2. PICK g : Is(g, k - 1)
    BY <2>1
  <2> DEFINE t == [i \in 0..k |-> IF i = k THEN put_line(g[k - 1], k, nomem) ELSE g[i]]
  <2>3. ASSUME NEW i \in 0..k
        PROVE  t[i] = IF i = 0 THEN c ELSE put_line(t[i - 1], i, nomem)
    <3>1. CASE i = k
      <4>1. k - 1 \in 0..k /\ k - 1 # k /\ i - 1 = k - 1
        BY <1>3, <1>5, <3>1
      <4>2. QED
        BY <1>3, <1>5, <3>1, <4>1
    <3>2. CASE i # k
      <4>1. i \in 0..(k - 1) /\ (i # 0 => i - 1 \in 0..k /\ i - 1 # k)
        BY <1>3, <3>2
      <4>2. g[i] = IF i = 0 THEN c ELSE put_line(g[i - 1], i, nomem)
        BY <2>2, <4>1
      <4>3. QED
        BY <3>2, <4>1, <4>2
    <3>3. QED
      BY <3>1, <3>2
  <2>4. t = [i \in 0..k |-> t[i]]
    OBVIOUS
  <2> HIDE DEF t
  <2>5. t = [i \in 0..k |-> IF i = 0 THEN c ELSE put_line(t[i - 1], i, nomem)]
    BY <2>3, <2>4
  <2>6. QED
    BY <1>3, <2>5
<1>6. QED
  BY <1>4, <1>5

LEMMA PreloadedRec ==
    ASSUME NEW c, NEW nomem, NEW n \in Nat, n = Len(Hosts)
    PROVE  /\ preloaded(c, nomem)[0] = c
           /\ \A i \in 1..n : preloaded(c, nomem)[i] = put_line(preloaded(c, nomem)[i - 1], i, nomem)
<1>0. PICK g : Reads(g, c, n, nomem)
  BY ReadsExist
<1> DEFINE Is(f) == f = [i \in 0..Len(Hosts) |-> IF i = 0 THEN c ELSE put_line(f[i - 1], i, nomem)]
           F == preloaded(c, nomem)
<1>1. \E f : Is(f)
  <2>1. Is(g)
    BY <1>0 DEF Reads
  <2> HIDE DEF Is
  <2>2. QED
    BY <2>1
<1>2. F = CHOOSE f : Is(f)
  BY DEF preloaded
<1>3. Is(F)
  BY <1>1, <1>2
<1> HIDE DEF F
<1>4. \A i \in 0..n : F[i] = IF i = 0 THEN c ELSE put_line(F[i - 1], i, nomem)
  BY <1>3
<1>5. 0 \in 0..n /\ \A i \in 1..n : i \in 0..n /\ i # 0
  OBVIOUS
<1>6. QED
  BY <1>4, <1>5 DEF F

\* A line's name is in the cache when the line has been put, if there was memory.
LEMMA PutLine ==
    ASSUME NEW c \in Caches, NEW i, NEW nomem, Hosts[i].name \in Names
    PROVE  /\ Keeps(c, put_line(c, i, nomem))
           /\ i \in nomem \/ Holds(put_line(c, i, nomem), Hosts[i].name)
<1>1. CASE i \in nomem
  BY <1>1 DEF put_line, Keeps
<1>2. CASE i \notin nomem
  BY <1>2, PutName DEF put_line
<1>3. QED
  BY <1>1, <1>2

\* The lines that have been read are in the cache, but for those without memory.
LEMMA AllPreloaded ==
    ASSUME NEW c \in Caches, NEW nomem, NEW k \in 0..Len(Hosts)
    PROVE  /\ preloaded(c, nomem)[k] \in Caches
           /\ \A i \in 1..k : i \in nomem \/ Holds(preloaded(c, nomem)[k], Hosts[i].name)
<1>a. PICK n \in Nat : n = Len(Hosts)
  BY ClientAssumption DEF ClientAssumption
<1>b. PICK f : f = preloaded(c, nomem)
  OBVIOUS
<1>c. \A i \in 1..n : Hosts[i].name \in Names
  BY <1>a, ClientAssumption DEF ClientAssumption
<1>1. f[0] = c /\ \A i \in 1..n : f[i] = put_line(f[i - 1], i, nomem)
  BY <1>a, <1>b, PreloadedRec
<1> DEFINE Ok(i) == f[i] \in Caches /\ \A l \in 1..i : l \in nomem \/ Holds(f[i], Hosts[l].name)
           Bad == {i \in 0..n : ~Ok(i)}
<1>2. Bad = {}
  <2>1. SUFFICES ASSUME Bad # {} PROVE FALSE
    OBVIOUS
  <2>2. PICK m \in Bad : \A j \in Bad : m <= j
    <3>1. Bad \subseteq Nat
      OBVIOUS
    <3> HIDE DEF Bad
    <3>2. QED
      BY <2>1, <3>1, LeastOf
  <2>3. m \in 0..n /\ ~Ok(m)
    OBVIOUS
  <2>4. m # 0
    BY <1>1, <2>3
  <2>5. PICK j \in 0..n : j = m - 1 /\ Ok(j)
    <3>1. m - 1 \in 0..n /\ ~(m <= m - 1)
      BY <2>3, <2>4
    <3>2. m - 1 \notin Bad
      BY <2>2, <3>1
    <3>3. QED
      BY <3>1, <3>2
  <2>6. Hosts[m].name \in Names
    BY <1>c, <2>3, <2>4
  <2>7. f[m] = put_line(f[j], m, nomem) /\ f[j] \in Caches
    BY <1>1, <2>3, <2>4, <2>5
  <2>8. Keeps(f[j], f[m]) /\ (m \in nomem \/ Holds(f[m], Hosts[m].name))
    BY <2>6, <2>7, PutLine
  <2>9. ASSUME NEW l \in 1..m PROVE l \in nomem \/ Holds(f[m], Hosts[l].name)
    <3>1. CASE l = m
      BY <2>8, <3>1
    <3>2. CASE l # m
      <4>1. l \in 1..j /\ l \in 1..n
        BY <2>3, <2>5, <3>2
      <4>2. l \in nomem \/ (Holds(f[j], Hosts[l].name) /\ Hosts[l].name \in Names)
        BY <1>c, <2>5, <4>1
      <4>3. QED
        BY <2>8, <4>2 DEF Keeps
    <3>3. QED
      BY <3>1, <3>2
  <2>10. QED
    BY <2>3, <2>8, <2>9 DEF Keeps
<1>3. k \in 0..n
  BY <1>a
<1>4. Ok(k)
  BY <1>2, <1>3
<1>5. QED
  BY <1>b, <1>4

\* What the application does with its sockets opens no file.
LEMMA NoNewFile ==
    ASSUME NEW s \in Fds, Elsewhere(st', st, s), st'.k[s] # File, FileOpen'
    PROVE  FileOpen
BY DEF FileOpen, Elsewhere

LEMMA SocketIsNoFile ==
    ASSUME NEW w, NEW s \in Sockets(w)
    PROVE  w.k[s] # File /\ s \in Fds
BY DEF Sockets, File

LEMMA CallsOpenNoFile ==
    ASSUME ClientInv, Next, \A name \in Names : ~lookup(name) /\ ~lookup_dies(name)
    PROVE  UNCHANGED names /\ (FileOpen' => FileOpen)
<1>0. st \in State
  BY DEF ClientInv, TypeInv
<1>1. CASE socket
  <2>1. PICK s : s = NewFd(st)
    OBVIOUS
  <2>2. st' = opened(st, s) /\ UNCHANGED names /\ s \in Fds
    BY <1>0, <1>1, <2>1, NewFdIsFree DEF socket, Free
  <2>3. Elsewhere(st', st, s) /\ s \in Sockets(st')
    BY <1>0, <2>2, Opened
  <2>4. QED
    BY <2>2, <2>3, SocketIsNoFile, NoNewFile
<1>2. ASSUME NEW s \in Fds, close(s) PROVE UNCHANGED names /\ (FileOpen' => FileOpen)
  <2>1. st' = [st EXCEPT !.k = [st.k EXCEPT ![s] = Closed]] /\ UNCHANGED names
    BY <1>2 DEF close
  <2>2. Elsewhere(st', st, s) /\ st'.k[s] = Closed
    BY <1>0, <2>1, Replaced
  <2>3. Closed # File
    BY DEF Closed, File
  <2>4. QED
    BY <2>1, <2>2, <2>3, NoNewFile
<1>3. ASSUME NEW s \in Fds, send(s) PROVE UNCHANGED names /\ (FileOpen' => FileOpen)
  BY <1>3 DEF send, FileOpen
<1>4. ASSUME NEW s \in Fds, NEW port \in Ports \cup {0}, NEW taken \in BOOLEAN, bind(s, port, taken)
      PROVE  UNCHANGED names /\ (FileOpen' => FileOpen)
  <2>1. s \in Sockets(st) /\ UNCHANGED names /\ (st' = st \/ st' = bind_to(st, s, "mnet", port))
    BY <1>4 DEF bind
  <2>2. CASE st' = st
    BY <2>1, <2>2 DEF FileOpen
  <2>3. CASE st' = bind_to(st, s, "mnet", port)
    <3>1. port \in AllPorts
      BY DEF AllPorts
    <3>2. Elsewhere(st', st, s) /\ s \in Sockets(st')
      BY <1>0, <2>1, <2>3, <3>1, BindTo
    <3>3. QED
      BY <2>1, <3>2, SocketIsNoFile, NoNewFile
  <2>4. QED
    BY <2>1, <2>2, <2>3
<1>5. ASSUME NEW s \in Fds, NEW dest \in Dests, NEW taken \in BOOLEAN, connect(s, dest, taken)
      PROVE  UNCHANGED names /\ (FileOpen' => FileOpen)
  <2>1. PICK v : v = towards(s, dest, taken)
    OBVIOUS
  <2>2. /\ s \in Sockets(st) /\ UNCHANGED names
        /\ st' = [v EXCEPT !.k = [v.k EXCEPT ![s] = [v.k[s] EXCEPT !.peer = Marked(dest)]]]
    BY <1>5, <2>1 DEF connect
  <2>3. v \in State /\ Elsewhere(v, st, s) /\ s \in Sockets(v)
    BY <2>1, <2>2, Towards
  <2>4. PICK x : x = [v.k[s] EXCEPT !.peer = Marked(dest)]
    OBVIOUS
  <2>5. x \in Socket /\ x # File
    <3>1. v.k[s] \in Socket /\ Marked(dest) \in {"core", "self", "ext"}
      BY <2>3, SocketsOf DEF Marked, Dests
    <3>2. x \in Socket
      BY <2>4, <3>1 DEF Socket
    <3>3. QED
      BY <3>2 DEF Socket, File
  <2>6. st' = [v EXCEPT !.k = [v.k EXCEPT ![s] = x]]
    BY <2>2, <2>4
  <2>7. Elsewhere(st', v, s) /\ st'.k[s] = x
    BY <2>3, <2>5, <2>6, Replaced
  <2>8. Elsewhere(st', st, s)
    BY <2>3, <2>7, ElsewhereTrans
  <2>9. QED
    BY <2>2, <2>5, <2>7, <2>8, NoNewFile
<1>6. ASSUME NEW s \in Fds, NEW dest \in Dests, NEW taken \in BOOLEAN, sendto(s, dest, taken)
      PROVE  UNCHANGED names /\ (FileOpen' => FileOpen)
  <2>1. s \in Sockets(st) /\ UNCHANGED names /\ st' = towards(s, dest, taken)
    BY <1>6 DEF sendto
  <2>2. Elsewhere(st', st, s) /\ s \in Sockets(st')
    BY <2>1, Towards
  <2>3. QED
    BY <2>1, <2>2, SocketIsNoFile, NoNewFile
<1>7. QED
  BY <1>1, <1>2, <1>3, <1>4, <1>5, <1>6 DEF Next

LEMMA NoEntriesYet == NoEntries \in Caches
BY DEF NoEntries, Caches

LEMMA NameStep == ClientInv /\ NameInv /\ [Next]_vars => NameInv'
<1> SUFFICES ASSUME ClientInv, NameInv, [Next]_vars PROVE NameInv'
  OBVIOUS
<1>0. cache \in Caches
  BY DEF NameInv
<1>1. CASE UNCHANGED vars
  BY <1>1 DEF vars, names, NameInv, FileOpen, Known
<1>2. CASE Next /\ \A name \in Names : ~lookup(name) /\ ~lookup_dies(name)
  <2>1. UNCHANGED names /\ (FileOpen' => FileOpen)
    BY <1>2, CallsOpenNoFile
  <2>2. QED
    BY <2>1 DEF names, NameInv, Known
<1>3. ASSUME NEW name \in Names, lookup_none(name) \/ lookup_unopened(name) PROVE NameInv'
  <2>1. cache' = cache /\ ~mdb'
    BY <1>3 DEF lookup_none, lookup_unopened
  <2>2. QED
    BY <2>1 DEF NameInv
<1>4. ASSUME NEW name \in Names, lookup_cache(name) PROVE NameInv'
  <2>1. PICK i : i = First(Cached(name))
    OBVIOUS
  <2>2. PICK chain \in Seq(Names) : chain = cache[Slot[name]]
    BY <1>0 DEF Caches, Slots
  <2>3. Cached(name) \in SUBSET Nat /\ Cached(name) \subseteq 1..Len(chain)
    BY <2>2 DEF Cached
  <2>4. i \in 1..Len(chain)
    <3>1. i \in Cached(name)
      BY <1>4, <2>1, <2>3, LeastOf DEF First, lookup_cache
    <3>2. QED
      BY <2>3, <3>1
  <2>5. PICK new : new = to_front(chain, i)
    OBVIOUS
  <2>6. new \in Seq(Names) /\ Within(chain, new)
    BY <2>4, <2>5, ToFront
  <2>7. cache' = [cache EXCEPT ![Slot[name]] = new] /\ st' = st /\ mdb' = mdb /\ uncached' = uncached
    BY <1>4, <2>1, <2>2, <2>5 DEF lookup_cache
  <2>8. Keeps(cache, cache')
    BY <1>0, <2>2, <2>6, <2>7, ChainReplaced
  <2>9. \A k \in 1..Len(Hosts) : Hosts[k].name \in Names
    BY ClientAssumption DEF ClientAssumption
  <2>10. QED
    BY <2>7, <2>8, <2>9 DEF NameInv, FileOpen, Keeps, Known
<1>5. ASSUME NEW name \in Names, NEW n \in 0..Len(Hosts), NEW nomem \in SUBSET (Scarce \cap 1..n),
             lookup_file(name, n, nomem)
      PROVE  NameInv'
  <2>1. /\ cache' = scanned(name, n, nomem) /\ mdb' = (n >= wanted(name))
        /\ uncached' = {x \in uncached \cup {Hosts[i].name : i \in nomem} : Cached(x)' = {}}
    BY <1>5 DEF lookup_file
  <2>2. CASE Preload
    <3>1. PICK c : c = preloaded(cache, nomem)[n]
      OBVIOUS
    <3>2. cache' = c
      BY <2>1, <2>2, <3>1 DEF scanned
    <3>3. c \in Caches /\ \A i \in 1..n : i \in nomem \/ Holds(c, Hosts[i].name)
      BY <1>0, <3>1, AllPreloaded
    <3>4. SUFFICES ASSUME mdb', NEW i \in 1..Len(Hosts) PROVE Known(Hosts[i].name)'
      BY <3>2, <3>3 DEF NameInv
    <3>5. i \in 1..n
      <4>1. n >= Len(Hosts)
        BY <2>1, <2>2, <3>4 DEF wanted
      <4>2. QED
        BY <4>1, ClientAssumption DEF ClientAssumption
    <3>6. CASE Holds(c, Hosts[i].name)
      BY <3>2, <3>6 DEF Known
    <3>7. CASE i \in nomem
      <4>1. CASE Cached(Hosts[i].name)' = {}
        BY <2>1, <3>7, <4>1 DEF Known
      <4>2. CASE Cached(Hosts[i].name)' # {}
        BY <4>2 DEF Cached, Known, Holds
      <4>3. QED
        BY <4>1, <4>2
    <3>8. QED
      BY <3>3, <3>5, <3>6, <3>7
  <2>3. CASE ~Preload
    <3>1. \/ cache' = cache
          \/ \E i \in 1..Len(Hosts) : cache' = put_line(cache, i, nomem)
      <4>1. Lines(name) # {} => First(Lines(name)) \in 1..Len(Hosts)
        <5>1. PICK k : k = Lines(name)
          OBVIOUS
        <5>2. k \in SUBSET Nat /\ k \subseteq 1..Len(Hosts)
          BY <5>1, ClientAssumption DEF Lines, ClientAssumption
        <5>3. k # {} => First(k) \in k
          BY <5>2, LeastOf DEF First
        <5>4. QED
          BY <5>1, <5>2, <5>3
      <4>2. QED
        BY <2>1, <2>3, <4>1 DEF scanned, wanted
    <3>2. cache' \in Caches
      BY <1>0, <3>1, PutLine, ClientAssumption DEF Keeps, ClientAssumption
    <3>3. QED
      BY <2>3, <3>2 DEF NameInv
  <2>4. QED
    BY <2>2, <2>3
<1>6. ASSUME NEW name \in Names, lookup_dies(name) PROVE NameInv'
  <2>1. cache' = NoEntries /\ st' = NoSockets
    BY <1>6 DEF lookup_dies
  <2>2. QED
    BY <2>1, NothingOpen, NoEntriesYet DEF NameInv, FileOpen, Closed, File
<1>7. ASSUME NEW name \in Names, lookup(name) PROVE NameInv'
  BY <1>3, <1>4, <1>5, <1>7 DEF lookup
<1>8. QED
  BY <1>1, <1>2, <1>6, <1>7

\* find_name and find_ip: with preloading, every name of the file for which there was memory is
\* found in the cache from the moment the file has been read until the library gives names up,
\* for any file, malformed or not, any hash, any failures and any sequence of lookups.
THEOREM NamesAreKept == Spec => []NamesKept
<1>1. Init => NameInv
  BY NoEntriesYet, NothingOpen DEF Init, NameInv, FileOpen, Closed, File
<1>2. NameInv => NamesKept
  BY DEF NameInv, NamesKept, FileOpen, Known, Holds, Cached
<1>3. QED
  BY <1>1, <1>2, NameStep, ClientInvariant, PTL DEF Spec
=============================================================================
