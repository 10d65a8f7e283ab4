--------------------------- MODULE ClientLibrary ---------------------------
(***************************************************************************)
(* libipaddr.c, preloaded into every application of a virtual node: it      *)
(* binds and rebinds the application's sockets so that modelnet traffic     *)
(* leaves from the node's address and other traffic from the machine's, and *)
(* answers name lookups from the hosts file of the model.  SRCIP is set,    *)
(* MN_LOCALHOST too, KEEP_DSTIP is not.                                     *)
(*                                                                          *)
(* The application has one thread and datagram sockets.  The kernel below   *)
(* it (external) hands out the lowest free descriptor; a bind to a chosen     *)
(* port fails when this or another process has it.  Calls the library does  *)
(* not intercept (close, send) change the kernel's state only.              *)
(***************************************************************************)
EXTENDS Naturals, Sequences, FiniteSets, SequencesExt

CONSTANTS Fds,       \* descriptors the process may have, from 0
          Ports,     \* ports the application asks for
          AnyPort,   \* a port the kernel chose: one no other socket has
          Hosts,     \* lines of the hosts file, where well formed: sequence of [name, ip]
          Readable,  \* whether that file can be opened
          Scarce,    \* lines for whose entry in the cache there may be no memory
          Names,     \* names looked up, in the file or not
          Slot,      \* hash_string modulo NAME_HASH_SLOTS
          Preload    \* cache_preload

ASSUME ClientAssumption ==
    /\ Fds \subseteq Nat
    /\ AnyPort # 0 /\ Ports \cap {0, AnyPort} = {}
    /\ \A i, j \in 1..Len(Hosts) : i # j => Hosts[i].name # Hosts[j].name /\ Hosts[i].ip # Hosts[j].ip
    /\ Len(Hosts) \in Nat /\ \A i \in 1..Len(Hosts) : Hosts[i].name \in Names
    /\ Slot \in [Names -> Nat]
    /\ Scarce \subseteq 1..Len(Hosts)
    /\ Preload \in BOOLEAN /\ Readable \in BOOLEAN

VARIABLES st,     \* kernel: [Fds -> file], and the library's three fd_sets
          asked,  \* history: port the application bound the socket to
          lost,   \* history: sockets that once failed to get the address they needed
          stray,  \* history: the last datagram with a wrong [dest, src], of a socket not in lost
          cache,  \* name_hash: a sequence of names for every slot
          mdb,    \* use_mdb_hosts
          dead,   \* the process has died of free(filename), which is not initialised
          uncached \* history: names put_name_hash had no memory for, and has not since

names == <<cache, mdb, dead, uncached>>
vars == <<st, asked, lost, stray, names>>

Closed == [kind |-> "closed"]
File   == [kind |-> "file"]
\* Kernel socket; addr is "none", "mnet" (mn_localip) or "real" (INADDR_ANY).
Unbound == [kind |-> "socket", addr |-> "none", port |-> 0, peer |-> "none"]

Nothing == [dest |-> "none", src |-> "none"]

Slots == {Slot[n] : n \in Names}

NoSockets == [k |-> [s \in Fds |-> Closed], unbound |-> {}, mnet |-> {}, hasport |-> {}]
NoEntries == [x \in Slots |-> <<>>]

Init == /\ st = NoSockets
        /\ asked = [s \in Fds |-> 0] /\ lost = {}
        /\ stray = Nothing
        /\ cache = NoEntries
        /\ mdb = TRUE /\ dead = FALSE
        /\ uncached = {}

Sockets(w) == {s \in Fds : w.k[s].kind = "socket"}
Free(w) == {s \in Fds : w.k[s] = Closed}
NewFd(w) == CHOOSE s \in Free(w) : \A t \in Free(w) : s <= t
-----------------------------------------------------------------------------
(* Binding.                                                                  *)

\* The kernel's bind: whether socket s can have the address, ANY being in
\* conflict with every address on the port.  taken: another process has the port.
Bindable(w, s, addr, port, taken) ==
    /\ w.k[s].addr = "none"
    /\ port # 0 =>
         /\ ~taken
         /\ \A t \in Sockets(w) \ {s} :
              w.k[t].port = port /\ port # AnyPort => w.k[t].addr # addr /\ "real" \notin {addr, w.k[t].addr}

\* bind_to, when the kernel agrees.  The faulty variant forgets the
\* modelnet bit of a socket that is bound to the machine's address.
bind_to_bit(w, s, addr, port) ==
    [w EXCEPT !.k[s].addr = addr, !.k[s].port = IF port = 0 THEN AnyPort ELSE port,
              !.unbound = @ \ {s},
              !.mnet = IF addr = "mnet" THEN @ \cup {s} ELSE @,
              !.hasport = IF port # 0 THEN @ \cup {s} ELSE @ \ {s}]
bind_to(w, s, addr, port) ==
    [w EXCEPT !.k[s].addr = addr, !.k[s].port = IF port = 0 THEN AnyPort ELSE port,
              !.unbound = @ \ {s},
              !.mnet = IF addr = "mnet" THEN @ \cup {s} ELSE @ \ {s},
              !.hasport = IF port # 0 THEN @ \cup {s} ELSE @ \ {s}]

\* A new socket takes the place of s and gets its port, or if the application
\* does not care about the port another one.  Without a free descriptor
\* nothing happens.  The faulty variant takes another port in any case.
rebind_to_any(w, s, addr, taken) ==
    LET port == w.k[s].port
        new  == [w EXCEPT !.k[s] = Unbound]
    IN  IF Free(w) = {} THEN w
        ELSE IF Bindable(new, s, addr, port, taken) THEN bind_to(new, s, addr, port)
        ELSE bind_to(new, s, addr, 0)
rebind_to(w, s, addr, taken) ==
    LET port == w.k[s].port
        new  == [w EXCEPT !.k[s] = Unbound]
    IN  IF Free(w) = {} THEN w
        ELSE IF Bindable(new, s, addr, port, taken) THEN bind_to(new, s, addr, port)
        ELSE IF s \notin w.hasport THEN bind_to(new, s, addr, 0)
        ELSE new

\* A modelnet destination calls for the node's address, another one for the machine's.
AddrFor(dest) == IF dest = "ext" THEN "real" ELSE "mnet"

\* MNET_MAGIC_BIT: a datagram for another virtual node is addressed to the emulator,
\* one for the node itself is not.
Marked(dest) == IF dest = "mnet" THEN "core" ELSE dest

\* rebind_if_needed
rebind_if_needed(w, s, dest, taken) ==
    LET addr == AddrFor(dest)
    IN  IF s \in w.unbound
        THEN IF Bindable(w, s, addr, 0, taken) THEN bind_to(w, s, addr, 0) ELSE w
        ELSE IF (addr = "mnet") = (s \in w.mnet) THEN w
        ELSE rebind_to(w, s, addr, taken)

\* The kernel gives a socket that sends without an address its own.
autobind(w, s) ==
    IF w.k[s].addr = "none" THEN [w EXCEPT !.k[s].addr = "real", !.k[s].port = AnyPort] ELSE w
-----------------------------------------------------------------------------
(* The application's calls.                                                  *)

\* socket.  The faulty variants keep the bits of an earlier socket, and set the bit of
\* the next descriptor.
opened_next(w, s) ==
    [w EXCEPT !.k[s] = Unbound,
              !.unbound = @ \cup {s + 1}, !.mnet = @ \ {s}, !.hasport = @ \ {s}]
opened_stale(w, s) == [w EXCEPT !.k[s] = Unbound, !.unbound = @ \cup {s}]
opened(w, s) ==
    [w EXCEPT !.k[s] = Unbound,
              !.unbound = @ \cup {s}, !.mnet = @ \ {s}, !.hasport = @ \ {s}]

socket ==
    /\ Free(st) # {}
    /\ st' = opened(st, NewFd(st))
    /\ UNCHANGED <<asked, lost, stray, names>>

close(s) ==
    /\ s \in Sockets(st)
    /\ st' = [st EXCEPT !.k[s] = Closed]
    /\ asked' = [asked EXCEPT ![s] = 0] /\ lost' = lost \ {s}
    /\ UNCHANGED <<stray, names>>

\* bind: whatever address the application gives, the node's is used.
bind(s, port, taken) ==
    /\ s \in Sockets(st)
    /\ IF Bindable(st, s, "mnet", port, taken)
       THEN /\ st' = bind_to(st, s, "mnet", port)
            /\ asked' = [asked EXCEPT ![s] = port]
       ELSE UNCHANGED <<st, asked>>
    /\ UNCHANGED <<lost, stray, names>>

\* What connect, sendto and sendmsg do to a socket; the result of rebind_if_needed
\* is ignored.
towards(s, dest, taken) == autobind(rebind_if_needed(st, s, dest, taken), s)

\* History: sockets that asked for an address and did not get it.
lost_by(s, dest, taken) ==
    IF \/ rebind_if_needed(st, s, dest, taken).k[s].addr = AddrFor(dest)
       \/ s \notin st.unbound /\ (AddrFor(dest) = "mnet") = (s \in st.mnet)
    THEN lost ELSE lost \cup {s}

\* History: a datagram leaves with the wrong source, or past the emulator.
Strayed(excused, dest, src) ==
    IF excused \/ (dest # "mnet" /\ src = AddrFor(dest)) THEN stray ELSE [dest |-> dest, src |-> src]

connect(s, dest, taken) ==
    LET w == towards(s, dest, taken)
    IN  /\ s \in Sockets(st)
        /\ st' = [w EXCEPT !.k[s].peer = Marked(dest)]
        /\ lost' = lost_by(s, dest, taken)
        /\ UNCHANGED <<asked, stray, names>>

sendto(s, dest, taken) ==
    LET w == towards(s, dest, taken)
    IN  /\ s \in Sockets(st)
        /\ st' = w
        /\ lost' = lost_by(s, dest, taken)
        /\ stray' = Strayed(s \in lost', Marked(dest), w.k[s].addr)
        /\ UNCHANGED <<asked, names>>

\* send on a connected socket is left to the kernel.
send(s) ==
    /\ s \in Sockets(st)
    /\ st.k[s].peer # "none"
    /\ stray' = Strayed(s \in lost, st.k[s].peer, st.k[s].addr)
    /\ UNCHANGED <<st, asked, lost, names>>
-----------------------------------------------------------------------------
(* Names.                                                                    *)

Lines(name) == {i \in 1..Len(Hosts) : Hosts[i].name = name}

\* get_name_hash and get_ip_hash: the entry moves to the front of its chain.  The
\* faulty variant links it to the wrong neighbour.
to_front_cut(chain, i) == <<chain[i]>> \o SubSeq(chain, i + 1, Len(chain))
to_front(chain, i) == <<chain[i]>> \o SubSeq(chain, 1, i - 1) \o SubSeq(chain, i + 1, Len(chain))

Cached(name) == {i \in 1..Len(cache[Slot[name]]) : cache[Slot[name]][i] = name}
First(s) == CHOOSE i \in s : \A j \in s : i <= j

put_name_hash(c, name) == [c EXCEPT ![Slot[name]] = <<name>> \o @]

\* put_name_hash for a line of the file; there is no memory for the lines of nomem.
put_line(c, i, nomem) == IF i \in nomem THEN c ELSE put_name_hash(c, Hosts[i].name)

\* The cache after the first i lines of the file.
preloaded(c, nomem) ==
    LET f[i \in 0..Len(Hosts)] == IF i = 0 THEN c ELSE put_line(f[i - 1], i, nomem)
    IN  f

\* The lines that are read: with preloading all of them, otherwise down to the name.
wanted(name) == IF Preload \/ Lines(name) = {} THEN Len(Hosts) ELSE First(Lines(name))

\* The cache when the first n lines of the file are well formed.
scanned(name, n, nomem) ==
    IF Preload THEN preloaded(cache, nomem)[n]
    ELSE IF Lines(name) # {} /\ wanted(name) <= n THEN put_line(cache, wanted(name), nomem)
    ELSE cache

\* find_name, for gethostbyname, and find_ip, for gethostbyaddr with the address of
\* that name.  Without use_mdb_hosts not even the cache is looked at.
lookup_none(name) ==
    /\ ~mdb
    /\ UNCHANGED <<st, cache, mdb, uncached>>

lookup_cache(name) ==
    /\ mdb /\ Cached(name) # {}
    /\ cache' = [cache EXCEPT ![Slot[name]] = to_front(@, First(Cached(name)))]
    /\ UNCHANGED <<st, mdb, uncached>>

\* The file cannot be opened, at all or for want of a descriptor: use_mdb_hosts is
\* cleared for good.
lookup_unopened(name) ==
    /\ mdb /\ Cached(name) = {}
    /\ Readable => Free(st) = {}
    /\ mdb' = FALSE
    /\ UNCHANGED <<st, cache, uncached>>

\* The file is opened, and never closed.  Where a line that is to be read is malformed,
\* that is the end of names as well, also if the lookup has met its name before.
lookup_file(name, n, nomem) ==
    /\ mdb /\ Cached(name) = {}
    /\ Readable /\ Free(st) # {}
    /\ st' = [st EXCEPT !.k[NewFd(st)] = File]
    /\ cache' = scanned(name, n, nomem)
    /\ uncached' = {x \in uncached \cup {Hosts[i].name : i \in nomem} : Cached(x)' = {}}
    /\ mdb' = (n >= wanted(name))

lookup(name) ==
    /\ \/ lookup_none(name) \/ lookup_cache(name) \/ lookup_unopened(name)
       \/ \E n \in 0..Len(Hosts) : \E nomem \in SUBSET (Scarce \cap 1..n) : lookup_file(name, n, nomem)
    /\ UNCHANGED <<asked, lost, stray, dead>>

\* Before the library gives names up, by either way, it frees filename, which was never
\* set: the process may die of that.
lookup_dies(name) ==
    /\ mdb /\ Cached(name) = {}
    /\ dead' = TRUE
    /\ st' = NoSockets /\ asked' = [s \in Fds |-> 0] /\ lost' = {}
    /\ cache' = NoEntries /\ uncached' = {}
    /\ UNCHANGED <<stray, mdb>>

\* Another virtual node, the node itself, a machine outside the model.
Dests == {"mnet", "self", "ext"}

Next == /\ ~dead
        /\ \/ socket
           \/ \E s \in Fds : close(s) \/ send(s)
           \/ \E s \in Fds, port \in Ports \cup {0}, taken \in BOOLEAN : bind(s, port, taken)
           \/ \E s \in Fds, dest \in Dests, taken \in BOOLEAN :
                connect(s, dest, taken) \/ sendto(s, dest, taken)
           \/ \E name \in Names : lookup(name) \/ lookup_dies(name)

Spec == Init /\ [][Next]_vars
-----------------------------------------------------------------------------
\* Type.
TypeOK ==
    /\ st.unbound \subseteq Fds /\ st.mnet \subseteq Fds /\ st.hasport \subseteq Fds
    /\ \A s \in Sockets(st) :
         /\ st.k[s].addr \in {"none", "mnet", "real"}
         /\ st.k[s].port \in Ports \cup {0, AnyPort}
    /\ \A x \in Slots : Range(cache[x]) \subseteq Names
    /\ asked \in [Fds -> Ports \cup {0}]
    /\ uncached \subseteq Names /\ {mdb, dead} \subseteq BOOLEAN

\* The library's two bits say what the kernel knows of every socket, through any
\* sequence of binds, rebinds and reuse of descriptors, unless a rebind of it
\* has failed.
BitsTruthful ==
    \A s \in Sockets(st) \ lost :
        /\ s \in st.unbound <=> st.k[s].addr = "none"
        /\ s \in st.mnet <=> st.k[s].addr = "mnet"

\* Traffic to modelnet goes to the emulator with the node's address, other traffic with the
\* machine's, also when the socket was used for the other kind before, and also for
\* send on a connected socket, which the library does not see.
RightSource == stray = Nothing

\* A socket the application has bound to a port keeps it.
PortKept == \A s \in Sockets(st) \ lost : asked[s] # 0 => st.k[s].port = asked[s]

\* With preloading, once the file has been read every name of it is found without the
\* file, unless there was no memory for its entry, until the library gives names up
\* for good: moving entries to the front of their chains, and reading the file again
\* for a name that is not in it, lose none.  (After a malformed line it is given up at
\* once, and as the file is never closed also when misses have used up the descriptors:
\* from then on no name is found, cached or not.)
NamesKept ==
    mdb /\ Preload /\ (\E s \in Fds : st.k[s] = File) =>
        \A i \in 1..Len(Hosts) : Cached(Hosts[i].name) # {} \/ Hosts[i].name \in uncached
=============================================================================
