# A TLA+ model of ModelNet

ModelNet emulates a wide-area network on one or a few machines ("cores"). Unmodified
applications run on edge hosts under virtual addresses; their packets are routed
through a core, whose kernel module holds every packet for as long as the links of
the emulated topology would, drops those that the links would drop, and forwards the
rest. This directory holds the TLA+ modules that model the core and the library on
the edge hosts, the TLC configurations that check them, and proofs for TLAPS.

    tlc -workers 2 -config HopLinux.cfg MCHopQueue     # one run, see the table below
    tlapm LinuxEmulatorProofs.tla                       # one module of proofs, section 5

PROJECT.json lists the runs, the source lines each definition stands for, the
hazards the properties were written for, the faults that each property is known to
detect, the findings and the theorems.

## 1. Inventory

Paths are relative to `src/`; L is `emulator/linux/module`, F is
`emulator/freebsd6.4/module`.

| Component | State | Operations | Hard because | What makes it correct |
|---|---|---|---|---|
| Hop bandwidth queue: `update_bwq`, `emulate_hop` in L, F `ip_modelnet.c` | per hop a ring of exit ticks and lengths, `headslot`, `slotdepth`, `bytedepth`, `fragment` | bring the ring up to date, loss draw, overflow test, bandwidth charge, append | the ring is cleaned only when a packet comes, so decisions rest on old entries; ring wrap; rounding | behaves like a FIFO link of `qsize` packets; exits in order and bounded |
| Linux packet path: L/`ip_modelnet.c` | `packet_calendar`, `calendar_tick`, `calendar_lock`, `hop->lock`, `struct packet` with its path pointer | `filter_ipinput`, `emulate_path`, `emulate_nexthop`, `emulate_hop`, `hopclock` | netfilter softirqs and the work item share everything; `calendar_tick` is read under a lock and used after; the packet is used after it was published | released in the tick computed, every hop of the path once and in order, one owner, order kept on a link, leaves in the end |
| Linux module lifecycle: L/`ip_modelnet.c` | sysctl table, hook, work queue, timer, `modelnet_die`, calendar | `modelnet_init`, `modelnet_cleanup`, `hopclock`'s requeueing | a work item that queues itself against a cancellation; failures half-way through init | rmmod ends and leaves nothing behind |
| Linux topology tables: L/`mn_pathtable.c` | `hoptable`, `nodetable`, `nodecount`, `pathtable` | `proc_hophandle`, `proc_nodetable`, `proc_nodecount`, `proc_pathentry`, `lookup_path`, `proc_hopstats` | no lock; tables are published before they are filled; failures half-way; packets keep pointers into them | packets follow the route file, nothing freed is read, nothing is lost |
| Linux link tracing: L/`mn_tcpdump.c` | store and hold buffer with their lengths, a drop counter | `handle_tcpdump`, `tcpdump_handle_inactivity`, `proc_read_dumps` | buffers are swapped without a lock under a blocked reader | the reader gets whole records, each once, in order |
| Random numbers: L/`ip_modelnet.c` | Mersenne twister | `random_seed`, `random_bits` | - | a draw is a choice in every model |
| FreeBSD packet path: F/`ip_modelnet.c` | as on Linux, one mutex; `pkt->state` | as on Linux; extensible queues between the hops | timers and packets on the same clock; `m_handle` | as on Linux |
| FreeBSD multi-core tunnel: F/`mn_remote.c`, `udp_send.c`, `udp_rewrite.c` | payload cache, aggregates | `remote_hop`, `remote_input`, `mc_pcache`, `mc_reunite`, `remote_flush`, `remote_aggregate*` | UDP loses, duplicates and reorders; expiry against late answers; addresses in messages; module reloads | a payload is reunited with its own header at most once, and freed once; the cache empties |
| FreeBSD extensible queues: F/`mn_xtq.c`, `mn_xcp.c` | `hop_calendar`, the pool of schedulers, per hop the estimates and budgets of XCP | install, free, enqueue, dequeue, the two timeouts | timers of hops that are reconfigured; fixed point in unsigned integers; timers that set their own next time | every XCP hop keeps its timers, no timer outlives its hop, no division by zero, time advances, feedback keeps within its budget |
| FreeBSD topology tables: F/`mn_pathtable.c` | as on Linux | as on Linux, and `sysctl_hopmod` | `sysctl_hopmod` changes a hop that carries packets | as on Linux |
| Client address library: `client/libipaddr.c` | the virtual node's address, three bits per descriptor, the name cache | `socket`, `bind`, `connect`, `sendto`, `sendmsg`, `gethostbyname`, `gethostbyaddr`, ... | every call may have to bind or rebind first, which can fail halfway; descriptors are reused behind its back | packets carry the right source address, a chosen port is kept, names are found |
| Topology construction: `scripts/topology-build` | graph | `allpairs`, `mkmodel`, `inet2xml` | - | routes are shortest paths of the graph |
| Deployment: `scripts/topology-deploy` | - | `deployhost`, `modelload`, `vnrunhost` | errors of single writes are ignored | the tables agree with the files |
| Measurement and partitioning: `tools`; testbed drivers: `test` | - | - | - | - |

How they interact. `modelload` writes the four `/proc/sys/modelnet` files in the
order hoptable, nodetable, nodecount, pathentry (once per route). A packet enters
through the netfilter hook (Linux) or ipfw (FreeBSD), finds its path with
`lookup_path`, and `emulate_nexthop` takes it from hop to hop: `emulate_hop` computes
the tick it leaves the hop and puts it on the calendar, `hopclock` takes it off in
that tick and calls `emulate_nexthop` again, until the path ends and
`forward_packet` hands it to the stack. A hop that another core owns goes through
`remote_hop`; on Linux that is a stub which always fails, on FreeBSD it sends a digest of
the packet to that core and keeps the payload. FreeBSD's `hopclock` also works off the
timers of the extensible queues, and `modelmod` exchanges a hop's queue while it runs. On
the edge hosts `libipaddr` is preloaded into the applications: it gives their sockets the
address of their virtual node and sends their packets to the core.

## 2. Plan

Done, in this order, the most important first:

1. `BwQueue`, `HopQueue`, `FifoLink`: the bandwidth queue of both kernels, checked
   and proved.
2. `LinuxEmulator`: the packet path with its locks, composed of one `BwQueue` per hop.
3. `LinuxLifecycle`: loading and unloading.
4. `LinuxTopology`: the tables, end to end from the route file to the wire.
5. `MultiCore`: the FreeBSD packet path across two machines and the network between them.
6. `TcpdumpBuffers`: link tracing and its reader.
7. `FreeBSDModule`: tables, queues, timers, packets and module events of FreeBSD together.
8. `XcpRouter`: the arithmetic of an XCP hop.
9. `ClientLibrary`: the sockets and names of an application on an edge host.

10. Proofs, for every value of the constants, of every safety property that the runs
    check of `HopQueue`, `LinuxEmulator`, `LinuxLifecycle`, `LinuxTopology`,
    `TcpdumpBuffers`, `FreeBSDModule` and `ClientLibrary`, each in a module of its own
    (section 5).

To do:

11. Proofs about `MultiCore` and `XcpRouter`, which are only model-checked.
12. Ticks modulo 2^w: what the comparisons `exittick < tick` do when the counter wraps.

The runs ask one question each.

## 3. Modules and the code

**BwQueue** holds the ring as a record and the code as operators on it:
`update_bwq`, `charge` (the arithmetic of both kernels: the fragment left by the
predecessor, Linux's random rounding, FreeBSD's carry), `enqueue`, `overflows` and
`emulate_hop`. A queue is the mutable part of `struct hop`, a link the configured
part. `System` chooses the kernel: Linux brings the ring up to date before it acts
on a loss, FreeBSD returns first. The two random draws are parameters: the loss
draw `lost`, possible only where `plr` is not 0, and the rounding draw `extra`.
In Linux both come from the same word; taking them as independent allows more, and
no property needs them correlated. `BytesAhead` is the running sum of the lengths from the
head on, which the loop of `update_bwq` takes off `bytedepth`. Statistics are left out.

**HopQueue** is one such link over time: `Arrive` is `emulate_hop`, `Tick` is a tick of
`hopclock`. **FifoLink** is what a link promises: a sequence of the exit ticks still
to come, at most `Capacity` of them, each packet starting when its predecessor ends.
The refinement mapping `Backlog` is the part of the ring that has not exited at the
current tick; the entries that have are the bookkeeping the code has put off.

**LinuxEmulator** has one action per section of the code between two points where
another context can come in:

| Action | Code |
|---|---|
| `filter_ipinput_accept`, `filter_ipinput_steal` | the hook; kmalloc failure and an unknown path give NF_ACCEPT; an empty path or a remote hop ends at once |
| `nf_read_tick` | `calendar_tick` read under `calendar_lock` |
| `nf_hop` | the section under `hop->lock`, including the drop |
| `nf_insert` | the insertion under `calendar_lock` |
| `nf_load_path`, `nf_store_path` | `++pkt->path`, after the unlock |
| `hopclock_start`, `hopclock_packet`, `hopclock_advance`, `hopclock_end` | the work item; one packet is one step, since `calendar_lock` is held throughout |
| `jiffy` | the timer interrupt |

`Uniprocessor` says which kernel: on one processor a softirq that has started is not
interrupted by the work item, and `spin_lock_bh` keeps softirqs out of it. `lookup_path`
is the constant `Path`; `LinuxTopology` is about how it comes about. `due`, `crossed`
and `inflight` are history for the properties.

**LinuxLifecycle** has one action per call of `modelnet_init` and `modelnet_cleanup`,
and the four steps in the life of a delayed work item. Work queue and timer are
external, modelled as the code uses them. The calendar's contents are a number. vmalloc,
`create_workqueue` and the registrations may fail; the work queue is not tested, so
without one loading ends in `"oops"`, a NULL pointer.

**LinuxTopology** cuts the four `/proc` handlers where something becomes visible to a
packet or an allocation, a copy or the parsing of a value can fail. `modelload` ignores errors and
goes on, so a failed handler is followed by the next write: `proc_nodetable` leaves the rest of the
table to the old model when a copy or a length is wrong, with the piece that failed zeroed or not.
The handlers hold no lock and disable no interrupt (a comment in `proc_nodecount` supposes that they are
disabled; no code does it), so packets are handled between any two of these actions, and packets of the
last model may be under way when the next one is deployed. Memory is explicit: a row or a path
that has been allocated and not cleared, or has been freed, is marked, and a packet
that reads it goes `wild`. `met` is a history of what has come in the way of a packet: it arrived while a
handler was at work on what it reads (`handler`), a node of it had not been written
(`oldnode`), or its array was freed under it (`free`). `NoWildAccess` and `FollowsRoute` say that nothing
else can go wrong with it. A route file has one route for each pair of nodes, as `allpairs` writes it.

**MultiCore** is two or more FreeBSD cores and the network. The state of a core is a record:
the heap of `struct packet` by address, the calendar, the payload cache, one aggregate per
destination, `mn.state`. The operators on it (`emulate_nexthop`, `remote_hop`, `mc_pcache`,
`remote_aggregate`, `mc_reunite`, `remote_flush`, ...) return the set of possible outcomes: the core
afterwards and the messages sent. Every handler runs under `mn_mtx`; one that works on several
packets is a sequence of steps that no other handler of the core comes between. Addresses
are reused, as malloc does, because the id of a digest is the address of its payload. The
network may deliver late, out of order, twice, or never: a lost message is one that is not
received. The faults (a duplicate, a change of `mn.state`, a reload of the module) are counted.
`remote_input` allocates a packet for every digest and gives it the digest's id and expiry before
`mc_reunite` looks for the payload, as the code does, so the address in an old digest may be that
of the packet just allocated for it. A core that corrupts its memory or follows NULL notes how in
`flaws`: `itself` (such a match: the packet is freed twice), `whole` (after a digest with its payload `m`
is NULL for the loop test), `push` (a full aggregate cannot be sent, and the packet is freed while it is
cached), `no mbuf`, `no aggregate`, and `memory` for any other misuse of `MN_FREE_PKT` and
`MN_UNCACHE_PKT`. It is then not followed further. `OneOwner` says what precedes each, and
that there is no `memory`. `remote_input` never sets `m_handle`, through which `MN_FREE_PKT` writes; the
models have no `m_handle`.
The cores' tick counters differ (`Boot`): ids carry no machine, and two cores that agree
in address and expiry could take each other's digests.

**TcpdumpBuffers** has the two buffers as sequences of record parts, and one action per
section of `handle_tcpdump`, `tcpdump_handle_inactivity` and `proc_read_dumps` between which another
context can come. `hopclock` runs in process context and holds no lock: packets, and the reader, come
between its test and the rotation and between the statements of the rotation. `raced` notes that a
packet has done harm there: it rotated the buffers itself (`handle_tcpdump` found the store buffer
full), or it was recorded after `hopclock` had taken the length (`Spoils`). Until then the properties hold; what
they say of the drop counter and of writes past the end holds always. The reader reads
short, is interrupted and faults.

**FreeBSDModule** puts together what shares `hoptable` on FreeBSD: the sysctl handlers in the order of
`modelload`, `sysctl_hopmod` between any two of its sysctls, packets, the timers of the extensible
queues with their pool of schedulers, and `MOD_UNLOAD` and `MOD_LOAD`. The pool starts with one block of
`NUM_HOP_SCHEDS` schedulers and grows block by block up to `MAX_ALLOCATIONS` (`MaxBlocks`). Allocations
fail: a path array, a block, or a pipe, which `xcp_alloc_pipe` asks for with `M_NOWAIT`
after it has counted it; the hop then has XCP's functions and no pipe, and no timers. A calendar slot is the number of ticks to go.
The two loops over the hop table are recursive functions of the number of hops done
(`Installed`, `Uninstalled`), since each iteration may take schedulers that the next one misses.
The kernel is followed until it uses memory that is not there. `wild` then says how, and `met` what has
happened before: packets were under way when their model was replaced, a pipe was taken from a hop
and left its timers, a hop has no pipe, a route has no hop (`emulate_nexthop` reads the
first hop's `emulator` before it looks whether there is one). `NoWildAccess` is `wild \subseteq met`. `missed`
are the timers that were refused a scheduler the last time they were scheduled. Left
out: `sysctl_hopmod` may also hand a hop to another core (`hop->emulator`, `mn_pathtable.c` 285), which is
`MultiCore`'s subject.

**XcpRouter** is one hop with XCP. The numbers are the code's (`FP_SHIFT` 10 and the gains of
`mn_xcp.c` in that scale), with `hz`, which `xcp_init` wants to be at least 1000, as a parameter;
`BTA_` and `BTF_`, the only ones that can leave the range of their type, are taken modulo
`2^Width`. A packet arrives (`xcp_do_enqueue`), leaves (`xcp_do_dequeue` with `fill_in_feedback`),
and either timer fires, in any order. Which traffic there is (`mix`) and whether the hop has a limit of
bandwidth is chosen at the start. After a division by zero (`fault`) or an interval of 0
ticks, with which `hopclock` never ends, nothing happens any more (`Running`).

**ClientLibrary** is one process under the library: the kernel's view of its descriptors beside the
three sets of bits, and the name cache as a sequence per slot; `preloaded` is the cache after the
first lines of the hosts file. `lookup` has one action for each way out of `find_name`: names have been
given up (`lookup_none`), the cache has it, the file cannot be opened, the file is read up to a
malformed line or to where the lookup ends. There may be no memory for the entries of the lines in
`Scarce` (`uncached`). Opening may fail and a line may be malformed; either clears `use_mdb_hosts`
(`mdb`) for good, before which an uninitialised pointer is freed: the process dies (`lookup_dies`) or goes on.
What the file holds does not change. The kernel is external: a bind to
a port may fail because another process has it. Which port the kernel chooses makes no
difference, so `AnyPort` stands for one that nobody else has. `lost` are the sockets for which
a bind the library needed has failed; the library ignores that, and nothing is promised of them.

The names ending in `_short`, `_not`, `_late`, ... are variants of a definition with a
fault, kept to make sure that the properties notice.

## 4. Runs

| Run | What it shows | States |
|---|---|---|
| `hop_linux` | The ring's indices, order, cleanliness and horizon, and the refinement of `FifoLink`, on a link of 100 bytes per tick with `qsize` 3 | 19 000 |
| `hop_freebsd` | The refinement with FreeBSD's arithmetic | 24 000 |
| `linux_up` | On one processor: a packet is released in the tick computed for it, crosses its path, keeps its order on a link, is not used after it was freed, and leaves in the end | 44 000 |
| `linux_smp` | Two contexts and the work item: rings lawful, one owner | 211 000 |
| `smp_still_queued` | Violation: the work item frees a packet that a context goes on writing to | |
| `lifecycle` | rmmod ends and leaves nothing behind, where nothing runs between the test of `modelnet_die` and the requeueing | 122 |
| `topology` | Three deployments with failures in every handler and a packet at any moment: one that meets no handler at work on its entry, no stale node and no reload follows its route and reads nothing unset or freed; no path is lost | 433 000 |
| `multi_core` | Two cores, two packets, one fault: a payload meets its own digest, is forwarded at most once; on a core without flaws it has one owner, and each flaw has its cause; a freed packet is looked at only after a duplicate or a reload; the cache of a sound core empties | 334 000 |
| `tcpdump` | Three packets and one reader, inside `hopclock`'s rotation as well: drops are counted and nothing is written past the end; until a packet spoils a rotation every byte comes once and in order, there is no end of file, and everything is read in the end | 499 000 |
| `freebsd_module` | Two deployments, one change of a queue, one reload, failing allocations and a pool of two blocks: nothing is used that is not there but after one of four causes, routes followed, pipes counted, no scheduler lost, no timer but one that was refused | 2 190 000 |
| `xcp` | Under all orders of arrivals, departures and timeouts: only a window below a kilobyte and an unlimited hop divide by zero, timers in the future unless a round trip is shorter than a tick or longer than the calendar, budget kept | 986 000 |
| `client_lib` | Bits right, source right, port kept, names kept until they are given up, with failing binds, reused descriptors and a faulty hosts file | 841 000 |

**Bounds.** `MaxTick`, `MaxJiffies`, `LastArrival` end time after the ring and the calendar
have wrapped: with `qsize` 3 and six ticks the ring goes round more than once, with
`SCHEDLEN` 8 and ticks from 6 to 16 so does the calendar. `MaxCharge` is no bound but
the longest transmission of the lengths given, and TLC evaluates the assumption that
says so. `MaxDepth` only bites without a bandwidth limit. The packet lengths, at 100
bytes per tick, are one shorter than a tick, one that leaves a remainder and one that
leaves none; h2 is slow enough to take the other arithmetic. Three packets, two of
them on the same path, are enough for a queue to overflow on the second hop while
the first is in use. Two contexts are enough for every pair of sections to
interleave; a third adds no new pair. `MaxQueued` bounds a number. The three models of
`topology` grow the node count and then keep it, so that tables are read with the
numbers of a later deployment after a failed write, and number the same two addresses anew, so
that a stale node leads elsewhere; with one packet, which can be late for each of them. `NoOverrun` of
`LinuxEmulator`, which `MCLinuxEmulator` assumes and TLC evaluates, is what `QCALC` in
`proc_hophandle` warns about: a full queue fits into a turn of the calendar.

`MultiCore`: two addresses and two packets, so that an address is freed and used again while an
old digest is under way; a path of four hops, the second and fourth on the other core, so that a
digest comes home, its payload goes on and is cached once more; six ticks, expiry
after two and a flush at every second, so that the cleaner, the expiry and the next packet
come in every order; an aggregate that is full with the second digest. `MaxFaults` 1: a fault
of each kind, one per behaviour. `TcpdumpBuffers`: a buffer that holds two records and a bit,
reads of up to three parts, one fault of the reader. Three packets are one that fills the store
buffer, one inside the rotation and one after it. `FreeBSDModule`: two blocks of two schedulers, so that the
pool grows when the second pipe comes and is full when a pipe was replaced; one packet at a time (a second
only adds queueing, which is left to `BwQueue`); one route without hops and one over an XCP
hop. `XcpRouter`: a near and a far flow with a packet below a kilobyte and an acknowledgement; flows with
a window below a kilobyte and a round trip of less than a tick; one with a round trip longer than the
calendar; a hop with and one without a limit; `hz` is 1000, the least that is accepted. `MaxArrivals` 2 per control
interval and one packet in flight, `qsize` 2; any number of intervals. The estimates keep the set of values
finite; `Width` 26 is enough for them, and only what is subtracted wraps. `ClientLibrary`:
three descriptors, so that a rebind finds the last one or none and three misses use them up, two names
in one slot and one that is in no file, one port the application may ask for on any
socket, and one of the two lines may find no memory.

Deadlock is not checked where time or the number of packets is bounded and a run may come
to its end, nor in `xcp`, where the kernel panics, and `client_lib`, where the process may die; it
is in `freebsd_module`.

**Fairness.** In `LinuxEmulator`: the timer interrupts (`jiffy`), and a processor that has a
softirq to finish or the work item to run does not stay idle; both are weak, and both
are what the interrupt hardware and the scheduler provide. That is less than fairness of
each context, and enough, because arrivals end. Arrivals themselves are not fair. In
`LinuxLifecycle`, the clock's steps are weakly fair. Those steps of rmmod that do not wait are
strongly fair: on the kernel of that run rmmod is kept out whenever `hopclock` is between test
and requeueing, so it is not continuously enabled, but a scheduler gives it the processor
again and again. Its waits are weakly fair only. In `MultiCore` time passes and a core's clock
and the handler it has begun go on, weakly fair; the network is not fair, it may lose
everything. In `TcpdumpBuffers` the clock and the reader are weakly fair; packets are not.

**Finding.** One comment says something a run refutes, `smp_still_queued`, quoted in PROJECT.json
with its line. It needs two processors; the testbed in `test/Readme.txt` has one, and
`linux_up` shows that there it holds.

**Other configurations.** Some of the passing runs assume that something does not
happen that the code does not rule out (`linux_up`, `lifecycle`, `hop_linux`, `hop_freebsd`), others except from their
properties what follows it. These configurations let it happen, or check the property
without the exception, and TLC finds it violated:

| Configuration | Module | Property | What TLC shows |
|---|---|---|---|
| `HopNoLimit.cfg` | `MCHopQueue` | `NoLimitMeansNoQueueing` | without a bandwidth limit ("bw delay of 0 means no bw limit") the ring is never cleaned, and packets are scheduled by the exit of the first packet ever |
| `HopFreeBSDRate.cfg` | `MCHopQueue` | `NoFasterThanLine` | packets that exactly fill the fragment take no time |
| `SMPLinkFifo.cfg` | `MCLinuxEmulator` | `LinkFifo` | two contexts insert in the opposite order of their acceptance |
| `LifecycleNewOnes.cfg` | `LinuxLifecycle` | `NoNewOnes` | the timer is armed after its cancellation |
| `TopologyIrqs.cfg` | `MCLinuxTopology` | `InterruptsDisabled` | a packet in the middle of a handler reads a row before it is allocated; `proc_nodecount` has the comment that interrupts are disabled |
| `MultiCorePush.cfg` | `MCMultiCore` | `PushSafe` | the push of a full aggregate fails, and a packet is freed that the cache still lists |
| `TcpdumpInterrupted.cfg` | `TcpdumpBuffers` | `AllThere` | a packet inside `hopclock`'s rotation loses bytes ("XXX needs lock" stands at the call) |
| `FreeBSDStrayTimer.cfg` | `MCFreeBSDModule` | `NoStrayTimer` | a hop whose XCP queue was replaced keeps its timers, though `xcp_free_pipe` says "Unschedule timers if present" |
| `XcpNegative.cfg` | `MCXcpRouter` | `NeverNegative` | a charge wraps the budget around, of which `mn_xcp.h` says that it cannot be negative |

## 5. Proofs

Each component's theorems are in a module of their own, which EXTENDS the component's.
They hold for every value of the constants that satisfies the named assumptions, which
TLC evaluates on the instances of the runs: any number of packets, hops, contexts and
descriptors, tables and buffers of any size, any length of time. The bounds of the runs
(`MaxJiffies`, `MaxPackets`, ...) are arbitrary numbers in them.

Some theorems also assume what the code takes for granted and does not enforce:

| Assumption | Theorems of | What it says | Without it |
|---|---|---|---|
| `BandwidthLimited` | `HopQueueProofs`; for all hops, `AllHopsLawful` of `LinuxEmulatorProofs` | the link has a bandwidth limit | `HopNoLimit.cfg` |
| `Uniprocessor` | `LinuxEmulatorProofs`, the second half | softirqs and the work item do not interleave | `SMPStillQueued.cfg` |
| `NoOverrun` | `LinuxEmulatorProofs`, the third part | every local hop has a bandwidth limit, and its full queue fits into a turn of the calendar | a packet is released a turn early |
| `~Preemptible` | `LinuxLifecycleProofs` except `TypeCorrect` | rmmod does not come between the test of `modelnet_die` and the requeueing | `LifecycleNewOnes.cfg` |
| `KnownTypes` | `PipesAreCounted`, `TimersStayAlive`, `NothingWild` of `FreeBSDModuleProofs` | every queue type that is written is an index of `qsw` | `xtq_install` gives the hop the last entry of `qsw`, which is XCP, without a pipe |
| `RoutesInRange` | `NothingWild` | the routes of a model use its hops | a path points past the hop table |

Where the code goes wrong on the way (a packet inside a handler or a rotation, a pipe without memory, a
malformed hosts file), the theorems have no such assumption: a history variable of the model notes
that it has happened (`met`, `hoperr`, `raced`, `missed`, `uncached`, `lost`), and the property says that nothing
else leads to the harm.

### Hop bandwidth queue: `BwQueueProofs`, `HopQueueProofs`

The link's fields are naturals and `qsize` is not 0, lengths are positive, and `MaxCharge` is
at least the longest charge.

The invariants are not inductive one by one. That the exits in the ring are in order
needs that the tail is at or after the clock or the ring is empty once `update_bwq` has
run; that needs that `update_bwq` removes exactly the entries that have exited, which
needs the order; and the bound on a new exit needs that the head is at most one
transmission ahead of the clock, and every other entry at most one ahead of its
predecessor. The invariant is their conjunction, `QueueLaw`: well-formed indices, `InOrder`
(in order, and at most `(j - i) * MaxCharge` apart), `HeadDue`. `BwQueueProofs` shows what
`update_bwq` and `enqueue` do to it: `Departed` is a prefix of the ring
(`DepartedPrefix`), what stays keeps its place (`UpdateBwq`, on `SlotsDistinct`: two
packets never share a slot), the law survives both (`UpdateKeepsLaw`,
`EnqueueKeepsLaw`), and so `emulate_hop` keeps it and returns an exit within the horizon
(`EmulateHopKeepsLaw`). The lemmas distinguish the tick the queue is brought up to date with
from the tick the law is about, because a netfilter context comes with a tick that may be
stale. `HopQueueProofs` adds time and derives

* `TypeCorrect`: the ring indices stay inside the arrays;
* `OrderCorrect`: exits are in order and the head is due;
* `HorizonCorrect`: an accepted packet exits between `tick + delay` and a full queue later;
* `RingStaysClean`: `RingIsClean`. The slots outside the queue are clear, and `bytedepth` is the
  sum of the lengths of the others. `BytesAhead` is a recursive function; that it satisfies its
  equation, and that the sums of the queue without its first packets are the old sums less
  theirs (`BytesShift`), is shown with a least counterexample, since the induction
  theorems of the library cannot be used;
* `Refinement`: `HopQueue` implements `FifoLink`. The initial ring maps to the empty
  backlog; a tick drops exactly a prefix of it (`TickRefines`); an arrival appends one
  entry that starts at the end of the last, or changes nothing (`ArriveRefines`), because
  `update_bwq` does not change the backlog (`UpdateKeepsBacklog`).

### Linux packet path: `LinuxEmulatorProofs`

Three layers, each an invariant on top of the last.

`EmuInv`, on every kernel, has the types, one lawful ring per hop (`RingInv`), and who has a
packet (`OwnerInv`). `RingInv` rests on the lemmas of `BwQueueProofs`, and on a fact about
time: the tick a context has read is never ahead of `calendar_tick`. `OneOwner` alone is not
inductive: an insertion gives a packet a second owner if the packet is on the calendar
already, so a context that has not inserted its packet must be known to be the only context
with it (`SoleHolder`), its packet fresh and not on the calendar (`OutsideFresh`), and everything
on the calendar in use (`CalendarLive`). Theorems:

* `TypeCorrect`; `HopRings`: the rings of all hops with a bandwidth limit are lawful;
* `AllHopsLawful`: `HopsLawful`, where all hops have one, the sums of bytes included; they and
  the rings need no more than the lock of the hop;
* `PacketHasOneOwner`: `OneOwner`, on any number of processors.

`UpInv`, on a uniprocessor: the contexts exclude each other and `hopclock`, and for every
packet the hops crossed are a prefix of its path as long as its path pointer says, except
between the insertion and the store of the pointer, where the context holds the difference
(`ContextPath`). That exception is where the multiprocessor kernel goes wrong. Theorems:

* `StillOnDelayQueue`: `StillQueued`, which `smp_still_queued` refutes on two processors;
* `CrossesItsPath`: `CrossesPath`.

`DueInv`, where also a full queue fits into the calendar: every packet in a slot is due at a tick
of that slot that lies within a turn of `calendar_tick` (`InReach`), and a context's tick is the
current one. The bound is `EmulateHopKeepsLaw`'s horizon. Two ticks within a turn that
share a slot are the same (`SlotIsTick`). Theorems:

* `CalendarIsExact`: `OnCalendarWhenDue`;
* `ReleasedOnTime`: every step of `hopclock` takes a packet in the tick it is due;
* `LinksAreFifo`: `LinkFifo`. `FlightInv` says of two packets in flight on a hop that the one
  accepted first is due no later and, if both are due in the same slot, is ahead in the slot; and
  that nothing the hop accepts from now on can be due before a packet it carries (`NotBefore`, a
  property of the ring that `update_bwq` and time keep). A packet is released in its
  tick from the front of its slot, so it is the first of its hop. `SMPLinkFifo.cfg` shows that two
  processors break the order between acceptance and insertion.

### Linux module lifecycle: `LinuxLifecycleProofs`

`LifeInv` says for each phase of `modelnet_init` and `modelnet_cleanup` what exists
(`PhaseInv`; loading may have ended in `"oops"`) and that after `cancel_delayed_work` nothing is
armed again (`QuietInv`): `die` is set before the cancellation and the work is not between test and
requeueing. Theorems: `TypeCorrect`, `UnloadLeavesNothing` (`NothingLeftBehind`), `CalendarOutlivesUsers`
(`CalendarInUse`), and `CancelIsFinal`: `NoNewOnes`, which `LifecycleNewOnes.cfg` refutes on the
other kernel.

### Linux topology tables: `LinuxTopologyProofs`

From `TopologyAssumption` (routes over existing hops and nodes, one per pair) and
`MarkerAssumption` (`Null`, `Garbage` and `Wild` are no values of the program). The theorem is
`[](hoperr \/ TopologyInv)`: after a failed write of `hoptable` nothing is promised, as in the
properties. `TopologyInv` follows a deployment through the four handlers, with packets between
any two statements and with failures in each. `RowInv` says how many
rows exist at each point, also after an allocation has failed, when `nodecount` and
`pathtable` are reset and later writes are refused; `NodeInv` that a node may be anything, since a
failed write of `nodetable` leaves nodes of an older model; `CellInv` and `EntryInv` say which
routes are in the table, complete, under way or left out, and that a path array is at the place
of its own two nodes; `LiveInv` that every live array is in the table and points to the hops in
force. `PktInv` says of a packet under way that has met nothing that it has a complete array of the
present load and has crossed what its pointer has passed (`Travels`); of the others it says only that they
have met something. So each handler has to show that it either leaves the arrays under way alone or
is noted by every packet on one of them (`FreedKeeps`), and `filter_ipinput` that a packet that notes
nothing gets a complete array of its own two nodes (`LookupFinds`). `FollowsRoute` needs them all: the end of
a path is found by its NULL, so a packet that gets a partly filled array would leave early.
Theorems: `NoWildRead` (`NoWildAccess`), `RouteIsFollowed` (`FollowsRoute`), `PathsAreOwned`
(`TableOwnsPaths`).

### Linux link tracing: `TcpdumpBuffersProofs`

`EveryByteOnce` is about the moments between rotations. `TraceInv` extends it through the
rotation, between whose statements packets and the reader come: `DataInv` says for each statement
still to be executed which of the two pointers and lengths holds the unread bytes, `PosInv` where
the reader may be at that moment. Both hold until `raced`. A packet inside the rotation that finds
room and comes before the length is taken appends to the buffer that is about to become the hold buffer,
and its bytes are counted in (`PacketSound`); every other one sets `raced`. `StateInv` (the lengths stay
inside the buffers, although the two pointers may coincide) and `CountInv` (traced packets are
recorded or counted as dropped) hold throughout. The lemmas on which it rests
are about parts of a buffer: a write at the end of the part in use does not change it
(`PartWrite`), and a part splits where the reader stops (`PartSplit`). Theorems: `TypeCorrect`,
`NoByteLost` (`EveryByteOnce`), `NoEndOfFile` (`NeverEOF`).

### Client address library: `ClientLibraryProofs`

`ClientInv` says that a descriptor that is no socket has no history (`CleanInv`: descriptors are
reused, and `BitsTruthful` of the next socket depends on it), and for every socket outside `lost`
that the library's bits, the kernel's address and the port the application asked for agree
(`Sound`). Every operation of the library is a chain of operators on the state; each has a lemma
that says what it does to its own descriptor and that it touches no other (`Elsewhere`). Theorems:
`BitsAreTruthful`, `SourceIsRight`, `PortIsKept`.

`NameInv` says that once a descriptor is the hosts file, and until the library has given names up,
the chain of each of its names has the name or there was no memory for it. `preloaded` reads the file
line by line; that a name put in stays while the rest is read is shown with a least counterexample
on the lines (`AllPreloaded`), and a move to the front of a chain loses no entry (`ToFront`). A reading that
stops at a malformed line clears `mdb`, and a process that dies has no file open. Theorem:
`NamesAreKept` (`NamesKept`).

### FreeBSD topology tables and extensible queues: `FreeBSDModuleProofs`

From `ModelAssumption` (routes between the nodes of the model, one per pair). `PathInv` leaves the
extensible queues out: the path tables do not depend on them. `TableInv` says that there is a
path table only together with the node table of the same model; `CellInv` and `LiveInv` that an
entry is the complete array of a route already written, and that every allocated array has an
entry, so that `sysctl_pathentry` never overwrites one; `PktInv` that a packet's array leads over its route, which
holds also after the array was freed, since arrays never change their hops. No assumption
on packets or queues is needed. Theorems: `PathsAreOwned` (`TableOwnsPaths`), `RouteIsFollowed`
(`FollowsRoute`; a packet whose array was freed under it is not forwarded in the model, it is what
`NoWildAccess` is about).

On top of it are four invariants of the queues, in the order in which they need each other.
`PipeInv`: the count is that of the hops whose type is XCP, whether or not there was memory for
their pipes. `TimerInv`: every pending timer is that of a pipe of the hop table in force, until a
pipe has been taken away; `FreeBSDStrayTimer.cfg` shows what happens then. `ArmedInv`: the free schedulers
and the pending timers are together those of the blocks allocated, and each timer of a pipe is on the
calendar or in `missed`, for a pool of any size. `SafeInv`: a live path leads over hops of the table
in force, the packets have live paths until a model is replaced under them, and hops with XCP have
pipes and routes have hops until one is noted that has not. Each of the four causes of `wild` has its own
conjunct, which shows that it is in `met` first (`FaultsMet`). The loops over the table
are followed hop by hop: `InstallAll` and `UninstallAll` say what the first i iterations have done,
and `Fires` what a timer does that arms itself again while the pool may have to grow and may be
full. Theorems: `PipesAreCounted` (`PipesCounted`), `TimersStayAlive` (`TimersAlive`), `NothingWild`
(`NoWildAccess`).

### Only model-checked

* The liveness properties `EventuallyGone`, `UnloadFinishes`, `CacheDrains` and `EverythingRead`,
  which need fairness; the prover has no rules for `ENABLED`.
* `CrossesPath`, `AtMostOnce`, `OneOwner` and `ReuniteFindsPacket` of `MultiCore`. Its handlers are
  operators that return sets of outcomes, and the invariant has to relate the heaps, caches
  and aggregates of all cores with every digest under way; no proof has been written.
* `NoFault`, `TimersAdvance` and `BudgetKept` of `XcpRouter`: they rest on products and quotients
  of several variables modulo `2^Width`, where the SMT solver is of little help; no proof has
  been written.

## 6. Not modelled

Not modelled, of the parts that run: the random number generator (its outcomes are choices),
checksums and address rewriting (`udp_send.c`, `udp_rewrite.c`, the header part of `mn_xcp.c`), statistics and the
handlers that only read them, the write through `m_handle` on FreeBSD, stream sockets and threads in the client
library and the address bit it takes off again on reception. Ticks are natural numbers: the
wrap of a 32-bit counter, after which `update_bwq` would wait for the next one, is a listed
hazard and no property covers it.

Not modelled, of the rest: the partitioners metis and chaco under `tools/assignment`, which are other
projects' code and four fifths of the lines of this repository; the graph, trace and traffic
tools beside them and the construction of topologies, which compute a file from a file
and keep no state; the test drivers; the scripts that copy files and start processes. What the
emulator needs of a topology (routes over existing hops, nodes numbered from 0) is an
assumption of `LinuxTopology` and `FreeBSDModule`.
