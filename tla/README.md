# A TLA+ model of the DPDK practice programs

This directory specifies the programs of the repository in TLA+: `l2fwd` and `l3fwd`
foremost, which forward packets between Ethernet ports with one polling thread per
core and no locks on the packet path. TLC checks the modules on small instances; TLAPS
proves the safety claims about `l2fwd` and `l3fwd`, their set-ups included, for every
number of cores, ports, queues and packets.

## The system

| Part | State | Operations | Works with |
|---|---|---|---|
| l2fwd set-up (`l2fwd/main.c`) | port mask, `l2fwd_dst_ports[]`, `lcore_queue_conf[]`, `nb_lcores` | `check_port_pair_config`, the destination loops, the lcore loop | gives the data path its tables |
| l2fwd data path (`l2fwd/main.c`) | `tx_buffer[]`, `port_statistics[]`, `force_quit`, timers | `l2fwd_main_loop` on every lcore, `print_stats` on the main one, `signal_handler`, main's wait and close | shares counters and buffers between lcores, without locks |
| l3fwd poll path (`l3fwd_lpm.c`, `l3fwd_common.h`, `l3fwd.h`, `l3fwd_sse.h`, ACL) | `tx_mbufs[]` and statistics per lcore | main loops, `send_packets_multi`, `send_packetsx4`, `send_single_packet`, drain | gets hops from a lookup; owns its TX queues |
| packet grouping (`common/pkt_group.h`, `common/sse/port_group.h`) | `pnum[]`, `lp`, `dlp` during one burst | `port_groupx4`, `GROUP_PORT_STEP`, `process_dst_port` | called by the senders and by event vectors |
| l3fwd event mode (`l3fwd_event*.c`, event loops) | event ports, `static int index` with a spinlock, batches of events, devices | `l3fwd_get_free_event_port`, event loops, cleanup, main's shutdown | event device and adapters |
| l3fwd set-up (`l3fwd/main.c`) | `lcore_params`, `lcore_conf[]`, pools | argument parsing, queue assignment, port init, link check | gives the paths their queues |
| l3fwd event set-up (`l3fwd_event.c`, `l3fwd_event_generic.c`, `l3fwd_event_internal_port.c`) | event queues, event ports and links, adapters, services | capabilities, device, queues, ports, adapters, services | gives the event loops their ports; starts services on service lcores |
| lookups (LPM, EM, FIB, ACL) | rule tables, read-only after set-up; arrays of one burst | packet types, classify a burst, merge IPv4 and IPv6 hops, filter an event vector | feed the senders and the event loops |
| rule files (`*_route_parse.c`, ACL, the `setup_*` functions) | rule arrays, tables of a socket | count, parse, add | feed the lookups |
| `rss_verify`, `mempool_cache_test`, `x710_check` | per-queue counters; a shared pool; none | small programs of their own | none |

What is hard about this code: lcores that share counters and buffers only because the
set-up kept them apart; packets that are half taken by a NIC or an event device;
packets that wait for a timer; a signal in the middle of a batch; devices that are
closed while others may use them; array algorithms whose correctness rests on the
alignment of a burst; and two senders that store into one table with different ideas
of its size. `PROJECT.json` lists these hazards with their lines.

## Modules

| Module | Models |
|---|---|
| `L2fwdSetup` | the configuration of l2fwd, one step per loop iteration |
| `L2fwd` | the data path of l2fwd: all lcores, the TX buffers of the library, statistics, signal, shutdown |
| `Forwarder` | what l2fwd promises an observer; `L2fwd` implements it |
| `L2fwdSetupProofs` | theorems about `L2fwdSetup` |
| `L2fwdProofs` | theorems about `L2fwd`: the inductive invariant and its consequences, and that `L2fwd` implements `Forwarder` |
| `L3fwdTx` | one polling lcore of l3fwd with its two senders and the drain |
| `L3fwdTxProofs` | theorems about `L3fwdTx` |
| `PktGroup` | grouping a burst by destination port, and `process_dst_port` |
| `PktGroupProofs` | theorems about `PktGroup` |
| `L3fwdEvent` | event-mode workers and the shutdown of event mode |
| `L3fwdEventProofs` | theorems about `L3fwdEvent` |
| `L3fwdSetup` | poll-mode set-up of l3fwd: queues, pools and tables per lcore and socket |
| `L3fwdEventSetup` | event-mode set-up: ports, event queues, event ports, adapters; extends `L3fwdSetup` |
| `L3fwdStart` | `main()` to the launch: composes the two set-ups with the services, the packet type check and the link check |
| `L3fwdStartProofs` | theorems about `L3fwdStart` and the two set-ups it composes |
| `L3fwdLookup` | one burst, a row of single events or one event vector through the LPM, EM, FIB or ACL lookup |
| `L3fwdLookupProofs` | theorems about `L3fwdLookup` |
| `L3fwdRules` | rule files to lookup tables, for the four lookups |
| `L3fwdRulesProofs` | theorems about `L3fwdRules` |
| `MCL2fwd`, `MCL3fwdTx`, `MCL3fwdSetup`, `MCL3fwdStart`, `MCL3fwdLookup`, `MCL3fwdRules` | instances for TLC |
| `MCStartup` | what runs once before an lcore forwards, as one instance: `L2fwdSetup`, `L3fwdStart` and `L3fwdRules` |
| `MCBurst` | what is decided about one burst, as one instance: `PktGroup` and `L3fwdLookup` |

A behaviour of `MCStartup` or `MCBurst` is a behaviour of one of the modules it extends, while the
variables of the others keep one fixed value: the parts run at different times and share no
state, and each invariant is the one of its own module.

### How they correspond to the code

**L2fwdSetup.** `loop` names the loop of `main()` being run, `loopIdx` its index; every action
is one iteration or the end of a loop. The inputs (ports present, lcores enabled, mask,
`-q`, `--portmap`) are what the parsers let through, chosen freely in `Init`. The four
ways the code ends early are the `exit...` values of `loop`.

**L2fwd.** An lcore's `pc` walks through `l2fwd_main_loop`: `top`, `drain`, `print`,
`rx`, `fwd`, and through the three parts of a flush. The flush of the library
(`rte_eth_tx_buffer_flush`) is three steps because it changes three things one after
another: the NIC takes packets, the buffer is emptied and the error callback counts the
refused ones, the caller counts the sent ones. Other lcores and `print_stats` see the
states between. `print_stats` reads one port per step (the counters of one port in a
single step). Packets are counted, not named: nothing in l2fwd depends on their
content. `due` and `timerDue` stand for the comparisons of the TSC with the drain and
statistics periods and may become true at any time; the first drain comes at once, as
`prev_tsc` starts at 0. `CONSTANTS` `RxPortList` and `Dst` are the result of the set-up,
with what `L2fwdSetup` shows of them as assumptions.

**L3fwdTx.** One lcore, because `tx_mbufs[]` and the TX queues belong to one each.
`RxPoll` receives a burst and gives each packet a hop; `SendGroup` is one round of
`send_packets_multi`'s send loop with `send_packetsx4`; `SendSingle` is
`send_single_packet` and the counting by its caller. `sendPath` is what the build and
the lookup choose: grouped (SIMD builds of LPM, EM and FIB), one by one (LPM without
SIMD), or ACL, where `acl_send_packets` takes either from burst to burst. EM, FIB and
ACL drop the statistics; only LPM keeps them.

**PktGroup.** One burst through `send_packets_multi`. `dstPort` changes as
`rfc1812_process` makes ports bad, in the order of the code, so that a comparison made
too early is seen. `pnum` starts as garbage and has room past its end, so that a stray
read or write is seen.

**L3fwdEvent.** The lcores take the spinlock, an event port and go through one of three
kinds of loop: single (LPM, EM), burst (LPM, FIB) or vector (LPM, EM, FIB). They share one
skeleton, dequeue, look up, enqueue until all is taken or the signal comes, cleanup; what
differs is the depth, what becomes of a `BAD_PORT` packet (`FreedAtOnce`: only the single
loops free it and go on with a stale `enq`), and that the vector loops first allocate an
array and return, event port and all, when there is no memory (`Entered`). The event device,
adapters and ports are external: a queue, a dequeue of any prefix, an enqueue that takes any
prefix. `unrouted` is the set of packets the lookup will find to be `BAD_PORT`. Main's `pc`
goes on through its shutdown after its own loop returned.

**L3fwdSetup.** `l3fwd_poll_resource_setup` in the order of the code: the lcores of
`--config`, the RX queue lists (filled before the ports are looked at), the ports, then
one step per port (`InitPort`: its queue numbers, `init_mem`, a TX queue for every
lcore) and one per lcore (its RX queues). The triples are everything `parse_config` lets
through, one past the last port, queue and lcore included, since it refuses only greater
numbers. `SocketOf` is the placement of the lcores (constant with `--no-numa`); a pool
belongs to a port, or to all, and a socket. The result is what `L3fwdTx` takes for
granted: queues that belong to one lcore.

**L3fwdEventSetup.** `l3fwd_event_resource_setup` with the same ports, lcores and
`init_mem`. What the event device says of itself (its limits, and which ports have an
internal RX or TX adapter port) is an input; it decides between the operations of
`l3fwd_event_generic.c` and of `l3fwd_event_internal_port.c`. Devices with fewer queues than
the code asks for are inputs too; the adapter loop then reads past `event_q_id[]`, and what
it reads is a free choice.

**L3fwdStart.** `main()` from the parsed arguments to the launch. `eventMode` picks one of
the set-ups; then come `l3fwd_event_service_setup` (the service library is external: an id
exists or not, an lcore has the services mapped to it; `service_id` starts as garbage, as in
the code), or the packet type check, and `check_all_ports_link_status` port by port, with a
signal at any moment.

**L3fwdLookup.** One burst from its types to its hops. A packet is what the code can learn
of it: type, options, transport, what each table says of its address, whether RFC 1812
refuses it. Packet types are sets of bits, `&` is the intersection, so the AND of a group in
EM and of four packets in LPM is what the code computes; the types a NIC reports share bits, so
that ICMP looks like TCP, and IGMP like both, when EM masks them (`NicL4`). `entry` is where the lookup is
called from: the poll loop, an event loop with single events, one with a vector that holds
its port, or a vector whose packets hold theirs; the last two go on through
`filter_bad_packets` and `process_event_vector`. The result array of a table is in the order
of its input array, so `Taken` names the packet whose result is used.

**L3fwdRules.** A line of a file is its first character, whether the rest of it can be
parsed, what it matches and its port. What it matches is a set of addresses, so that a
longer prefix is a subset and a 5-tuple a single address. `OpenFile` is the first pass, which
counts, `ReadLine` one line of the second, `AddRule` one rule on its way to LPM, EM or FIB,
`BuildContext` the two arrays on their way to an ACL context. `Width` is the width of the
shift `1 << port` in the mask checks (32 in the code).

## Runs

| Run | Instance | Shows |
|---|---|---|
| `MCStartup` | l2fwd: 4 ports, 2 lcores, `-q` 1 or 2, 2 pairs | destinations are an involution; lists partition the ports; no overrun; "Not enough cores" only when true |
| | l3fwd: poll mode with 2 ports, 2 lcores on 2 sockets, 2 queues, up to 3 triples, a pool per port; event mode with the same ports and lcores, 1 to 3 event queues, 1 or 2 event ports, up to 2 service lcores | RX queues shared out exactly, TX queues exclusive, lists in bounds, pools and tables there; an event queue of its own for each port; services spread; the link check prints each port once |
| | rule files: IPv4 up to 3 lines of 13 kinds, IPv6 up to 1, tables of 2 (ACL: 3) | the tables say what the files say; rules are refused only for a cause |
| `MCBurst` | bursts and vectors up to 5 of 6 kinds of packets, groups of 2 | the hop of each packet is its own; a vector loses no valid packet and keeps order and hops |
| | groups: bursts up to 12, one port and `BAD_PORT` | run lengths, every packet to its port, bounds of `pnum[]` |
| `L2fwd` | main lcore and a worker, 2 ports, buffers of 2, 3 packets | refinement of `Forwarder`; conservation, no buffer overflow, statistics never go down, no use after close; packets leave; the signal ends the program |
| `L3fwdTx` | 2 ports, table of 3, every burst size, 4 packets | table bounds, statistics, order, drain, quit |
| `L3fwdEvent` | 3 lcores, 2 event ports, 2 packets, the three kinds of loop | exclusive event ports, each routed packet once, no use after close; the signal ends the program |
| `L3fwdTxAcl` | `L3fwdTx` with ACL, 6 packets | **violated**: `m_table` overflows |
| `L3fwdEventLock` | 3 lcores, 1 event port | **violated**: a leaked spinlock blocks the exit |
| `L3fwdEventBad` | 3 lcores, 2 packets | **violated**: `BAD_PORT` packets are sent |
| `L3fwdSetupPool` | poll mode on one socket with one pool for all ports | **violated**: the pool is sized by the first port |
| `L3fwdLookupEm` | event mode, up to 3 packets | **violated**: an invalid packet left over of EM's groups keeps its hop |
| `L3fwdRulesAcl` | the rule files of `MCStartup` | **violated**: an earlier route hides an ACL entry |
| `L3fwdRulesBad` | the rule files of `MCStartup` | **violated**: an EM line with a bad address becomes a rule |

Why the bounds are enough. A TX buffer of 2 and a table of 3 are filled, flushed, split
and filled again within 3 to 6 packets. Two lcores and two ports have each lcore write
the other one's port, one of them the main lcore, which also prints; more lcores, idle
ones among them, and larger buffers are covered by the theorems about `L2fwd`, which hold
for every size, as those about `L2fwdSetup`, `L3fwdTx`, `PktGroup`, `L3fwdEvent`,
`L3fwdStart`, `L3fwdLookup` and `L3fwdRules` do. In `PktGroup` the algorithm only compares
neighbouring ports, so two values give every pattern of equality, and 12 packets are the
first, the middle and the last group and all lengths of the tail. Two packets in
`L3fwdEvent` are a burst that the event device takes in whole, in part or not at all, or one
packet for each of two workers. Two lcores more than event ports is the least number that
makes one spin on the leaked lock. With `-q` 1 or 2, four ports fill the lists of two lcores
exactly, or run out of lcores, or leave an lcore without a port. Three triples fill the list
of one lcore past its end, give a port a queue twice, or leave one out; `MCStartup` has at
most one triple that the first check refuses (a wrong queue or lcore), because that ends the
program whatever the others are. In `L3fwdStart` the device has fewer event queues than
ports, one for each, or one more for the TX adapter; `MAX_CHECK_TIME` is 2 rounds (90 in the
code), as the loop distinguishes the first, a later and the last one. In `L3fwdLookup`
`FWDSTEP` and `EM_HASH_LOOKUP_COUNT` are 2 (4 and 8 or 16 in the code): a burst of 5 is two
groups and one left over, and a pair is the smallest group that can be mixed. The six kinds
are valid and invalid IPv4 with a route, IPv4 with options and no route, IPv6, IPv6 with
extension headers that an ACL entry denies, and neither, with TCP, UDP, ICMP and IGMP among them. Nested
and disjoint prefixes with lines for enabled, disabled, missing and too large ports have a
longer prefix hidden, overwritten and shadowed within three lines.

## Fairness

Every lcore is a thread pinned to its core that never blocks: weak fairness of each
lcore's steps. The TSC never stops: weak fairness of the passing of the drain time.
Nothing is assumed of packets, signals, or of what a NIC or an event device accepts:
`QuitCompletes` of event mode holds though an enqueue may be refused for ever, because
the retries look at `force_quit` (the fair steps of an lcore include an enqueue of which
nothing is taken, not one that is accepted). `L3fwdTx` assumes the
same of its one lcore and its drain timer. The set-ups, the lookups and the rule files are
sequential and have safety properties only; that they end is not claimed.

## Proofs

`L2fwdProofs` proves for every `Lcore`, `PortSeq`, `RxPortList`, `Dst` and
`MaxPktBurst` that satisfy `L2fwdAssumption` the type invariant, `Conservation`,
`BufferFits` and `NoUseAfterClose`. None of them is inductive alone. The inductive
invariant `IInv` adds `LoopInv` (an lcore's index is in range, it holds packets only
while it forwards a burst, and between the burst and the reset of a flush it remembers
the length of the buffer, which nobody else changes) and `CloseInv` (main is past its
wait only when all lcores have returned). Conservation of one port is disturbed only by
the lcore that polls it: lemma `Apart` derives from the assumption on the tables that two
places of the poll lists never share a destination, and `FlushStep` uses it for every
step that moves packets.

`L2fwdProofs` also proves that `L2fwd` implements `Forwarder`. A receive burst maps to
`Receive`, the error callback to `Drop`, the counting to `Transmit`, a closed port to
`Close`, everything else (and a burst, drop or count of nothing) to a stutter. What makes
the mapped step legal comes from the invariant: `Conservation` bounds what is sent or
dropped by what is owed (lemma `OwedByLcore`), `CloseInv` has all ports open while an
lcore runs (lemma `PortsOpen`).

`RateNotNegative` compares two readings of `print_stats`, which takes the ports one by one
while the lcores count. Summing what was read would need the laws of sums over a
sequence, which are inductions over data; `RateInv` instead asserts that two lists of
running totals exist, one for the last complete reading and one for this one, each of
which grows by the port's counter at each place, and that the older one is nowhere above the
newer. A step of `print_stats` extends the second list by one, the end of a reading makes it the
first.

`L2fwdSetupProofs` proves every invariant of its part of the run `MCStartup`. The loops of `main()` run
one after the other, so that `IInv` says for each what holds after `loopIdx` of its rounds:
`PairInv`, which pairs `--portmap` has given so far, each port in at most one; `CoupleInv`,
that the ports below `loopIdx` are coupled two by two, with the last one waiting for its partner
when their number is odd; `ListInv`, that the lists of the lcores up to the current one hold
the enabled ports below `loopIdx` once each, and all lcores before it are full. That the result is an
involution, a partition, and that the cores run out only when all are full, follows at the
last round of each loop.

`L3fwdTxProofs` proves for every number of ports and packets, every `MaxPktBurst` and every
`rx_burst_size` that the table bounds, the statistics and the order of the packets hold *if
the calls into a table agree on when it is full* (`OneFullMark`): one of the two senders is
used alone, or `acl_send_packets` mixes them with `rx_burst_size` = `MAX_PKT_BURST`.
The hypothesis is a finding of the proof, not a convenience: without it `SendInv`
fails, as the run `L3fwdTxAcl` shows, and the default `rx_burst_size` is below the maximum.
`SendInv` adds to the properties where a packet can be: those in the burst are the latest,
numbered consecutively (`BurstInv`); those in a table are increasing and lie between the last
one sent to the port and the front of the burst (`TableInv`); no packet is in two tables
(`TablesApart`).

`L3fwdEventProofs` proves for every `Lcore` and `NbPorts` that event ports are exclusive,
that nothing is used after main has closed it, and that each packet is in one place.
`EventPortExclusive` speaks of three
labels only; its invariant `ClaimInv` says how the static `index` divides the ports: those
below it belong to one lcore each, the one at it is being claimed by the holder of the
lock. `ShutdownInv` has main past its wait only when every worker has returned. For
`RoutedOnce`, `PacketInv` bounds a batch by its indices (`enq`, `deq`), says that the rest of a batch
holds no packet twice and that no two lcores hold the same one, and what a stale `enq` of the
single loop may still point at.

`L3fwdStartProofs` proves every invariant `MCStartup` checks of `L3fwdStart`, for every number of ports,
lcores, sockets and queues, every `--config`, every event device and every mapping of the
services. `IInv` is a conjunction of seven parts, each kept on its own: `ModeInv` (the inputs
stay, each mode keeps to its part of `main()`), `MemInv`, `TxInv`, `RxInv`, `EventInv`,
`ServInv` and `LinkInv`. TX queues, RX queues and event queues are all given out by counting
those that came before, so that the lemmas on `Rank` (`RankApart`, `RankLess`, `RanksAll`: the
ranks in a finite set are distinct and leave no number out) carry `TxQueueExclusive`,
`RxQueuesShared` and `EventQueueOwned`. `RxInv` says that the lists of the lcores hold the
triples read so far by a witness, the place of each triple in the list of its lcore
(`Placing`); that the triples of a port have the queues 0, 1, ... is known only once
`InitPort` has looked at the port (`Counted`). `ServInv` keeps the lcores in balance
(`Balanced`) and each service on one lcore at most; both are needed: the service that
`l3fwd_service_enable` moves is first taken from its lcore, which may leave that one two
below the others, and the balance is restored only because it was the one service on the
one lcore that changed, and goes where there are least. `LinkInv` has the round that prints as
the last: it starts with nothing printed, and only a signal ends it before the last port.

`PktGroupProofs` proves every invariant `MCBurst` checks of `PktGroup`, for every burst size up to
any `MAX_PKT_BURST` that is a multiple of four and every pattern of ports. The invariant is
`Good(final, pnum, lp, n)`: wherever a run of equal ports begins in the first `n` packets,
`pnum[]` holds its length so far, and `lp` is where the last run begins. `n` is `cur - 3`
between two groups of four, for the group is one packet behind what has been processed, and
`cur` in the tail. `GptblOK` reads the sixteen elements of `gptbl` as what four comparisons
say, and `GroupStep`, the heart of it, that `port_groupx4` takes `Good` four packets on, with
any comparisons and wherever the last run began, and writes no further than the place behind
the four. The last group is the same step on a burst whose last port is repeated
(`WithLastRepeated`), which counts one too many in the last run and nowhere else. In the send
loop `cur` is always the beginning of a run, and so never an element nobody has written.

`L3fwdLookupProofs` proves every invariant `MCBurst` checks of `L3fwdLookup`, for bursts and vectors of
any length, groups of any size, any ports and any kinds of packets. `Looked(i, h)` says that
`h` is what packet `i` ends up with after the lookup and the checks, and `IInv` says which
packets are that far: those before `j`, in whole groups (`GroupsInv`, where LPM is still
without its checks), then one by one (`TailInv`). A group that is looked up in bulk gives
each packet what it would get alone, because what the types of a group have in common each
of them has. For FIB and ACL, `Listed` has the two lists hold the packets of their type in
order, and `TakenOf` says that the results taken are those of the packets before `j`; so the
next result is the packet's own (`TakenNext`). `Filtered(n, ...)` is the filter after `n`
packets: those kept in front, increasing and each with its own hop, those with `BAD_PORT` freed,
`pos` behind the kept ones once one was freed. A packet is moved from `j` to a place before
it, which is why nothing is overwritten that is still to be read. That the vector goes out
with as many packets as were kept is a bijection (`CountListed`). Which packets have
`BAD_PORT` at this point is `Refused`, a helper of the proof that follows the code; the
theorems do not speak of it. `OwnHop` and `VectorKeepsGood` say it of the packets that fail
RFC 1812 (`Invalid`): only these are freed, and of LPM and FIB all of them. They leave open
whether EM frees one (`InvalidGetsBadPort`, which is violated) and whether a single event of
FIB is dropped or goes back, but not that a packet has another one's hop.

`L3fwdRulesProofs` proves every invariant `MCStartup` checks of `L3fwdRules`, for files of any length, any
defaults, ports and table sizes. `ReadInv` describes the arrays of rules by a witness, the
lines the rules come from (`Places`): rule `i` is what line `p[i]` says, in the order of the
lines, and no line of that kind is left out. With it go which lines were let through
(`Checked`) and that an earlier line has the higher priority, be it a route or an ACL entry
(`Ranks`). `RoomInv` says that the first pass counted what the second one finds (`Fits`), which
bounds the arrays. `KeysInv` is about the tables while they are filled: the hop of each key is
that of the last enabled route added with it (`TableOf`); `ContextInv` is its counterpart for
ACL. `RefusedForCause` is itself a part of the invariant: an exit is explained by the line
being read, or, when a table is full, by counting, because rules are different lines
(`NotMoreTogether`) and keys are some of the prefixes (`KeysCounted`).

`TablesFollowFile` follows from the invariant (`TablesRight`) for ACL without a condition
(`ContextsRight`), for LPM, FIB and EM if the prefixes nest (`PrefixesNest`): of two that share
an address one lies in the other. Prefixes of addresses do, and so do the keys of EM, which
match one packet each; `Prefix` is a constant of any sets of addresses, so that the theorem must
say it. Without it there need be no longest match, and "the line that decides" would name
nothing. The prefixes of `MCL3fwdRules` nest. The property speaks of the enabled ports and not
of the shift in the code. That the two agree on what reaches the tables of LPM, FIB and EM
rests on `L3fwdRulesAssumption`: every device has a port number below `Width`
(`RTE_MAX_ETHPORTS` is 32), so that a rule for a port the shift mistakes for another ends the
program (lemma `BitOfPort`). For ACL the property has the first route or the first ACL entry
that matches; it does not say which of the two ranks higher, where the code and its comment
disagree (run `L3fwdRulesAcl`), nor that the route's port is enabled (run `L3fwdRulesBad`).

Model-checked only: liveness (`<>` under fairness is beyond the prover).

## Disagreements found

- ACL mode uses both senders on one table. `send_packetsx4` lets it grow to
  `MAX_PKT_BURST`, `send_single_packet` flushes only at exactly `rx_burst_size`: with
  `--rx-burst` below the maximum the equality can be passed, and the table is stored to
  past its end (`l3fwd.h:154`, run `L3fwdTxAcl`). Theorem `TablesNotOverrun` shows that both
  are needed: one sender alone, or the maximum, is safe.
- `l3fwd_get_free_event_port` returns without unlocking (`l3fwd_event.c:209`, run
  `L3fwdEventLock`).
- The burst event loop sends packets whose lookup said `BAD_PORT` (`l3fwd_lpm.c:419`, run
  `L3fwdEventBad`). With `LoopModes = {"single"}` the same property fails differently:
  the single loop frees such a packet, and the cleanup frees it again when the signal
  comes before the next dequeue and nothing was ever enqueued.
- The pool that all ports share is created at the first port with `nb_rx_queue` of that
  port (`l3fwd/main.c:1450`); the comment on `NB_MBUF` promises a number that takes all RX
  rings into account (run `L3fwdSetupPool`).
- The packets of an event vector that are left over of EM's groups go through the checks of
  RFC 1812, but `process_packet` gets `&pkts_burst[j]->port` and not `&dst_port[j]`
  (`l3fwd_em_hlm.h:240`): an invalid packet keeps its hop and stays in the vector, where
  `l3fwd_common.h:39` gives it `BAD_PORT` and `l3fwd_event.h:116` says bad packets are
  filtered out and freed (run `L3fwdLookupEm`). The same property is false of single events of
  FIB: `fib_event_loop` puts the port such a packet came from in place of `BAD_PORT`
  (`l3fwd_fib.c:368`) and so sends it back. In LPM, and in vectors of FIB, it holds (part
  of `OwnHop`).
- `l3fwd_acl.h:34` says ACL rules rank above routes, so that they are always found. The
  code gives every line the priority of its place in the file (`l3fwd_acl.c:590`): an ACL entry
  behind a route that matches the same packet is never found (run `L3fwdRulesAcl`).
- A wrong IPv4 address in an EM rule is accepted: `em_parse_v4_rule` returns the 0 of
  `inet_pton`, which its caller takes for success (`em_route_parse.c:90`); the rule then has
  the protocol 0 and port 0. The IPv6 parser refuses the same line (run `L3fwdRulesBad`). The
  property is also false of a route of ACL to port 32 or above, which passes the mask check
  when its number modulo 32 does (`l3fwd_acl.c:578`): without the lines with a bad address
  TLC finds that counterexample.

## Observations without a run

What the models do because the code does, where no document says otherwise:

- A vector of bad packets only is sent with no packets in it (`l3fwd_event.h:144`).
- `em_event_loop_burst` casts `&events`, an array of events, to an array of pointers to events
  (`l3fwd_em.c:760`). What it then reads is undefined; the model leaves this loop out.
- When the main lcore is the one without an event port, it stops adapters and ports while the
  workers forward (`l3fwd/main.c:1751`).

## Not modelled

- Headers, MAC addresses, checksums and the printing: they change nothing the properties
  tell apart.
- The text of the options: the set-ups start from what the parsers let through.
- Port and pool initialisation whose failure ends the program; offloads, RSS, MTU, descriptor
  counts; event vector pools; the depths and flags of event queues and ports.
- The NEON and AltiVec variants (the same algorithms), builds without SIMD but for the
  one-by-one sender, `l3fwd_em_sequential.h`, `em_event_loop_burst` (above), the EAL.
- `rss_verify` (one writer per counter, and a reader that promises no exact numbers),
  `mempool_cache_test` (a benchmark of the library's pool), `x710_check` (prints what the
  driver reports), the scripts and build files.

Packets left in TX buffers at the end of the program are never sent; no document
promises they are.

## Plan

1. Done: `L2fwdSetup`, `L2fwd`, `Forwarder`, `L2fwdProofs`, `L3fwdTx`, `PktGroup`,
   `L3fwdEvent` with its three loops, `L3fwdSetup`, `L3fwdEventSetup`, `L3fwdStart`,
   `L3fwdLookup`, `L3fwdRules`.
2. Proofs. Done: every invariant of the passing runs, and the refinement of `Forwarder`.
   Left to TLC: liveness.
