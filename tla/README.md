# A verification development for the WAN test network

The repository builds a small "Internet provider" for testing home gateways.
Scripts in `wan-mode/` bring up the services of each WAN mode, `ipsec/` and
`l2tpv3/` the two tunnelling set-ups.  The programs with state of their own
are the AFTR daemon of DS-Lite (`wan-mode/src/aftr-1.1/aftr.c`, a 13 000-line
carrier-grade NAT), the router advertisement daemon `radvd-2.17` and the IKE
daemon `racoon` of ipsec-tools.  This directory specifies them in TLA+, checks
small instances with TLC and proves, with TLAPS, what should hold for every
instance.

The AFTR daemon comes first: it is the program that shares ports between
customers, has the most state, and has invariants its own authors wrote down
(the `debug check` command), which give the properties here their reference.

All line numbers below are of `wan-mode/src/aftr-1.1/aftr.c` unless a file is
named.

## 1. Inventory

### 1.1 AFTR daemon

One process, one thread (a fork only answers `fork` on a session).  `loop()`
(12704) runs for ever: `select()` with a timeout of at most one second, the
clock is read, then the lines of the interactive sessions are executed
(`commands()`), then some packets are read from the tun device (`loop1()`),
then, once a second, what is due is expired, and slices of a reload or of a
garbage collection are run.  There is no parallelism: what interleaves is the
order in which commands, packets, expiry and slices reach shared structures.

| component | state | operations | what makes it hard |
|---|---|---|---|
| NAT core | `pools[]` (`freebm`, `helds`, `natcnt`), tunnels (`bucket`, `avail`, `tnatcnt`, `tnatrt`, `lastnat`), the NAT RB tree, one splay tree per tunnel, the timeout heap | `natin`, `natout`, `naticmpout`, `toobigout`, `new_nat`, `fill_bucket`, `del_nat`, `free_heldnats`, `add_tunnel`, `del_tunnel`, `add_snat`, `add_prr`, `del_snat`, `del_prr`, `tcpstate_in/out` | a port travels through four places kept by different functions at different times; counters are incremented in one function and decremented in another, much later; allocation can fail half-way; the expiry relies on orders nobody checks |
| reload and generations | `curgen`, `lastgen`, per-object `gen`, `needgc`, `needbt`, `reloading`, cursors `gc_ptr`, `bt_ptr` | `reload_conf`, `reload_incr`, `load_conf`, `reload_*`, `gc_reload`, `bt_reload`, `gc_incr`, `bt_incr`, `session_nextgen`, `gc_session` | a reload runs in slices of `quantum` lines between packets and other commands; a failure rolls back; the cursors walk a tree other steps delete from |
| fragments | `frags4`, `frags6` and their hash tables and queues, counters | `defrag`, `defrag6`, `del_frag4`, `del_frag6`, decay in `loop()` | fragments in any order, duplicated, lost; limits; an entry is freed by several paths |
| FTP ALG | a template binding per control connection, temporary bindings, sequence patches | `get_ftptempdata`, `get_ftptempsrv`, `patch_ftpin/out`, `patch_ftpcmd` | several steps of which any may fail; bindings that outlive their parent |
| tunnel radix tree | `tunnel_tree` | `tunnel_tree_insert`, `_remove`, `_find` | longest-prefix structure with glue nodes |
| NAT heap, RB tree, splay trees | `nat_heap`, `nat_tree`, `t->nats` | `nat_heap_*`, `nat_tree_*`, `nat_splay_*` | intrusive indexes; several comparison orders over one tree |
| hash caches | `nathash`, `tunnelhash` | `nat_lookup`, `tunnel_lookup` | a cached pointer must not outlive its object |
| control channel | sessions, line buffers | `commands`, `cmd_*`, `cmd_try` | several sessions, a reload in the middle of a batch of lines |
| packets | none | `decap`, `encap`, `filter*`, ICMP, MSS clamping, checksums | data, not state |
| set-up | none kept | `main`, `load_file`, `fork_child`, `setup_*` | process plumbing |
| UPnP/NAT-PMP, trpmp, XML client, bench, configurations | own processes | lines sent to the control channel | parsing |

Correctness of the NAT core: a dynamic port has exactly one use (free,
reserved in a bucket, bound, on hold) and is never lost; a port that leaves a
binding is quarantined for the hold lifetime; the counters agree with what
they count; bindings belong to live tunnels and to the right pool; what is due
is expired in time and what is not due is not; a TCP connection closed by both
ends does not keep its port; the limits of the configuration hold.

Correctness of reload: after a successful reload the static bindings and
no-NAT tunnels of the new file remain, with those of the sessions still open;
after a failed one those of the former file remain too, with what the new one
had declared before it failed (the manual has them put in the former
generation); all along, nothing of the configuration in force is removed; no
step uses an object freed by a slice.

Correctness of fragments: no queue keeps a fragment past its lifetime, the
counters agree with the queues, a limit is a limit, a rebuilt packet is made of
fragments of one packet.

### 1.2 Other programs

* **radvd**: one process; per-interface timers for unsolicited advertisements,
  delayed answers to solicitations with a minimum delay between
  advertisements, lifetimes that decrement when configured so, reload on
  SIGHUP, reset on netlink events.
* **racoon** (ipsec-tools 0.8.2): phase 1 and phase 2 handlers on two lists, with
  their states, bound to each other by back pointers; retransmission and expiry
  by `schedule.c`, dead-peer detection, messages to and from the kernel over
  PF_KEY, rekeying when an SA expires, `racoonctl`, reload of the configuration,
  and a chain of IKE fragments per phase 1 handler.  One thread: what interleaves
  is the order of the peer's messages, the kernel's, the administrator's and the
  timers.  The largest body of code, a copy of a released package.
* **libipsec, setkey**: message formatting for PF_KEY.
* **l2tpv3.sh**: start, stop and restart of an L2TPv3 tunnel and its bridge.
* **wan-mode scripts**: start and stop of the services, configuration files.

Correctness of racoon: no back pointer leads to a handler that is gone; every
negotiation and every SA ends by its own timers, whatever the peer does not say;
the IPsec SAs of an ISAKMP SA that ends go to the one that replaces it, unless a
reload ends it because it fits the configuration no more; a peer
that answers is not taken for dead; a message put together from fragments is the
message that was sent, and one can always get through.

`PROJECT.json` lists each of them with its sources and its status, and, under
`hazards`, what a test of this code would hardly reach, each with its line.

## 2. Modules

```
PortLease <-- refines -- AftrNatLease --EXTENDS--> AftrNat <--EXTENDS-- AftrNatProofs
                              ^   ^                   ^                       ^
                              |   |                   |              AftrNatCountProofs
                              |   |                   |                       ^
                              |   |                   |              AftrNatTimeProofs
                              |   |                   |                       ^
                              |   '-------------------|-------------- AftrNatLeaseProofs
                         MCAftrNat               AftrBucket
                           ^     ^                    ^
                  MCAftrRate     '--- MCAftrBucket ---'

AftrNat <--EXTENDS-- AftrRate <--EXTENDS-- MCAftrRate, AftrNatTimeProofs

ConfigStore <-- refines -- AftrReloadConfig --EXTENDS--> AftrReload
                              ^          ^
                              |          |
                         MCAftrReload  AftrReloadProofs

Reassembly <-- refines -- AftrFragReassembly --EXTENDS--> AftrFrag
                             ^           ^
                             |           |
                        MCAftrFrag  AftrFragProofs

MCRacoon     --EXTENDS--> Racoon     <--EXTENDS-- RacoonProofs
MCIkeFrag    --EXTENDS--> IkeFrag    <--EXTENDS-- IkeFragProofs
```

### AftrNat: the NAT core

State and code: `freebm`, `helds`, `natcnt` are the fields of `struct pool`;
`bucket`, `tnatcnt`, `lastnat`, `tnatrt`, `srcidx` those of a tunnel; `nats`
is the set of bindings, standing at once for the RB tree, the splay trees and
the heap (a search with a wildcard is "any entry that matches"); `dyncnt`,
`snatcnt`, `prrcnt` are the counters of the daemon; `seconds`, `lastsecs` and
`pc` the loop.  `natcnt` goes up in `new_nat()` and down in
`free_heldnats()`; both are in the model as they are in the code.

Actions: `Select`, `CommandsDone`, `Expire`, `SameSecond` are the loop;
`AddTunnel`, `DelTunnel`, `AddSnat`, `AddPrr`, `DelPermanent` the commands;
`NatInHit`, `NatInOverRate`, `NatInNoPort`, `NatInNew`, `NatInHeapFull`,
`NatOut`, `TooBigOut`, `NatIcmpOut` the packets.  Each is one handler with
every early return and every call it makes; `NatInNew` is the miss path of
`natin()` with `new_nat()`, `fill_bucket()` and the TCP state of the first
segment in one step, for that is how the thread runs it.

Data left out: an address with its port or ICMP id is one model value; the
random content of a bucket is the set of its ports, and `fill_bucket()`, which
gives up after ten random misses, may come back with any non-empty number of
free ports, or with none; `Release(S)` does all the `del_nat()` of one step
together, since they have one clock.

### PortLease and AftrNatLease: what the NAT core promises

`PortLease` knows nothing of tunnels or packets: a port of a pool is free,
reserved, used, or held until a deadline, and moves only along those arrows.
`AftrNatLease` maps the state of `AftrNat` to it, and TLC checks that every
step of `AftrNat` is a step of `PortLease` or leaves it unchanged.

### AftrRate: the rate of creation

History variables count, for each tunnel and protocol, the bindings `made` in the
current second and the `laps` of the 8-bit counter of attempts (`tnatrt[]`), whose
width is a constant (`RateMod`; 256 in the code, smaller in the runs).

### AftrBucket: malloc() failing in fill_bucket()

Extends `AftrNat` with the one piece of memory it abstracts: the bucket a
tunnel still points to after its last port was drawn.

### AftrReload: reload, sessions and generations

State and code: `confnats`, `snats`, `nonats`, `sslist`, `orphans`, `lastgen`,
`reload_savedgen`, `reloading`, `reload_session`, `curgen`, `needgc` and
`needbt` are the variables of those names; `gen` is `generation` of a binding
and `ngeneration` of a no-NAT tunnel; `gctodo` and `bttodo` are what `gc_ptr`
and `bt_ptr` have still to visit; `phase`, `turn` and `remains` say where
`loop()`, `commands()`, `reload_conf()`, `reload_incr()`, `gc_incr()` or
`bt_incr()` is; `sesgen` is the last generation of `session_nextgen()`.

Actions: `LoopTop`, `StartCommands`, `EndTurn`, `SliceDone` are the loop and its
iteration over the sessions; `Accept` a new control channel; `CmdNat`,
`CmdNonat`, `CmdDelete`, `CmdClose`, `CmdReload` the lines of a session;
`FileNat`, `FileNonat`, `FileDelete`, `FileOther` the lines of the file, read
by `reload_conf()` inside the line `reload` (`Inline`) or by `reload_incr()` at
the top of the loop; `FileEnd` and `FileFails` the two ends of a reload, with
`gc_reload()` and `bt_reload()`; `GcOrphanEntry`, `GcOrphan`, `GcStart`,
`GcVisit`, `GcDone`, `BtStart`, `BtVisit`, `BtDone` one unit of work of a
slice, with its budget.

Data left out: the file is any sequence of lines, any of which may fail,
chosen as it is read.  A list is the set of its members, and a cursor the set
of those it has still to visit: members are only inserted at the head, behind
the cursors, and a visit takes any of them, so every order of the list is
covered.  A session is its generation: `session_nextgen()` skips those in use, at
the cost of a try each, and gives up after 20 (`Attempts`).  What it returns then
may be a generation in use, so the model is of fewer sessions at a time than tries
(`ReloadAssumption`); `GenerationFound` proves that the give-up is then not reached.
A session that the loop over the sessions misses, because one before it was
closed, is a session whose turn ends at once.  `declared`, `accepted` and
`maker` are history variables: what this reload has declared, what the
configuration stands for, and the session that made an item.

Two constants say what the users do: with `Latecomers`, a session may have a
line waiting while another one starts a reload; with `Batched`, lines may
follow `reload` in one batch of input.  The run
`reload` has neither, and each has its own violation run.

### ConfigStore and AftrReloadConfig: what a reload promises

`ConfigStore` knows nothing of generations, lists or cursors: an item is absent,
wanted (of the configuration), owned by an open session that made it, doomed (a
load has left it out) or orphaned (its session has closed).  A load declares
items one by one; when it ends well all that it did not declare is doomed at
once, when it fails nothing is; the next one begins with nothing doomed or
orphaned left.  `AftrReloadConfig` reads the status of an item off the list it is
on and its generation alone, so that `lastgen` going up, `reload_savedgen`
coming back and every renumbering of `bt_incr()` must fit together to give what
`file`, the history `declared`, says.  A declaration that finds its item wanted is
a step of `Declare` too, for it counts when the load ends; what was wanted and has
its list renumbered stays wanted, a stutter.

### AftrFrag: reassembly

State and code: `frags[q]` is the queue `frags6`, `fragsin` or `fragsout`, head
first; `fragscnt` its counter, `frgcnt` the `frg6cnt` and `frg4cnt` of the
tunnels; `fraghash` the cache of the IPv4 entries and `jhash` what
`jhash_frag()` gives with the present `fraghashrnd`; `live` the tunnels there
are; `late` says that the clock was read and the entries it makes overdue are still
there.  An entry has its packet, the parts it holds, whether it has the header of
the first fragment, the time it has left and the slot it was put in.

Actions: `NewEntry`, `Alone`, `Drop`, `Keep` and `Rebuild` are the ends of
`defrag()` and `defrag6()` (a new entry, with or without memory for the fragment;
one that is complete at once, for `decap()` (`aftr.c:11572`) takes an IPv6 packet
with a fragment header for a fragment also when it is all of its packet; a fragment
refused by its neighbours or by lack of memory; one kept; the one that
completes the packet); `Tick` the reading of the clock in `loop()` (12758) and
`Expire` the deletion from the ends of the queues (12855), with any packets and
commands between them, which may feed and complete an entry that is over its time;
`Resize` the doubling and halving of the cache; `DelTunnel` and
`AddTunnel`, for a tunnel is its memory, which the allocator gives again.

Data left out: contents, and what a packet is told apart by, taken together as
an id.  Offsets and lengths are small numbers, so that parts overlap, leave
holes or make a packet longer than `IPMAXLEN`.  A write through a pointer to a
freed tunnel changes a memory nobody reads until it is a tunnel again; `heirs`
is the history of the tunnels made in such a memory.

### Reassembly and AftrFragReassembly: what reassembly promises

`Reassembly` knows packets and the parts that are kept of each: a packet begins to
wait when fewer than the limit of its queue do, takes fragments that share no unit
with what it has, and ends with the one that makes it whole, when it is put
together or, too long, dropped (at once, if its first fragment is all of it); or
when its time is over, and at no other time.  While something is over its time it
may still be completed, but no more time passes before it has ended.
Nothing renews it, and no step about one packet changes another.  Any fragment may
be refused.  `AftrFragReassembly` reads it off the entries of the three queues; the
order of the queues, from whose end alone the loop deletes, the cache, the counters
and the tunnels are what `AftrFrag` has to get right for it.

### Racoon: phase 1 and phase 2 handlers

State and code: `ph1` and `ph2` are the slots for handlers; a slot whose status
is `PHASE1ST_SPAWN` is free memory, the others are on `ph1tree` or `ph2tree`,
in the order of `older`.  `scr`, `sce` and `ru` are the timers of resending, of
the end and of DPD (`sce` names the function it calls); `fails` and `out` are
`dpd_fails` and `dpd_seq - dpd_last_ack`; `pk` is the request to the kernel
whose answer is awaited.

Actions: one per callback of `session()` and `schedular()`: the messages of main
and quick mode as initiator and responder, the informational ones (delete,
INITIAL-CONTACT, R-U-THERE-ACK), those of the kernel (acquire, getspi, update,
expire, delete, flush), `racoonctl` (establish-sa, delete-sa) and the reload,
and each timer.  `Ph1delete` with its
migration, `PurgeRemote`, `PostAcquire` with the sweep of `getph2byid()`,
`Ph2begin_i` are helpers of several callbacks.  `Event` is all of them but
`Reload`.

`Reload` is `revalidate_ph12()`: each phase 1 handler fits a remote section of the
new configuration or goes, and so does each phase 2 handler with its sainfo section.
Handlers go from the newest on, each with `remove_ph1()`, which deletes what the
kernel lists of its phase 2 handlers, and `isakmp_ph1delete()`, which moves the
established ones that are left to another established one, perhaps to one that goes a
moment later, and removes the rest.  The outcome is that of `Ph1delete` for the set of
those that go: what is left is with the newest established one that stays, if any.
`AdminDelete` is one handler of `delete-sa`.  The command names addresses with their
ports (`handler.c:116`), so that it may fit any of the handlers of two hosts; when it
fits several, `enumph1()` reads the next from a handler just freed, and where it finds
what was there the callback is several of these steps with nothing between them: the
properties hold between them as well.

A delete payload must come from a message protected by an established SA or, with
`weak_phase1_check` in the remote section (`WeakPhase1Check`), in the clear while the
handler it comes for is not yet encrypting.

Data left out: one pair of addresses, so that every handler matches; payloads and
cryptography are the choice between a message accepted, one ignored and one that
ends the negotiation; the peer, the network and the kernel may send any message
at any time, again, late or never; a timer that is set may go off at any time.

### IkeFrag: IKE fragments

`chain` is `iph1->frag_chain`, `result` what `isakmp_frag_reassembly()` returned
last; a fragment is its message and its number, for `isakmp_sendfrags()` gives
every message the identifier 1.  `Receive` is `frag_handler()` with
`isakmp_frag_extract()` and `isakmp_frag_reassembly()`, `NoMemory` the failure
of the latter, `NextMessage` the peer going on.  `Complete` is what
`isakmp_frag_extract()` takes for complete: its walk stores the number of the
fragment that has just come where it means that of the one marked as the last,
and leaves the tail of the chain out.

## 3. Runs

| run | instance | what it shows |
|---|---|---|
| nat | 2 tunnels, 1 pool, 2 dynamic and 2 static ports, buckets of 2, iterations of up to 2 s, clock to 3 | every port has one use and none is lost; the counters count; the queue is in order; nothing overdue after expiry; quarantine; `AftrNat` implements `PortLease` |
| nat_tcp | 1 tunnel, 2 pools, 1 dynamic port, all TCP flags, lifetimes 3, 2 and 1, clock to 6, fair loop | a closed connection has a short timeout; only a close shortens one; ports on hold are freed, bindings expire |
| nat_rate_wrap | 3 sources, counter modulo 4 | *violation*: the rate of the manual page is exceeded once the counter wraps |
| nat_wild | 2 tunnels, 2 pools, a static and a dynamic port | *violation*: a static and an A+P binding share a public port, and the search finds one of them |
| nat_bucket_stale | 1 tunnel, 3 ports, malloc() failures | *violation*: a port is free while a binding uses it |
| reload | 2 bindings, 1 no-NAT tunnel, 2 sessions besides the terminal, files of 2 lines, quantum 2, fair loop | one list per binding; cursors on it; the configuration is served throughout; when a reload is over nothing is left that nobody would remove; `AftrReload` implements `ConfigStore`; reload, collection and backtrack end |
| reload_late | 1 binding, `Latecomers` | *violation*: a binding left on the global list for ever |
| reload_batch | 1 binding, 1 no-NAT tunnel, `Batched` | *violation*: a no-NAT tunnel that outlives its session |
| aftrfrag | 1 tunnel, 4 packets, limits of 2, fragments that overlap, are all of their packet or too long, cache of 1 or 2 slots | the cache points to queued entries; the counters count; what is rebuilt is a packet; nothing whole is left waiting; `AftrFrag` implements `Reassembly`: nothing waits over its time but in the iteration that finds it so, is renewed or goes before |
| aftrfrag_tunnel | the same | *violation*: an entry refers to a tunnel that was freed |
| racoon | 2 phase 1 handlers, 1 phase 2 handler, 2 retries, 1 check, DPD after 2 failures, 2 requests unanswered, weak check | back pointers; every handler timed; DPD; SAs survive what ends their ISAKMP SA but a reload; every negotiation and SA ends |
| ikefrag | messages of 4 and 3 fragments, chains of up to 6 | what is put together of one message is that message; three retransmissions always get one through |

The passing runs reach between 17 000 (nat_tcp) and 621 000 (ikefrag) distinct states.

Bounds.  Two tunnels and two dynamic ports are the least with which two tunnels
compete for the last port of a pool while ports are reserved, bound and on hold;
two static ports let a static and an A+P binding collide or not.  With a hold
time and lifetimes of one to three seconds a port goes round its whole cycle, and
a released port meets a queue that already holds another with an earlier or an
equal deadline, before `MaxTime`.
`MaxSkip` is the number of seconds one iteration of the loop may take; 0
(several iterations in one second) and, in `nat`, 2
both occur.  TCP needs
one tunnel only, for the state of a binding is its own; the two pools of
`nat_tcp` let that tunnel come back elsewhere.  Permutations of ports and of
tunnels are symmetries, for no action orders them (the order in which ports
released in one step enter the queue is chosen arbitrarily, with one deadline);
the runs with liveness use none.

In `AftrReload`, a `BtQuantum` of 1 and a `Quantum` of 2 make a slice end in
every place where the code can return: with two bindings both cursors stop in
the middle of the list, and a file of two lines outlasts its first slice and
ends inside another.  Three session generations (`FirstGen` 4) make
`session_nextgen()` go round and meet generations still in use, and its 4 tries
(`Attempts`) are one more than the sessions.  `MaxGen`
allows several reloads in a row, so that one follows a failed one with the same
number.

In `AftrFrag`, a queue of two entries is at its limit while one can still be
completed; parts of one and two units at offsets 0 and 1 overlap, come before the
first of them, or make a packet longer than `MaxLen` (holes in the middle of three
parts and more are left to the proofs).  One IPv6 packet has a fragment that is all
of it besides one that is not, which come in either order, and another only one that
is too long.  With `Lifetime` 1 an entry is overdue at the second `Tick`, and fragments
come for it before the `Expire`.  With one slot every IPv4 packet
collides with the others, with two any of them may or may not.

In `Racoon`, two phase 1 handlers are an ISAKMP SA and its successor; one phase 2
handler is enough for its back pointer, for handlers of phase 2 meet only in the
search of `getph2byid()`.  With two phase 2 handlers, one retry and one R-U-THERE the
safety properties were also checked once (1 797 477 states, no error), and they are
proved for any number.  `DumpFails` and `Fragments` let the kernel's dump
fail in `purge_remote()` and a responder wait for fragments without a timer: the
two exceptions that `EveryHandleTimed`, `Ph1HandlesEnd` and
`Ph2NegotiationsEnd` name.  `DpdMaxfails` and `MaxOut` of 2 let two R-U-THERE be
unanswered together and one ACK answer the first, the second or one after the other:
a count that goes down by one for each ACK violates `DpdHonest` in this run, and does
not with a bound of 1.  `MaxOut` bounds the two handlers together, so that one has
two and the other none, or both have one.

In `IkeFrag`, a message of four fragments and one of three mix in chains longer
than both; chains of up to 7 were also checked once (2 985 068 states, no error).
`Recovers` needs three retransmissions and not two: with the chain `<<4, 1>>` the
first one and the second both end in a reassembly that fails, each leaving the
tail of its fragments in the chain.

Fairness.  In `AftrNat`, `FairSpec` is `WF(Loop)`: `loop()` is a `for (;;)` whose `select()`
waits one second at most and whose handlers do not block; and `SF(Advance)`:
the clock is the wall clock, so it cannot stay for ever in one second while the
loop goes round.  Nothing is assumed of packets and commands.
In `AftrReload`, `WF(Loop)` says that the input a session has in one iteration
comes to an end (`commands()` returns when its buffer and descriptor are
empty); `WF(FileLine \/ FileEnd \/ FileFails)` that a slice reads on; and
`WF(Incremental)` that `gc_incr()` and `bt_incr()` run on.  The file has an end
(`MaxLines`).  `CollectorEnds` excepts an endless sequence of sessions closed,
each of which gives the collection new work.
In `Racoon`, weak fairness of every timer of a handler: `schedular()` runs before
every wait and calls all that is due.  Nothing is assumed of the peer, of the
kernel or of the administrator, so that a negotiation ends by its timers alone.

Mutants.  For every property of a passing run a definition named `...Bug` is a
plausible fault of the code, with which TLC must find the property violated.

## 4. Proofs

### AftrNatProofs

For all constants that satisfy `NatAssumption` (types, a finite set of dynamic
ports apart from the static ones, lifetimes that are not zero, rates of 1 to 255 as
the line `tunnel nat ... rate` takes them, `aftr.c:7592`):

* `TypeCorrect`: `Spec => []TypeOK`.
* `PortsUsedOnce`, `PortsNeverLost`: `Spec => []OneUse`, `Spec => []NoneLost`.
* `PortsQuarantined`: `Spec => Quarantine`.

`OneUse` is not inductive: that a bucket is apart from the others says nothing
of the moment when a tunnel that was deleted comes back with another pool.  The
inductive invariant is

    IInv == TypeOK /\ Deserted /\ \A k \in Key : Conserved(k)

where `Conserved(k)` says that the free ports, the buckets, the ports bound and
the ports on hold of one pool and protocol are a partition of `DynPort`
(`Split`), that no two bindings have one port (`OnePerPort`) and that a
queue holds a port once (`Distinct`); `Deserted` says that a tunnel that does
not exist has empty buckets, which is what makes its return with another pool
harmless.  The proof works on the four sets alone: `DrawSplit` (a port drawn),
`ReleaseSplit` (bindings released to the queue), `ReplaceConserves` (timeouts
and TCP state), `OutsidePorts` (static ports), `CutPorts` (the prefix freed by
`free_heldnats()`), and one lemma per kind of action.  `Quarantine` is an action
property, proved from the same invariant with the lemmas `DueRequeue` and
`DueCut` on deadlines.

### AftrNatCountProofs

From the same assumptions:

* `FlowsBoundOnce`: `Spec => []OneBindingPerFlow`.
* `CountersRight`, `PoolCountRight`: `Spec => []BindingCounts`, `Spec => []PoolCount`.
* `BindingsAnchored`: `Spec => []Anchored`.

A counter is compared with the cardinality of a class of bindings, and no class
is counted by itself: for the bindings every step is of one of four kinds
(`Kinds`), which leave them alone, release some (`Dropped`), replace one by
itself with another timeout (`Altered`), or make one for a flow that had none
(`Made`), and what each kind does to the cardinality of any class is a lemma
(`ClassMinus`, `ClassAdd`, `ClassSame`).  That a binding replaced is not counted
twice needs `OneBindingPerFlow`, and that a flow is bound once needs the
counters, which say when a tunnel has none left: hence one inductive invariant
for both, `CInv`.  `Moored` (bindings belong to tunnels there are, in their
pool) and `Pooled` (the counter of a pool is that of its dynamic bindings and
of the ports on hold) follow on top of it.

### AftrNatTimeProofs

* `HeldsOrdered`, `OverdueNever`: `Spec => []HeldsInOrder`, `Spec => []NothingOverdue`.
* `ClosedShort`, `CloseAloneShortens`: `Spec => []ClosedIsShort`,
  `Spec => OnlyCloseShortens`.
* `RateHasBound`, `RateKeptInByte`: `RSpec => []RateBounded` and
  `RSpec => []((\A s \in Slot : laps[s] = 0) => RateKept)`, of `AftrRate`.

`NothingOverdue` holds because `free_heldnats()` stops at the first entry that is
not due, which is right only in an ordered queue (`Ordered`), and a queue stays
ordered only because what enters it has a deadline no earlier than all that are
in it (`Within`: no deadline is later than `seconds + Hold`); `QInv` is their
conjunction.  A binding only ages in the ways of `Aged`: while it is not due its
timeout is kept or set by `tcpstate_in()`, `tcpstate_out()` or an ICMP error.

`RateKept`, the promise of the manual page, is the property that nat_rate_wrap
finds violated.  The two last theorems say how far it goes: a tunnel makes at most its
rate for each time the counter comes round, for any rate and width, and so keeps to
its rate in every second with fewer attempts than the counter can count.  Of a second
in progress the bound `MaxNatRt * (laps + 1)` says too little; `Rated` adds that
since the last lap no more was made than attempted, and one for the lap, because a
counter that has come round to 0 lets an attempt pass.  Every step leaves the
counters of the tunnels that stay alone or is one attempt that makes at most one
binding (`Steady`, `Counts`).  `RateBounded` and the invariant were also checked once on
the instance of nat_rate_wrap and on one of two protocols (216 723 states, no
error).

### AftrNatLeaseProofs

* `LeaseImplemented`: `Spec => ImplementsLease`, the refinement of `PortLease`.

The mapping reads the place of a port out of the free map, the buckets, the
bindings and the queue by CHOOSE; `LeaseRead` shows that in a state of `IInv`
each of them has one value.  Then a step maps to a step of `PortLease` or a stutter:
`OriginStep` (a port in use was reserved before, and reserved before that),
`QuarantineStep` (it leaves through the queue, with a deadline `Hold` seconds
away), `ClockStep`, and `PortMoves`, which puts them together for one port.

### AftrReloadProofs

For all constants that satisfy `ReloadAssumption` (fewer sessions at a time than
`session_nextgen()` makes tries), whatever the sessions and the files hold, and with or without `Latecomers` and `Batched`:

* `ReloadTypeCorrect`: `Spec => []TypeOK`.
* `GenerationFound`: `Spec => [](Cardinality(InUse) < MaxSess => Free # {})`.  One of
  the tries of `session_nextgen()` meets a generation that is not in use, since the
  tries are more than the sessions; for 19 or more sessions with consecutive
  generations it is not so, and nothing is claimed.
* `BindingsOnOneList`: `Spec => []OneList`.
* `CursorsSafe`: `Spec => []CursorsOnList`.

Neither is inductive by itself.  `GcVisit` deletes a binding without a look at
`bt_ptr`, and `RenewEntry` moves one without a look at either cursor; both are
safe only because the guard of `reload` keeps collection, backtrack and reload
apart.  `OneCursor` says so: a cursor is in use only while its flag is set, the
two never at once, and neither during a reload, though a session closed in the
middle may set `needgc` (to 1, never 2).  `Served` says that the session being
served is open, and that the file is read with the generation of its reload, so
that a new binding goes to the list of an open session or to the global one.
`IInv` is the conjunction of both with the types, `OneList` and
`CursorsOnList`; there is one lemma per operation on the lists
(`AddEntryKeeps`, `RenewEntryKeeps`, `DeleteLineKeeps`, `CollectKeeps`), three
on the control of the loop, and one per group of actions.  A minimum of a set of
numbers (`LeastNat`) is what the next session and the rest of a turn rest on.

Under `OneAtATime` (neither `Latecomers` nor `Batched`: no line waits in a session
while another reloads, nor behind a `reload`):

* `ConfigAlwaysServed`: `Spec => []ConfigServed`.
* `GlobalsWanted`: `Spec => []GlobalsAreWanted`.
* `AllIsAccounted`: `Spec => []AllAccounted`.

The assumption is needed: reload_late and reload_batch are runs without it, which
leave bindings and tunnels nobody owns.  It is used once, in `OwnGeneration`: a
line of a session runs with the generation of that session and no reload on.
`Contents` is what the lists hold at every moment.  `Loaded` follows each item of
the global lists: during a reload it has the generation of the reload if the file
has declared it already and the former one if not (`Reread`); afterwards it has
the last generation, or `needgc`, `needbt` or a cursor says that it has still to be
collected or brought back (`Settled`).  `Owned` says the same of what sessions
made, `Owed` that whoever leaves work also sets the flag for it, and `Singly` that
a session is open once and never both open and being collected.  At rest no flag
is set and no session is being collected, which turns `Settled` and `Owned` into
the three properties.

From `Contents`, and under the same assumption:

* `ConfigImplemented`: `Spec => ImplementsConfig`, the refinement.  `StatusIsRead`
  gives, of each of the five statuses, the lists and generations that mean it;
  `SameStatus` says that an item with the same membership, generation and maker
  keeps it, so that a step need only speak of the item it is about (`PutIs`).  One
  lemma maps each operation: `BeginConfig`, `DeclareConfig`, `CommitConfig`,
  `AbortConfig`, `MakeConfig`, `DeleteConfig`, `CloseConfig`, `RemoveStatus`;
  `IncrementalConfig` says that a slice of the backtrack changes no status.
* `OldGlobalsGo`, `SessionsFlushed`: the two promises of `man/aftr.commands.5`
  which reload_late and reload_batch refute hold when no line waits.  They need
  one invariant more, `Nobodys`: what is on the global lists is no session's any
  more, so that a session closed later takes nothing of the configuration.

### AftrFragProofs

For all constants that satisfy `AftrFragAssumption`: any packets and fragments of
them (those of IPv4 with an offset or more to follow, as the callers of `defrag()`
see to), limits, lifetime and (finitely many) sizes of the cache:

* `EntriesTyped`, `CacheLive`, `CountersHold`: `Spec => []TypeOK`,
  `Spec => []CacheIsLive`, `Spec => []CountsHold`.
* `RebuiltRight`, `WholeNotLeft`, `TimesKept`: `Spec => []RebuiltIsPacket`,
  `Spec => []NoneLeftWhole`, `Spec => []OnTime`.

The two scans of `f->fraglist` look at neighbours and at ends, `Tile` at every unit
of the packet.  `Sound` is what an entry keeps: its parts are `Apart` (no two
begin at one place, and one that begins earlier ends before the next and says
that more follows), a part at 0 has brought the header, and the entry is not
`Whole`.  For such parts `Whole` and `Tile` agree (`WholeTiles`, `TilesWhole`), by a
least offset above a unit and a greatest end.

`OnTime` needs the order of the queue: the entries have no more time the nearer
they are to the end (`Row`), as a fragment neither moves its entry nor renews it,
so that all that is late is a suffix (`OverdueIs`).  It says that no entry is over its
time, or between `Tick` and `Expire` (`late`) none by more than the clock went on
(`Timed`).  `CacheIsLive` needs that a
slot is where its packet is looked for (`Pointing`): the slot that an entry leaves
behind would otherwise be one that `f->hash` does not name.  The counters are
compared with the packets that have an entry (`Counted`), which are as many as
the entries since a packet has one at most (`RowCounts`); a tunnel that is not
there counts zero, which is what makes a tunnel that nothing refers to begin
right.  There is one lemma for each way a queue changes (`PutRow`, `SetRow`,
`OutRow`, `OldRow`) and one for each action.

* `ReassemblyImplemented`: `Spec => ImplementsReassembly`, the refinement.  What
  `Reassembly` sees is a set, so that each way a queue changes becomes one equation
  on it (`SeenPut`, `SeenSet`, `SeenOut`), for which a packet must be seen once
  (`SeenOnce`); `TileMakes` and `MakesTile` compare the two statements of what a
  packet is, `RoomIs` the counter with the number of packets that wait, and
  `ExpireHost` the suffix that is deleted with all that is late.  One lemma maps each
  action (`NewEntryHost`, `AloneHost`, `DropHost`, `KeepHost`, `RebuildHost`, `TickHost`,
  `ExpireHost`).
* `TunnelsAccounted`: `Spec /\ [][DeletesIdle]_vars => []TunnelsAccountForFrags`.  The
  counts that `check_tunnels()` compares agree as long as no tunnel is deleted
  while it has packets under way; the run aftrfrag_tunnel shows that they do not
  otherwise.

### IkeFragProofs

For any number and lengths of messages and any bound on the chain:

* `TypesHold`: `Spec => []TypeOK`.
* `FaithfulHolds`: `Spec => []Faithful`.
* `RecoversHolds`: `Spec => []Recovers`.

`isakmp_frag_reassembly()` returns as many fragments as there are in the chain.
When all are of message `m`, the map from a number `n` to the first place in the
chain with that number is an injection of `1..Len(c)` into itself, hence onto (a
fact on finite sets); so each number up to the length occurs once and no other
does, the one that made the chain complete among them, and the length of the
chain is that of the message.

`Recovers` is about three runs of a recursive function.  `RoundIsFeeding` shows that
the function exists (its definition is a CHOOSE) and `CountUp` is the induction on
the fragments of a round, both from the least element of a set of counterexamples,
for no theorem of induction can be cited.  A round completes the chain exactly once,
whatever was in it (`RoundFromAny`): at the latest by its last fragment
(`LastCompletes`), and after that number 1 is wanting (`OneIsWanting`).  It leaves in
the chain the fragments after the `k` that completed it, `Run(<< >>, m, k, Size[m])`.
If that is none, the next round delivers (`RoundFromEmpty`).  Otherwise the last
fragment is already there and number 2 completes the chain (`RestCompletes`): the
round may fail but leaves the fragments after 2, and from these the next one
delivers (`RoundFromRest`).  So two rounds may fail and the third cannot.

### RacoonProofs

For any number of handlers and any bound on the retries (`RacoonAssumption`; the
set of phase 1 handlers is finite):

* `HandlersTyped`: `Spec => []TypeOK`.
* `BackPointersLive`, `HandlesTimed`, `DpdIsHonest`: `Spec => []BackPointers`,
  `Spec => []EveryHandleTimed`, `Spec => []DpdHonest`.
* `RekeySurvived`: `Spec => SurvivesRekey`.

`IInv` is `Well1(ph1) /\ Well2(ph2, Sa(ph1))`.  Each handler is right by itself
(`Good1`, `Good2`, with `Half2` and `Almost` for one that is being made), and a phase
2 handler is bound only to a phase 1 handler of `Sa`, those established and not
being sent again: it is what a callback of the schedule relies on, and
`BackPointers` alone is not inductive since nothing in it says that the handler a
new phase 2 binds to lives.  A step on a list inserts a handler
(`GrowLinear`), removes some (`ShrinkLinear`) or changes one in place
(`SameLinear`).  That a search of the list finds a handler when one fits
(`Newest`) needs the order of the list to be linear and the handlers to be
finitely many.  `RekeySurvived` is about the steps of `Event`, those of `Reload`
excepted: a reload deletes the IPsec SAs of an ISAKMP SA that fits the configuration
no more while another stays established.  In `Event` an ISAKMP SA ends only in
`Ph1delete` (`Ph1deleteKeeps`), and every other step keeps the IPsec SAs (`NoneEnds`).
`Ph1deleteHolds` is the invariant after `Ph1delete` of any set of handlers, which
gives `ReloadHolds`.

### What is only model-checked

Liveness (`HeldIsFreed`, `BindingExpires`, `ReloadEnds`, `CollectorEnds`,
`Ph1HandlesEnd`, `Ph2NegotiationsEnd`), which is out of the reach of the prover.

## 5. Findings

* `tnatrt[]` counts refused attempts in an `unsigned char` and wraps at 256, so
  the rate of dynamic NAT creation of `man/aftr.conf.5:246` is exceeded in a
  second with more attempts than that (nat_rate_wrap); by how much at most is
  proved (`RateHasBound`).
* `nat_tree_compare_abs()` orders static and A+P bindings apart while
  `nat_tree_compare_wild()` does not, so both can be added for one public port
  and `check_session_elm()`'s "session nat tree mismatch" fires (nat_wild).
* `if (t->avail == 0)` (4369) tests the address of an array: buckets are never
  forgotten when empty, they leak, and with a failing malloc() a port is bound
  twice and later freed under a live binding (nat_bucket_stale).
* `loop()` tests `reloading` (12769) once, before it serves the sessions: those
  that come after the one that starts a reload have their waiting lines taken
  for lines of the file, and a binding can stay on the global list with the
  generation of a session, where nothing ever collects it (reload_late; the
  manual, `man/aftr.commands.5:107` and `:109`, says otherwise).  When no line
  waits the manual is right: `OldGlobalsGo`.
* `reload_finish()` sets `curgen` to 0 (9049) also when `commands()` is still at
  work: the rest of the batch runs with generation 0 and a no-NAT tunnel it
  makes outlives its session (reload_batch; `man/aftr.commands.5:287`).  When no
  line follows a `reload` it does not: `SessionsFlushed`.
* `del_tunnel()` (4268) frees a tunnel while entries of `frags6` and `fragsin`
  point to it; the counts of the queues are then not those of the tunnels, which
  `check_tunnels()` (5793, 5796) takes for an error (aftrfrag_tunnel).  Nothing else
  makes them differ: `TunnelsAccounted`.

## 6. Plan

In this order; each module with its runs, and the theorems named.

Done: `AftrNat` with its refinement, and the proofs of all its safety properties;
`AftrBucket`; `AftrReload` and `AftrFrag` with their refinements, `Racoon` and
`IkeFrag`, with the proofs of all their safety properties.

1. `AftrReload` further: `tunnel` and `delete tunnel` lines.
2. Generations in `AftrNat`: the packets that a reload in progress loses.
3. `AftrFtp`: the FTP ALG on top of `AftrNat`.
4. A clock that steps back (`seconds` is `time(NULL)`).
5. `NatHeap`: the timeout heap with its intrusive indexes against a set;
   `TunnelTree`: the radix tree against a set of prefixes.
6. `RadvdTimer`; aggressive mode and the commit bit in `Racoon`; `L2tpV3`.

## 7. Not modelled

In `AftrReload`: `tunnel` and `delete tunnel` lines, lines `load`, the
switching of sections, MTU and MSS fields, the hash caches, the packets, and as many
sessions as make `session_nextgen()` give up.  In
`AftrNat`: nonat tunnels (no state), the FTP ALG, deletion of bindings by a
reload, the clock going back, failures of malloc() other than "no binding is
made" and the one of `AftrBucket`.  In `Racoon`: aggressive and base mode, mode
config, NAT traversal, the commit bit, the contacted list, several addresses, and
`racoonctl flush-sa`, which leaves back pointers to freed memory, of which
nothing can be said.  In `IkeFrag`: what racoon sends.  The components with
status `not_modelled` in `PROJECT.json` carry their reason.
