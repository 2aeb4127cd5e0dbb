# A TLA+ model of dns-hijacker

This directory holds a formal model of the two programs of the repository, `dns_relay`
(the filtering resolver) and `resolver_proxy` (the forwarder in front of it):
modules, TLC configurations and TLAPS proofs.  `PROJECT.json` maps every definition to
the lines it models.

## The system

| Part | State | Operations | Interacts with |
|---|---|---|---|
| Admission (`dns_relay/src/main.rs`) | two UDP sockets, batches, a semaphore of 512 permits, a backlog of 1024 entries | receive a batch, spawn, backlog, drop; worker: age check, wait for a permit, spawn | every task holds a permit |
| Pipeline (`handler.rs`, `resolve_query`) | the task's query, its snapshot of the rules, outcome counters | rules, cache, upstream with timeout, reply | rules, cache, resolver pool or relay, history |
| Response cache (`shared/src/cache.rs`) | an LRU map with expiry behind a mutex | lookup, store, purge | pipeline, reload |
| Rule trie (`shared/src/domain_trie.rs`) | nodes with policies | build from the lists, lookup | pipeline; swapped by the reload |
| Hot reload (`dns_relay/src/conf.rs`) | last mtime | stat, load, swap, purge | the file, trie, cache |
| History (`handler.rs`, `HistoryBuffer`) | lock-free queue of 100, a flag, `history.txt` | push, spawn flush, flush, close | pipeline threads, file system |
| Resolver pool (`resolver.rs`) | healthy list, failed set | boot check, search, probe, merge | pipeline picks the head of the list |
| Network guard (`shared/src/netguard.rs`) | VPN flag, touched links or services, the service whose `State:` key is overridden | detect, reassert, revert | `ip`, `resolvectl`, `networksetup`, `scutil`; flag read by the picker |
| Upstream transports, DoQ pool (`resolver.rs`) | a pooled QUIC connection per resolver, session tickets, a UDP socket per query | pick a resolver, resolve by DoH, UDP, DoQ | pipeline, subnet option |
| Relay chain (`relay.rs`, `assets/*.js`) | relay instances and the picker's counter, the Apps Script cache, the worker's merge | pick, encrypt, post, cache, ask in rounds, merge, decrypt | pipeline |
| EDNS client subnet (`shared/src/dns.rs`) | none | find, rewrite or add the OPT record | transports |
| Proxy (`resolver_proxy`) | as `dns_relay`, plus a target cursor | forward to the targets in order | `dns_relay` |
| Packet formats, obfuscation, metrics output, CLI | none of their own | | |

What is hard in it: the server is a set of tokio tasks on several threads.  Queries wait
in four places before they are served, while the rules change under them; many tasks
share one cache; a flush and its pushers share the runtime's threads; probes share a
socket; requests to a relay go on after their client has given up, through a cache and a
worker that know nothing of it; QUIC connections end under the queries that share them, and
UDP ports are used again; the guard is a sequence of external commands against a network that does not
stand still.  What makes each part correct is stated below with its run; `PROJECT.json`
lists the hazards, each at its line, with the properties aimed at it.

## Modules

| Module | Models | Composition |
|---|---|---|
| `Admission` | listeners, semaphore, backlog, worker | a component and the abstract specification `Admits` of the server |
| `ResponseCache` | what the cache promises: a bounded expiring map; the victim of a full cache is left open | used by the two below |
| `LruCache` | the LRU list of the code | implements `ResponseCache` (`ImplementsCache`) |
| `ConfWatcher` | the reload task and the edited file | EXTENDS `ResponseCache` |
| `RelayServer` | the pipeline | EXTENDS `Admission` and `ConfWatcher`: the whole server |
| `ProxyServer` | `resolver_proxy`: pipeline, target picker, fail-over | EXTENDS `Admission` and `ConfWatcher`: the whole proxy |
| `DomainTrie` | building and walking the trie | stands alone; `RelayServer` uses a policy per name |
| `HistoryBuffer` | the history and the threads it runs on | stands alone |
| `ResolverFinder` | boot check, search, merge | stands alone; its result is `Pools` of `Transports` |
| `Resolution` | how `resolve_query` begins and ends an upstream resolution | extended by the next two |
| `Transports` | choice of a resolver, DoH, UDP, `DoqPool` | EXTENDS `Resolution` |
| `RelayChain` | `RelayPicker`, the client, the script and its cache, the worker | EXTENDS `Resolution` |
| `EdnsSubnet` | `set_ecs_option` and the relation it should establish | operators only |
| `Upstream` | what a task awaits on a cache miss: relay or resolver | EXTENDS the three above |
| `NetGuard` | the guard's loop and its Linux backend | extended by the next |
| `MacGuard` | the macOS backend, and the guard on either platform | EXTENDS `NetGuard` |
| `SharedProofs` | proofs about `Admission` and `ResponseCache` | extended by the two servers' proofs |
| `RelayServerProofs`, `ProxyServerProofs`, `UpstreamProofs`, `LookupProofs`, `HistoryBufferProofs`, `ResolverFinderProofs`, `NetGuardProofs` | proofs | extend the module they are named after; `LookupProofs` extends `DomainTrie` and `LruCache`, `NetGuardProofs` extends `MacGuard` |
| `MC...` | instances for TLC | |

How state and actions correspond to the code:

* **Admission.** `stage[q]` says where a datagram is; `sock`, `batch`, `backlog` are the
  queues it sits in.  One action per branch of the two receive loops and of the worker.
  A task is `running` until `Finish`, which drops its permit.  tokio's semaphore is
  fair: a permit released while the worker awaits one goes to the worker (`granted`) and
  is not seen by `try_acquire_owned`.  A query's `age` counts ticks since it entered the
  backlog.
* **RelayServer.** `task[q]` is the program counter of `resolve_query`: `start` (parse
  and rules), `lookup`, `upstream`, `send`.  Each access to shared state is a step.  The
  rules a task uses are those of its dispatch (`snap`).  The upstream answers with some
  TTL, fails, or times out after `ResolveTimeout` ticks.  A question is a name and a
  type, or lacks a type, or is malformed.  A query cut off between type and class is not
  told apart from one cut off before the type.
* **ResponseCache / LruCache.** An entry has ticks `left` and a packet with what it is
  about and how `old` its data are.  The zeroed transaction ID is the absence of one.
  The clamp, the fallback for answers without a TTL, eviction, expiry on lookup and the
  purge are modelled.  `Mapped` is the map that a list of entries stands for.  `since[k]` only
  records which other keys were used since `k` was.
* **ProxyServer.** The same shape as `RelayServer`, with one socket. `left[q]` is the chain of
  targets of `forward_query`, the one being tried first; each attempt is answered, fails or times
  out. An attempt has a socket of its own on any free port and takes whatever the target sends
  there, as `send_plain` and `send_obfs` compare neither ID nor question; `late[t]` has the
  questions target `t` was asked in attempts that are over, each of which may be answered late, or
  a second time, at a port another attempt has by then. `cursor` is the picker's atomic counter
  and wraps at `CursorMod`; `picks` and `turns` only record how often it was used and which target
  came first. The reload uses the watcher's stat steps and does not purge.
* **ConfWatcher.** The steps `boot`, `idle`, `load`, `purge`, with edits anywhere between.
  A config is the policy it gives each name, and the names its drop list matches
  literally, which is what the purge uses.
* **DomainTrie.** Nodes are paths of labels.  One action inserts one entry, drops before
  redirects as `build` does; a line of a list file is an entry like any other.
* **HistoryBuffer.** A push holds its thread from entry to return; a flush step needs a
  free thread except while a file operation is under way.  The entries of a batch are merged
  into the lines one by one, and the lines beyond the limit dropped after the last; the order
  in which an entry's new addresses are put on the line is left open.  `File::create` and the
  write are separate steps; either, and the read, may fail.  A crash or a failing write leaves any
  first part of what was to be written (`CutLines`): whole lines, and perhaps a torn one, whose
  domain or last address is cut short.  Domains and addresses are texts, sequences of symbols, so
  that a torn one may read as another that exists.  `Reading` is what the next flush makes of the
  file: a line for each line, with the addresses of the last line of its domain.  When the line
  limit then takes out one line of a domain and leaves another, `history[domain]` panics
  (`Panic`), which by the build's profile ends the process, or only the flush, and then leaves
  `flushing` set, so that no other begins and `close` never returns.  Texts are not
  empty, have no white space and are cut between symbols; a file cut within a character of several
  bytes cannot be read, which is the alternative of `Read` that fails.  `evicted` and `faults`
  only record what happened.
* **ResolverFinder.** Each probe is queued, sent, ok or bad; `inbox` is the shared socket's
  buffer.  The pool is a sequence with measured latencies.
* **Resolution, Transports, RelayChain.** `at[t]` is where a task is, `ask[t]` its question,
  `reply[t]` what it would send to its client.  A message is what it is about, its transaction ID
  and, through the relay, its addresses.
  * UDP: `port[t]` is the ephemeral port of the query's socket, which another query may be given
    once the task has ended; `wire` holds answers on their way, and one that is received may stay
    there, since UDP may deliver a datagram twice.
  * DoQ: `cached`, `connect` and `store` are separate steps, since tasks interleave between
    them; a 0-RTT connection counts as open before its handshake is done.
  * Relay: `hop[t]` is where the request is.  It stays with the hops when `at[t]` says that the
    task has given up, and what comes back is cached all the same.  A sealed message is the
    message with the key it was sealed with.  `booted` counts the instances built at start;
    queries begin after the last.  `EarlierPick` stands for the queries served before the ones
    followed, so that the counter's wrap comes into reach.
* **EdnsSubnet.** A packet is its section counts and its records in wire order.  A record that
  claims more bytes than there are is not `whole`, and the walk ends there as it does in the code.
  `InSubnet` relates the packets before and after by the places of their records and options.
* **NetGuard, MacGuard.** `pc` is the next command of the tick.  `dns[l]` and `service_dns[s]`
  record who set the DNS, `domain[l]` whether the link has `~.`, `override[s]` whether
  the guard's key in scutil's `State:` store stands.  The guard remembers one service for that key
  (`scutil_service_id`); `forgotten` only records those it remembered another in place of, as long
  as they have not been overridden again.  The platform is chosen in `GuardedInit`.

`RelayServer` and `Upstream` meet at one point.  `RelayServer` takes an answer to be about the
question that was asked; `AnswerMatches` of `Upstream` says when it is: always, except when a
script returns what it has cached for another type of the same name, or a UDP port is used again
while an answer to its former query, which was given up or is answered twice, is under way.
`ReplyToAsker` of the relay holds but for these two.  The proxy has the second exception in its own
`ReplyToAsker`.

## Runs

Passing runs:

| Run | Checks |
|---|---|
| `relay_rules` | `RulesInForce`: no query gets past the rules in force, wherever it waited during a reload and whatever is cached, unless the swap came while its task ran; `TaskHoldsPermit`; `MetricsAccount`; `BacklogBounded`; `Admits`: the server refines Admission |
| `relay_cache` | `ReplyToAsker`: transaction ID and question of every reply, from the cache too; `BoundedStaleness`: no reply is older than the timeout plus the longest lifetime, although a slow task may overwrite a newer answer; `Places`: a query is in exactly one place; `PermitsConserved`; `NoLostWakeup`: a waiting worker always has a running task whose permit comes to it; `TypeOK` |
| `relay_live` | `EveryQueryLeaves`, `EveryTaskReplies`, with upstreams that need never answer; `EditTakesEffect`: every edit the watcher has not looked at yet comes into force unless the file is bad by then |
| `upstream` | `AnswerMatches`: ID and question of every reply, with the two exceptions above; `OnlyOwnAddresses`: no address of another name gets into a merged reply; `CachedOpens`: the script never serves an error or another client's reply from its cache; `StaleNotHandedBack`: no query is given a QUIC connection that had ended before it began; `UpstreamSeesSubnet`: what a resolver is sent is the client's query with the client's network and no other |
| `lookup` | the LRU list: `ImplementsCache` (refinement), `LeastRecentlyUsedLeaves`; the trie: `LookupFollowsLists`: the walk equals the lists' own account of a name; `PurgedIsRuled` |
| `history` | with a crash and a restart and with failing file operations at any step: `NothingLost` (but to failing operations, a panic and the line limit), `CloseFlushesAll`; `FileTidy`: never more lines than allowed, and, until a write stops in the middle of a line, one line per domain, no address twice, and no flush that panics |
| `resolver_finder` | `PoolUsable`: the pool never becomes empty or holds a resolver twice; `FailedNotPooled`; `SearchEnds`; `TypeOK` |
| `proxy` | `FailsAfterAll`: a query fails only when every target was tried, wherever the cursor stood; `ForwardingBounded`; `RulesInForce`, although a reload leaves the cache as it is; `Admits` |
| `proxy_replies` | `ReplyToAsker`: every reply has the ID of its query, and its question too, from the cache as well, except a late or second answer to another question of the same target, taken at a port used again, and what the cache made of it; `TurnsTaken`: concurrent queries share the targets out evenly |
| `net_guard` | `OthersUntouched`: no link is set but the VPN's and that of the default route; `NothingLeftBehind` and `MacUndone`: once the guard knows the VPN gone, nothing it set remains, also after cut-short ticks, but for the `State:` override of a macOS service in whose place it remembered another one (also when that service is the primary one again by then); `Reasserted`: what a VPN client takes over comes back |

Two runs show a disagreement: the property is what a test or a comment of the repository
says, and TLC finds it violated.

* `history_spin`: pushers that spin on a full queue on every thread starve the flush they
  wait for; no push returns, and the threads are gone.
* `relay_same_job`: the tag of the script's cache is made of the name without the type, so an
  AAAA query gets the A reply that was cached for the same name, which `resolve_via_relay`, said to
  do the same job, never does.

### Disagreements without a run

Modelling met these places too, where the code does something other than what is written
about it.  The modules follow the code; each shows in the definitions named, and needs no
state space to be seen.

| Code | Text | Where in the model |
|---|---|---|
| the age of a backlog entry is checked before the wait for a permit, not after (`dns_relay/src/main.rs:274`) | "drop entries older than this" (`shared/src/constants.rs:13`) | `Admission`: `WorkerWait`, `WorkerResume` |
| a redirect of the same or of a shorter name beats the drop list (`shared/src/domain_trie.rs:94`) | the drop list is checked first (`dns_relay/README.md:11`) | `DomainTrie`: `insert_redirect`, `lookup` |
| `history.txt` is truncated and then rewritten, so a crash in between loses earlier records (`dns_relay/src/handler.rs:301`) | records "are appended to history.txt" (`dns_relay/README.md:46`) | `HistoryBuffer`: `Create`, `Crash` |
| `*.google.com` in `matched_list` matches no subdomain (`handler.rs:222`) | "patters to cover like *.google.com" (`dns_relay/src/conf.rs:42`) | `HistoryBuffer`: `domain_matches` |
| a probe takes whatever datagram the shared socket receives next, so a resolver that never answers joins the pool (`dns_relay/src/resolver.rs:355`) | resolvers are "latency-tested and merged into the healthy pool" (`dns_relay/README.md:88`) | `ResolverFinder`: `UdpAnswered` |
| newcomers go before faster resolvers (`dns_relay/src/resolver.rs:504`) | "fastest ones are preferred" (`dns_relay/README.md:68`) | `ResolverFinder`: `Merged` |
| they push the configured DoH resolver out of a full pool (`resolver.rs:505`) | a configured DoH resolver is "something to fall back to" (`dns_relay/README.md:156`) | `ResolverFinder`: `Merged` |
| the failed set is cleared as a whole (`resolver.rs:103`) | "remembered for an hour" (`dns_relay/README.md:88`) | `ResolverFinder`: `record_failed_resolver` |
| only the VPN's link and that of the default route are ever set (`shared/src/netguard.rs:320`) | "applying both the resolver and a `~.` default-route domain to every link" (`dns_relay/README.md:159`) | `NetGuard`: `Route`; `OthersUntouched` states the code's side |
| a failed `resolvectl domain` is never retried (`shared/src/netguard.rs:462`) | the same line | `NetGuard`: `Domain`, `Check` |
| one service id is remembered for the `State:` override, so when another service becomes the primary one under a VPN the first one's override is left behind, also when that service is primary again by then (`netguard.rs:55`, `netguard.rs:91`) | "reverts everything it changed when the VPN goes away" (`netguard.rs:5`), revert "Undoes every override we've applied" (`netguard.rs:98`) | `MacGuard`: `Remember`, `MacUnforce`; excepted in `MacUndone` |
| a link that was right already is reverted with the rest (`netguard.rs:437`) | "touches exactly these, nothing else" (`netguard.rs:288`) | `NetGuard`: `Check`, `Revert` |
| targets are never health-checked (`resolver_proxy/src/handler.rs:201`) | "unhealthy targets are skipped until they recover" (`resolver_proxy/README.md:115`) | `ProxyServer`: `try_order` |
| the configured `upstream_timeout_ms` is ignored, each attempt waits `RESOLVE_TIMEOUT` (`resolver_proxy/src/handler.rs:100`) | `upstream_timeout_ms = 2000` among the settings (`resolver_proxy/README.md:97`) | `ProxyServer`: `UpstreamTimeout` |
| the ID of every reply is rewritten (`resolver_proxy/src/handler.rs:104`) and none is compared, so that a late answer to another query passes for this one's | the reply has the query's ID, "so no rewriting is needed on the way back" (`resolver_proxy/src/handler.rs:193`) | `ProxyServer`: `ForwardOk`, `FromOldPort` |
| nothing calls `revert` when the program stops (`netguard.rs:37`) | "or the process shuts down" (`netguard.rs:5`) | no action |

### Bounds

* `relay_rules`: three queries and one permit: one runs, one is backlogged or waits, one
  is dropped; one edit suffices for a swap at every step; three configs, one of which
  drops a name the purge does not match.
* `relay_cache`: three queries of every kind, two permits and one backlog slot, so that all are
  occupied and the worker waits; batches of two and one, so that a batch is partly dispatched when
  others act; two types in a cache of one entry; TTLs absent, small and above the limit; rules
  that pass, redirect and redirect to nowhere.
* `relay_live`: two queries on one permit, so that one always waits for the other; two edits, so
  that an edit falls into a reload and after it.  Queries are symmetric where no liveness property
  is checked.
* `upstream`: three tasks on two names and two types; three connections and two UDP ports, so that
  a task connects where another did and a port comes back; instances through the script with the
  worker's key and with a wrong one, and one direct; two endpoints that agree in part; two rounds in
  the worker instead of three, enough for a round to add to an earlier one; a counter of four values
  over three instances, so that its wrap gives one instance two turns in a row.  Packets have up to
  three records behind the question, whole or cut off, with counts that match or not.
* `proxy`: three queries on two permits, three targets in round robin and a cursor that wraps after
  two, so that a third query picks after the wrap (no full round is seen here); one edit that puts
  the name on the drop list.
* `proxy_replies`: three queries on two permits about two questions, so that one is answered while
  another's late answer is under way and a third meets what that left in the cache; two targets in
  either order and a cursor that wraps after three, so that a full round is seen; rules that pass,
  redirect, and redirect to nowhere.
* `lookup`: the two structures share nothing, and each is explored with the other at rest.  Four keys
  in a cache of three, so that a hit in the middle of the list reorders it and there is a key to push
  one out; the keys are symmetric.  Names of up to two labels over two labels, two entries in each
  list: same name, nested names and unrelated names all occur.
* `history`: five pushers, one that no pattern matches, two of one domain with an address in common
  and an address that is another's cut short, one of `g.g`, which torn reads `g`; two threads, a queue
  of one slot, and room for two domains of the three that are recorded, so that a file has lines of
  different domains, and torn ones of the same, and lines are evicted; one crash at any step and any
  number of I/O errors.  `history_spin` needs one pusher more than there are threads and no fault.
* `resolver_finder`: a DoH and three UDP resolvers, one of them dead, a pool of two, a failed
  set of one, two probes at a time.
* `net_guard`: four links, two that can hold the default route and one that never should be
  touched; one link the user had set; on macOS two services, one set by the user; four network
  changes, so that a VPN comes, the primary service changes, the VPN goes and the service changes
  back; two failing commands.

`CHECK_DEADLOCK FALSE` is used where a behaviour really ends: when the lists are built, when every
push is done and the buffer closed, and when every followed task has its answer.

### Fairness

* The tokio runtime runs every task that is ready: weak fairness on each listener, on the
  worker, on each task's own steps, on the watcher and on the guard.  Timers fire: weak
  fairness on `Tick`, and `Tick` does not pass a deadline before the task has seen it.
* Nothing is assumed of clients, editors, upstreams or VPN clients; an upstream or a
  resolver under probe need never answer.
* `history_spin` gives fairness to every thread and every flush step; the flush is starved
  all the same because it never has a free thread.  The pipeline's liveness runs leave
  the history out (`record_history` off).
* In `net_guard` failures and network changes are finitely many.

## Proofs

Every theorem holds for all values of the constants the named assumptions allow: any number of
queries, tasks, targets, resolvers or links, any capacities, limits and timeouts.  Each rests on
an inductive invariant, named below; there is one lemma per action,
and what the lemmas share about queues, sets or the operators of a module is stated once.

**`SharedProofs`**, the parts both servers have.

* *Admission.*  Conservation of permits alone is not inductive: a listener dispatching a query that
  is already running would take a permit without adding a task.  `AdmissionInv` adds that whatever
  a queue holds is in that queue's stage (`InPlace`), is held once (`Once`), that a permit is on its
  way only to a waiting worker and none is free while it waits without one (`Handover`), and the
  backlog's bound.  From it: `PermitsConserved`, `BacklogBounded` with `InFlightBounded`,
  `NoLostWakeup`.  `AllFound` is the converse of `InPlace`, whatever is in a queue's stage is held
  there; the two give `Places`.  `TotalCounted` counts the datagrams taken up, each once.
* *Response cache.*  What `LookupMiss`, `Store`, `Purge` and the clock do to three facts: the types,
  that a packet is about its key (`CacheAbout`), and that its age and the time it has left
  add up to at most a given bound and `TtlMax` (`CacheFresh`).  `CacheSpec` is the abstract
  specification of the cache; under it the cache keeps its types and its capacity (`CacheBounded`), since a store
  adds at most the entry it makes room for (`StoreBounded`) and nothing else adds one.

**`RelayServerProofs`.**  Every step of the server is a step of `Admission` or leaves its variables
alone (`ServerAdmits`), which carries conservation, the wake-up and `Places` over to the server.
`ServerInv` says that tasks exist from dispatch on and have ended when their query is done
(`TaskStages`), that each cached packet is about its key, that replies are for their askers
(`Replied`), and that a task past the rules had a snapshot that let its name through, which is the
trie in force unless there was a swap (`RulesKept`).  From it: `TypeOK`, `TaskHoldsPermit`,
`ReplyToAsker` and `RulesInForce`.  `BoundedStaleness` needs more than the age of a packet, since
the cache may hold it for a time yet: `Fresh` bounds the sum of age and time left, which neither
the clock nor a late store can raise.  `MetricsAccount` follows from `OutcomesCounted`: the six
outcome counters add up to the number of queries that have a reply.  Last, every step of the server
is one operation of the cache or leaves it alone (`ServerUsesCache`, the server implements
`CacheSpec`); it takes `ServerInv`, for the key a task stores under and the age of its packet.  With
`LruImplements` below this closes the chain: the list implements the map, and the server asks
nothing of the map but what `CacheSpec` lets it.

**`ProxyServerProofs`.**  The same refinement (`ProxyAdmits`), and `ProxyInv`, whose core is
`ForwardingTask`: the targets tried and those after the one in hand are all targets, and the time
spent is at most one timeout for each target passed.  It gives `FailsAfterAll` and
`ForwardingBounded`, once the chain a picker returns is shown to be complete wherever the cursor
stands.  `Traced` says of an answer and a question that the one answers the other, or that some query for
that question took it as another question's late answer from the target it asked; it holds of every
reply (`RepliesTraced`) and of whatever the cache holds (`CacheTraced`), and keeps holding because
a reply stays what it is and `late` only grows (`AnswersKept`, `TracedStays`).  With `RepliedTask`
it gives `ReplyToAsker`; `RuledTask` gives `RulesInForce`.  `TurnsTaken` has an
invariant of its own, `TurnInv`: until it wraps, the cursor is the number of picks, which is some
number of full rounds and a remainder, and the remainder says which targets are one turn ahead.
The proxy implements `CacheSpec` as the server does (`ProxyUsesCache`).

**`UpstreamProofs`.**  A server has a relay or resolvers, and the variables of the other way never
move (`UpstreamInv`), so that each way has its own invariant.  `RelayInv`: whatever a hop holds for
a task is sealed with the task's key and about its name, and about its question unless a script is
on the way (`RelayTask`); whatever a script has cached is of the tag's key and name (`ScriptOwn`).
`TransportInv`: a datagram on the wire answers the query of a task that has asked from that port,
and may have ended since (`WireOwned`); a port has one waiting task (`UdpTask`); a
connection that had ended when a task began is none the task holds (`DoqTask`).  From the two:
`AnswerMatches`, `OnlyOwnAddresses`, `CachedOpens`, `StaleNotHandedBack`.
`UpstreamSeesSubnet` needs no invariant, but what `set_ecs_option` makes of every well-formed
packet (`SubnetSet`).  The options that `retain` leaves are counted: the place of an option among
the others (`Rank`) grows with its place in the list, so that ranks and places are in bijection
(`NthFacts`) and the order is kept (`RetainFacts`, `OptionsAreSet`).  The walk finds the OPT record of a
well-formed packet if there is one (`FindsOpt`); it is rewritten (`OptIsRewritten`) or added
(`OptIsAdded`), where ARCOUNT does not wrap because a datagram is too short to hold that many records.

**`LookupProofs`**, the two structures a name is looked up in.

* *Trie.*  `TrieInv` describes the trie under construction: its paths are closed under prefixes,
  every entry has its node, and a node has the policy of the last redirect for its path, without one
  that of a drop, and else none.  The walk then stops where the lists' own account of the name says
  (`LookupFollowsLists`), and a name the purge matches is ruled (`PurgedIsRuled`).
* *LRU list.*  `LruInv`: a key is in the list once, the list is no longer than the capacity, and what
  is further back was used longer ago, that is, every key before it is in its `since`.  Under it the
  list stands for one map (`Stands`, `MappedStands`), and each action is shown to do to the map what
  the operation of `ResponseCache` does (`LookupStep`, `StoreStep`, `PurgeStep`, `ElapseStep`): a hit
  changes nothing, what the full list loses at its back is one of `Victims`, and a purge that closes
  the gaps leaves every other key its entry.  Together these are the refinement, `ImplementsCache`
  (`LruImplements`); the order gives the action property `LeastRecentlyUsedLeaves`.

**`HistoryBufferProofs`.**  `NothingLost` names all the places an entry may be in, and does not say
which one counts at what time.  `HistoryInv` does: while a flush has an image of the file, the image
is the record, else the file is (`NoneLost`); there is one flush at a time, and once `close` has
begun no push is under way (`OneFlush`).  It gives `NothingLost` and `CloseFlushesAll`.
What a torn file reads as may have a domain twice, but then with the same addresses (`Uniform`,
from `ReadingFacts`), and merging and eviction keep it so; so a record is never split over two
lines, and `NothingLost` needs no exception for torn files.  `TidyLines` says this of the lines of a
flush, with the line limit, and that without a torn line they are tidy (`Good`); since what an
interrupted write leaves is tidy unless it is torn (`InterruptedFacts`), it gives `FileTidy`.

**`ResolverFinderProofs`.**  `FinderInv` adds to `TypeOK`, `PoolUsable` and `FailedNotPooled` what is
under probe in each phase (`PhaseProbes`), and that a search probes only what is neither pooled
nor remembered (`CandidatesNew`); otherwise the merge could put a resolver into the pool twice.

**`NetGuardProofs`.**  `ConfinedInv` (a tick has only its backend's targets in hand) gives
`OthersUntouched`.  `RememberedInv` says that what the guard has set it remembers (`LinksRemembered`,
`ServicesRemembered`), and that it remembers nothing once the flag is down and the revert over
(`FlagCovers`).  An override in the `State:` store is that of the service the guard remembers or of one
it forgot for another, and overriding it again ends that.
`NothingLeftBehind` and `MacUndone` are proved under the hypothesis that no
revert fails (`"revert" \notin Faults`): `revert` forgets the links before it reverts them, so one
that fails is never tried again.

The assumptions are those named in the modules, which TLC evaluates on its instances: finite sets of
queries, names, types and resolvers; positive capacities and timeouts; the order of the TTL limits;
values for "none" that are not among the proper ones; a resolve timeout within the ages told apart;
distinct targets and at least one; pools that are not empty, as the boot check ensures; packets
with fewer records than a datagram has bytes.

Only model-checked: `EveryQueryLeaves`, `EveryTaskReplies`, `EditTakesEffect`, `SearchEnds` and
`Reasserted`, liveness under fairness, for which TLAPS would have to reason about `ENABLED`.  Every
invariant and every action property that a passing run checks is a theorem as well, `NothingLeftBehind`
and `MacUndone` under the hypothesis above.

## What the model takes for granted

* Every write of the config file changes its mtime.
* A resolver, a target of the proxy, and each of the worker's endpoints answers the question it was
  asked; what can happen to the answer on its way back is in `Upstream` and `ProxyServer`.
* The compression pointers of a query's name lead somewhere.  `parse_domain` (`shared/src/dns.rs:18`)
  follows them by recursion and does not bound it, so that a name whose pointer leads back to
  itself ends the process.  `GiveUp` of both servers stands for the names on which it returns
  `None`; `EveryQueryLeaves` and the other properties speak of a process that is not ended so.
* The entries of `DomainTrie` are those that `build` inserts.  The purge also compares names with the
  raw entries that `build` skips or replaces, comments and the names of list files; `PurgedIsRuled`
  takes for granted that no query asks for such a name.
* Answers of the proxy's targets live in its cache for the fallback time; no property of the proxy
  depends on the time.
* TLS, HTTP, QUIC and the relay's encryption do what they promise.
* The configured resolvers are distinct.
* An edit made between the load at start and the watcher's first look is not noticed by the code
  either; `EditTakesEffect` does not speak of it.
* For a client on the loopback interface, or with IPv6, `UpstreamSeesSubnet` says that the query goes
  out as it came, with the subnet option that it may have brought.
* On macOS `MacUndone` and `Reasserted` speak of the services; when a VPN client publishes its own
  entry in the `State:` store over the guard's, the next tick sets it again, which no property
  states.  On Linux `Reasserted` is about the link of the default route, not the tunnel's own.
* A `resolvectl revert` that fails is in the model, but not among the faults of `net_guard`:
  the code forgets such a link.
* Names are compared as they are; case folding and trailing dots are left out.

Not modelled: the bytes of packets (names, `min_answer_ttl`, crafted replies are abstract), the
obfuscation codec (authenticated encryption with random padding; a datagram decodes or not), the
one-shot lookups of the command line (`resolve_domain_via_relay` among them), the cache of relay
host addresses used at start (`DomainCache`), metric output, logging, build and install scripts.
README statements on parts the code does not have (the `/etc/resolv.conf` fallback) have no run.

## Plan

1. Compose: `Upstream` inside `RelayServer`, so that the two exceptions of `AnswerMatches` show in
   the cache; proxy and relay as one system under an abstract specification of a resolver.
2. Algorithms on bytes (`min_answer_ttl`, obfuscation framing) against reference definitions.
