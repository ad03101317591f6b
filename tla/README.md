# A verification project for Chaining-Box

Chaining-Box builds service function chains out of eBPF programs. A classifier
puts packets of known flows behind an Ethernet and an NSH header; on each node a
*Dec* stage takes these headers off in front of an unmodified service function
(SF) and an *Enc* and a *Fwd* stage put them back behind it. A manager computes
rules from a chains configuration; agents on the nodes load the stages and write
the rules into pinned BPF maps.

This directory models that system in TLA+, checks the models with TLC on small
instances, and proves with TLAPS that all the safety properties hold for every
configuration, every number of nodes, packets, faults and restarts, and every size of the
maps. Paths below are relative to the repository.

## 1. Inventory

| part | state | operations | talks to |
|------|-------|------------|----------|
| stages (`src/kernel/sfc_stages_kern.c`) | `nsh_data`: 5-tuple → NSH header; `fwd_table`: SPH → next hop; `src_mac` | `decap_nsh`, `encap_nsh`, `sfc_forwarding`, one run per packet, concurrently | each other and the agent, through the maps; other nodes, through frames |
| classifier (`src/kernel/sfc_classifier_kern.c`) | `cls_table`: 5-tuple → SPH and first hop | `classify_tc` | first node of the chain |
| manager (`src/control/cb_manager.go`, `cbox/manager.go`) | `connectedAgents`, a Go map without a lock | accept loop, `HandleConnection` (one goroutine per agent), `InstallConfiguration` after three seconds, `batchInstallRules` | agents, JSON over TCP |
| agent (`src/control/cb_agent.go`, `cbox/agent.go`) | interfaces, connection | `installStages`, `ManagerConnect`, `ManagerListen`, `handleInstall` (a goroutine) | manager; the maps of its node |
| stage loading (`src/utils`) | attached programs, `src_mac` | `load_ingress_stages`, `load_egress_stages`, `add_fwd_rule`, `add_proxy_rule` | kernel, `ip` and `tc` |
| deployment (`src/control/cb_deploy.go`) | containers, veth pairs | `CreateDirectLink`, `startServiceFunction` | Docker, OVS |
| chains configuration (`cbox/definitions.go`) | chains, functions, remote flags | `NewCBConfig`, `Parse` | manager, deployment |
| 5-tuples (`src/headers/cb_helpers.h`) | none | `get_tuple` | stages, classifier, several SFs |
| statistics (`src/headers/cb_helpers.h`) | `prog_stats`: one `struct stats` | `cb_mark_init`, `cb_retok`, `cb_retother`, in every program; `map_inspector -z` | each other, through the map |
| flow monitor (`src/functions/flow-monitor`) | `stats`: 5-tuple → packets, bytes; `szhist`; `srcip`, `egress_ifindex` | `flow_monitor`, one run per packet; the tool's `main` | its tool, through pinned maps |
| tc-redirect (`src/functions/tc-redirect`) | `infomap`, `egress_ifindex` | `_ingress_redirect`; the tool's `main` | its tool, through pinned maps |
| firewall, l4lb, chacha (`src/functions`) | pinned maps of their own: the egress interface, the firewall's `rules` | the filter, one run per packet; the tool's `main`, `parse_rules` | their tools, through the maps; Dec and Enc of their node |
| xdp-redirect (`src/functions/xdp-redirect`) | the XDP hooks of two interfaces | the tool's `main`, `int_exit` | the agent of its node, which wants the same hook |
| remove-ipip (`src/kernel/remove-ipip.c`) | none | `decap_ipip` | receives what chacha sent, behind the chain |
| tools (`src/user`), scripts, koko, vmlinux header | | | |

What is hard in this code:

* **Two lookups, one installation.** Enc and Fwd look the same SPH up in
  `fwd_table` one after the other, while the agent adds rules one at a time.
* **State per flow, used per packet.** Dec leaves the NSH header under the flow's
  5-tuple, and Enc picks it up after the service function, when other packets of
  the flow, or a proxy rule, have written the same entry.
* **Direct links.** Two local neighbours are joined by a veth pair, and the stages
  between them are left out. Rules are then made for some positions only, and an
  artificial ("proxy") entry has to stand in for the Dec stage that is not there.
* **Limits.** Both maps hold 2048 entries and are never cleaned, errors of updates
  are ignored, and the SI has eight bits.
* **One shot.** The manager waits three seconds, checks once that every node has
  said Hello, and sends. An agent may be late, dead, or just being restarted.
* **Nothing is replaced.** Programs stay attached when a process ends, and neither
  `ip` nor `tc filter add` replaces one; a new agent fails where an old one
  succeeded, and what it removes then decides what its successor meets.
* **Goroutines that nobody waits for**, in the agent, the manager and `cb_deploy`.
* **Counters without a lock.** The flow monitor and the statistics look an entry up
  and insert it in two steps, on several CPUs; the start time that latencies are
  computed from is shared by all packets of a program, and `map_inspector -z` reads
  the entry and later replaces it.
* **A chain under repair.** An agent that is started again takes the stages off while
  packets are under way, and never gets the rules again.
* **Tools that are run again.** The tools of the functions work on filters and maps
  that earlier runs left, and end at any of their steps.
* **One hook for two.** xdp-redirect and the Dec stage want the same XDP hook, and
  are started side by side.
* **Keys of changed packets.** An SF may change the packet between Dec and Enc;
  chacha puts it behind an IP-in-IP header, which `get_tuple` means to look
  through.

`PROJECT.json` lists each of these, and others, under `hazards`, at its line.

What makes each part correct:

* stages, classifier: a packet is processed by the functions of its chain, in
  order, each at most once; it leaves the chain at the end and nowhere else, once
  the rules are installed; nothing circulates or gets stuck;
* rule computation: the rules are enough for that, whatever the mixture of local
  and remote nodes;
* manager and agents: rules reach all nodes or none; they come after the stages;
  proxy rules come after the forwarding rules they rely on; nobody waits for ever;
* stage loading: an agent says Hello only when everything it was asked for is in
  place, whatever earlier processes left; starting it again helps;
* deployment: links and omitted stages are the ones the manager assumes;
* all of these together: a packet keeps to its chain through deaths, restarts and
  partial installations, and the chain works again once the stages are back;
* flow monitor, statistics: counters are right up to stated races;
* functions and their tools: packets are treated as the last command asked, a second
  attempt helps, and no tool harms the stages of its node;
* `get_tuple`: Enc finds what Dec stored, and two flows do not share a key;
* chacha, remove-ipip: what one puts in front of a packet the other takes off.

## 2. Modules

| module | models | used by |
|--------|--------|---------|
| `Rules` | direct links, Hello addresses, forwarding and proxy rules of a configuration, as operators | `DataPlane`, `Control`, `Deployment` |
| `DataPlane` | packets, the maps, the stages and the agents' installation | `MCDataPlane`, proofs |
| `ServiceChain` | the abstract specification: what a chain promises | `DataPlane` (refinement) |
| `Control` | manager and agents as processes, with deaths and restarts | `MCControl`, proofs |
| `ChainingBox` | the whole: manager, agents, stages and packets | `MCChainingBox`, proofs |
| `Tuple` | `get_tuple`, chacha and `remove-ipip` on one packet | `MCTuple`, `BpfPrograms` |
| `StageLoading` | the commands by which an agent attaches its stages, and what is left when it dies | `MCStageLoading`, proofs |
| `Deployment` | `cb_deploy`: containers, links, goroutines | `MCDeployment`, proofs |
| `FlowMonitor` | the counters of the flow monitor | `BpfPrograms` |
| `Stats` | `prog_stats` and `map_inspector -z` | `BpfPrograms` |
| `Redirect` | filter and tool of tc-redirect and flow-monitor | `FunctionTools` |
| `ServiceFunctions` | filter and tool of firewall, l4lb and chacha | `FunctionTools` |
| `XdpRedirect` | the tool of xdp-redirect, and the agent | `FunctionTools` |
| `FunctionTools` | `Redirect`, `ServiceFunctions` and `XdpRedirect` side by side | `MCFunctions`, proofs |
| `BpfPrograms` | `FlowMonitor`, `Stats` and `Tuple` side by side | `MCPrograms`, proofs |
| `RulesProofs` | lemmas about links and rules | `DataPlaneProofs` |
| `DataPlaneProofs`, `ControlProofs` | theorems | `ChainingBoxProofs` |
| `ChainingBoxProofs`, `StageLoadingProofs`, `DeploymentProofs`, `FunctionsProofs`, `ProgramsProofs` | theorems | |
| `MCDataPlane`, `MCControl`, `MCChainingBox`, `MCTuple`, `MCStageLoading`, `MCDeployment` | small instances | the runs |
| `MCPrograms`, `MCFunctions` | small instances of these two; the initial state selects the one that moves | the runs |

A definition whose comment says *Variant* is a deliberately wrong form of the
definition that follows it. No specification uses it; it is there to see that the
properties notice the mistake (`mutants` in `PROJECT.json`).

### Rules

A configuration has `chains` (Id → sequence of nodes), `flows` (Id → 5-tuples) and
`remote` (nodes). An SPH is a record of SPI and SI; `Sph` and `SphPlusOne` keep
the 32-bit wrap-around of `spi | (254-uint32(i))` and `sph + 1`. A MAC is named by
its node, and the zero address is `ZeroAddr`. `FwdRules(cfg, n)` and
`SentProxyRules(cfg, n)` are the two lists of the Install message for node `n`.

`ValidConfig` says what the author of a file has to respect: Ids below 2^24 and at
most 255 nodes per chain (the TODOs of `parseChainsConfig`), no node twice in a
chain, no 5-tuple in two chains, no node with a direct link in two chains (the
warning of `cb_deploy`, which checks this in part only).

### DataPlane

Every action is one access to a shared map, since this is where programs and
agents can meet:

| action | code |
|--------|------|
| `AddFwdRule`, `AddProxyRule` | one round of each loop of `handleInstall` |
| `ClassifyMatch`, `ClassifyPass` | `classify_tc` |
| `DecapNsh` | `decap_nsh`: MAC comparison, `nsh_data` update, headers removed |
| `Serve`, `Consume` | the SF passes the packet on, or drops it |
| `EncapLookup` | `encap_nsh` up to `sph--` |
| `EncapRoute` | `encap_nsh` from its lookup in `fwd_table` |
| `SfcForwarding` | `sfc_forwarding` |
| `Lose` | the network, or a kernel helper, drops a frame |

A packet has a place `pc`, a node (or, on the wire, a destination MAC) `at`, an
`sph`, and two history variables: `visited`, the functions that have processed it,
and `settled`, whether it was classified after the installation was complete.
`MapUpdate` is `bpf_map_update_elem(.., BPF_ANY)`: a new key does not fit into a
full map, and every caller ignores that. Frames that are not NSH, not IP, or
broadcast are passed along by early returns without touching any state and are
not packets of the model. `add_proxy_rule` hands the kernel an 8-byte header for a
24-byte value; what follows lands in the context metadata, which nothing reads, so
the model keeps only the SPH of an entry.

### ServiceChain

The promise: packets enter, are served by the functions of their route one after
the other, and are delivered at the end. Functions and the network may drop a
packet at any time. Letting a packet out early, or refusing it, is allowed only for
packets that entered before the rules were complete.

### Control

The manager goes from `down` over `listening`, `checking` and `sending` to `done`
or `failed`; an agent from `new` over `dialing`, `dialed` and `listening` to
`exited`. Every node of the check, every node of the sending loop and every rule of
an install goroutine is a step. A write to a connection whose peer is gone may
succeed or fail. Overlapping accesses to `connectedAgents` may end the manager
(Go's runtime detects them when it can); a silent corruption of the map is not
modelled. The maps are pinned, so rules survive the agent. Loading the stages is one
step here; it is refused while the stages of an earlier process are there
(`Occupied`), may be refused by what is left of them (`Littered`), and may fail for
other reasons (`LoadFails`). `equipped` is the history of the nodes on which some
process has loaded them all; a restart alone does not put a node there.

### ChainingBox

`Control` and `DataPlane` as instances over one state. Rules that `handleInstall`
adds are updates of the maps (`InstallFwdRule`, `InstallProxyRule`); every other step
of manager and agents (`ControlStep`) leaves the maps alone, which are pinned. What
`DataPlane` calls the rules still to be installed is the difference between the
manager's rules and those added once. At a node whose stages are not all there a
packet may find any of them or none (`Staged`, `Unstaged`), since they come and go one
command at a time. `exposed` is the history of packets that were under way meanwhile.
Packets of no chain, which the classifier lets pass, are left out here. The manager
has one configuration (`Cfg`).

### StageLoading

One action per command of `load_ingress_stages` and `load_egress_stages`. A command
that adds a program (`Attach`) succeeds, is refused because the program is there or
the qdisc is not, or breaks; in the last two cases the loader removes what the code
says and the process ends. `Broken` counts faults; `retries` counts the processes
refused since the last one. That `ip link set xdp` and `tc filter add` do not replace
a program is a property of iproute2, which the code relies on only through their exit
status. `handles` are the maps `get_map_fds` opened: it compares with 0 what is -1 on
failure.

### Deployment

`main` of `cb_deploy`: one container, one pair of neighbours, one function at a time;
the order of containers, chains and functions is left open. A goroutine of
`runAndLog` starts its command only while `main` has not returned. The files of the
model include invalid ones: `RejectsExactly` says which are rejected.

### FlowMonitor

Lookup, the two additions, the update and the histogram are steps. Elements of the
hash map have an identity: an update of a key that is there takes another element,
and the old one may be used again for any key, while a packet still holds a pointer
to it; this is how preallocated hash maps of the kernel behave (`Store`, external).

### Redirect

The tool's steps (attach, remove, write `srcip`, write `egress_ifindex`) against the
two reads of the filter. `kind`, which no step changes, selects the two differences
between the programs: the flow monitor needs `--srcip`, and tc-redirect takes the source
0 for "any". `Unset` is 0: an address of 0.0.0.0, and what `--srcip` gives for text that
`inet_pton` cannot read, which `main` stores like any other
(`tc_bench01_redirect_user.c:301`, `352`); an option that is not there is `NotGiven`. At
each step the tool may fail or be killed (`Fails`), and packets go on arriving. The
history variable `asked` is what the command lines that have ended amount to: `After`
says it for one of them from its options and from how far it came, without a look at
the maps. Between two command lines a packet is `clean`, whatever became of the first.

### ServiceFunctions

The tools of the three functions differ in one thing, the file of rules, so one
module has them all; `kind`, which no step changes, says which it is. A run attaches
the filter (if that fails, it removes it and ends), opens the map and the file, goes
through the file line by line, and writes the interface. `whole` says that the last
run attached the filter and met no fault; `Asked` is what such a run means for a flow:
the last line for it, unless a line that cannot be read follows, as long as the map
has room. `Htons` is the difference between the byte order of the file and that of a
packet. Nobody looks at the result of `sscanf`: a short line leaves the variables from
its first missing field on as they were (`Scanned`), and a bad address leaves the one in
the key (`Parsed`). What has not been assigned holds anything (`OnStack`).

### XdpRedirect

One XDP program per interface, and two kinds of processes that want it: tools, which
hold it until their signal handler runs, and the agent, which when it cannot attach Dec
(`LoadDec`) removes whatever is there by then (`RemoveXdp`). The handler's test and its
detaching (`CheckIn`, `DetachIn`) are two system calls. A tool that is killed leaves its
program. The calls and the command that detach may fail, and nobody looks at their
results: the histories `stuck` and `spared` record that. `robbed` are the tools whose
program somebody took off between the two calls of their handler, `displaced` and
`detached` the ones that took Dec off, at their start or in their handler.

### Stats

As in `FlowMonitor`, elements have an identity; here the only update of a key that is
there is the one of `map_inspector -z`. The two atomic additions and the plain store
of `init_ts` are steps. `since` is what should be in the entry. Counters do not wrap
(a run of 2^32 packets is out of reach); the sum of latencies does.

### Tuple

A packet is its length, the fields of its inner headers, and whether there is an
outer header. `WordsAt` is what two 16-bit reads at an offset yield; if the offset
is that of an IP header, these are its first bytes and its total length. `ClearBytes`
is what chacha does not encrypt and therefore needs to be there. IP options and
fragments are left out: chacha and the load balancer drop them, `get_tuple` takes
option bytes or payload for ports.

## 3. Runs

| run | result | distinct states |
|-----|--------|-----------------|
| `DataPlane_one_flow` | `TypeOK`, `InOrder`, `NshStable`, `ImplementsServiceChain`, `EveryPacketLeaves` hold | 44,576 |
| `DataPlane_small_maps` | `EndedComplete`, `BypassCause`, `DropCause` hold | 21,495 |
| `Control` | `TypeOK`, `RulesNeedStages`, `ProxyAfterFwd`, `FailsCleanly`, `ManagerDecides`, `InstallCompletes`, `AgentsFollow` hold | 125,556 |
| `Control_partial_install` | `AllOrNothing` is violated | |
| `ChainingBox` | `InOrder`, `EndedComplete`, `Dependable`, `DataPlaneWhileLoaded` hold | 400,849 |
| `StageLoading` | `TypeOK`, `HelloMeansReady`, `FwdBehindEnc`, `ThreeRetriesSuffice` hold | 1,444 |
| `StageLoading_handles` | `HandlesChecked` is violated | |
| `Deployment` | `RejectsExactly`, `LinksAsAssumed` hold | 713,400 |
| `Functions` | `SettledHonoured`, `SetUpHonoured`, `SecondRunSuffices`, `CleanExit`, `EachRefusesOnce`, `DecKept` hold | 2,640,566 |
| `Firewall_ports` | `ListedBlocked` is violated | |
| `Programs` | `TypeOK`, `NeverOvercounted`, `ExactUnlessRaced`, `HistogramComplete`, `CountersExact`, `LatencyExact`, `PlainTupleExact`, `IcmpTunnelKeepsKey`, `Restored` hold | 879,116 |
| `Tuple_tunnel` | `TunnelKeepsKey` is violated | |

What the runs show beyond the parts. `DataPlaneWhileLoaded` makes the theorems about
`DataPlane` count for the whole system: as long as every node has its stages, agents
that install twice, in part, or not at all do nothing that `DataPlane` does not allow.
`InOrder` and `EndedComplete` hold even without that. `Dependable` is about the time
after a restart: packets that never met a bare node fare as if there had been none,
because the maps are pinned.

Bounds. Three nodes are enough for a node to have a direct link on either side, on
both, or on none, and a neighbour of each kind; `MCConfigs` has all eight
placements of a chain of three, the chain of one, and pairs of chains that share
functions. Other configurations, and chains of up to 255 functions, are what the
theorems are for. Two packets are enough to have a race on an entry of a map; more
packets meet in the same entries only. Maps of one entry are full after the first
flow or rule, maps of three and four never are. In `Control`, `MaxTries = 2` stands
for ten, `MaxRuns = 3` is two restarts of one of the agents (the first process after
one that had loaded its stages is refused, so this is what it takes for two
connections of a node to exist at the same time), and `MaxFaults = 1` is one death or
failed load on top of the crashes on the map. `StageLoading` has four faults, enough
for one in each direction, in a process and in its successor, and room for more
retries than the three it can come to. `Deployment` has every pair of chains of up to
three functions over three nodes, with every set of remote ones; one of the functions
has a type that `cb_deploy` does not know. `FlowMonitor` has three packets of one
flow, so that an element can be replaced while a pointer leads to it, and one flow
more than fits. `Redirect` has three command lines in a row: one to set up, one to
change, one to fail or remove, of all the combinations of options, malformed and missing
sources among them; one of its packets comes from 0.0.0.0. `ServiceFunctions` has three
as well, with files that have a word that is no action, short lines and malformed
addresses first and last, and, after another file, more rules than fit. `XdpRedirect` has
three tools, one with `-F` and two that are alike, and five attempts of the agent, one
more than they can refuse if a removal fails. A fault in each of these is a kill or any
call or command that fails; there is one. `Stats` has three packets, two to race for the entry and
one after them, and two points in time; the packets are symmetric. `ChainingBox` has
one chain with a direct link and a remote node, a packet, one fault, and two restarts
of the node between the links. The lengths of `Tuple` are those at which one of the
bounds checks changes its mind, the ones just below, and a long one.

No run checks for deadlock: a chain without packets, or a manager that has done its
work, has nothing left to do.

Fairness. `DataPlane`: a packet that has reached a hook is processed
(`WF(Process(p))`; the kernel runs the program that is attached there) and an agent
that has its rules installs them (`WF(Install(n))`; a goroutine is not left waiting
for ever). Nothing makes packets arrive. A frame on the wire is delivered or lost.
`Control`: the goroutines of manager and agents are scheduled, each with a weak
fairness of its own; the three seconds pass. Nobody has to die or to be restarted,
and nothing orders the manager's three seconds and the agents' start.

### Where code and comments disagree

1. `ListedBlocked`. The firewall's rules say "what to do" to a flow
   (`firewall_kern.c:20`), and the example file drops TCP and UDP flows by their ports.
   `parse_rules` keeps the ports in the byte order it reads them in
   (`firewall_user.c:46`), packets have the other one: such a rule never matches.
   `SetUpHonoured` says that rules without ports work, and that this is the only thing
   wrong with files that are well-formed and fit.
2. `AllOrNothing`. The comment in `manager.go:69-73` promises that rules are only
   installed once every node is reachable. The check looks at a table of past
   Hellos; an agent that died since is noticed in the middle of sending.
   `FailsCleanly` says that this is the only way: late agents, retries and restarts
   alone never stop an installation half way.
3. `TunnelKeepsKey`. `get_tuple` skips an outer IP header (`cb_helpers.h:36`) but
   takes the ports from the end of the *outer* header (lines 52 and 62). Packets that
   chacha puts behind an outer header are not recognised by Enc and leave the chain,
   except pings, which have no ports (`IcmpTunnelKeepsKey`).
4. `HandlesChecked`. "Check if we got handles to all maps"
   (`cb_agent_helpers.c:49`): the test `!nsh_data || ...` never fires, since
   `bpf_obj_get` returns -1. The agent goes on to say Hello, and errors of writing the
   rules are ignored later.

Observations that no violation is claimed for:

* After an agent with stages in both directions dies, the next three processes may be
  refused one after the other, and in between the node may have a Dec stage without
  Enc and Fwd, or the reverse.
* Fwd calls an end-of-chain entry impossible ("Second end of chain! This should not
  happen!!", `sfc_stages_kern.c:335`). Enc finds no entry and encapsulates; the agent
  installs the rule; Fwd finds it and drops the packet. By `DropCause` this only
  happens to packets that were classified before the installation was complete.
* tc-redirect, the flow monitor, the firewall, l4lb and chacha attach their filter
  before they fill its maps: meanwhile packets are redirected to interface 0, where
  they are lost, or pass the firewall unchecked.
* Running the tool of firewall, l4lb or chacha again to change its configuration
  switches the function off: it finds its own filter, and removes it. The run after
  that works (`SecondRunSuffices`).
* A line of the firewall's file with a malformed address is stored under the address
  of an earlier line (`firewall_user.c:49` tests for -1, `inet_pton` returns 0), and a
  short line with the fields of an earlier one (line 46).
* The same test in `tc_bench01_redirect_user.c:301` and `flow_monitor_user.c:294`: after
  a malformed `--srcip`, tc-redirect redirects every packet, and the flow monitor only
  those from 0.0.0.0.
* A command line of tc-redirect that fails between its two writes sends the new source to
  the old interface until it is run again.
* xdp_redirect_map exits with 0 from its handler whether or not its programs are off
  (`xdp_redirect_map_user.c:52`, `66`), and an agent that cannot take off what refused it
  does not say so (`cb_agent_helpers.c:82`): the same program refuses the next one.
* The first packet of a program is not in `rx`, nor are those that race it
  (`cb_helpers.h:94`), and its latency counts from time 0.
* xdp-redirect and the Dec stage of its node exclude each other: whoever comes first
  has the hook, and an agent that comes second takes the function off before it fails.
* `cb_deploy` returns without waiting for the goroutines that start the functions
  (`cb_deploy.go:467`, `Return`), so that a function may never be started, although
  `src/README.md:80` promises logs of all the startup processes.

## 4. Theorems

Checked by TLAPS. Every safety invariant and action property that a passing run checks
is a theorem, for all values of the constants that satisfy the assumptions below.

| module | theorems | about |
|--------|----------|-------|
| `RulesProofs` | `ValidAccepted` | `Rules` |
| `DataPlaneProofs` | `TypeCorrect`, `ChainOrder`, `ChainComplete`, `EarlyExit`, `Drops`, `HeadersStable` | `TypeOK`, `InOrder`, `EndedComplete`, `BypassCause`, `DropCause`, `NshStable` |
| | `ChainImplemented` | `ImplementsServiceChain`, if maps have room (`Ample`) |
| `ControlProofs` | `ControlTypes`, `RulesAfterStages`, `ProxyRulesLast`, `InstallFailsCleanly` | `TypeOK`, `RulesNeedStages`, `ProxyAfterFwd`, `FailsCleanly` |
| `ChainingBoxProofs` | `ImplementsControl`, `AlwaysInOrder`, `AlwaysComplete`, `AlwaysDependable`, `DataPlaneAllTheWhile` | `Control` implemented, `InOrder`, `EndedComplete`, `Dependable` (if `Ample`), `DataPlaneWhileLoaded` |
| `StageLoadingProofs` | `LoadTypes`, `HelloReady`, `FwdAfterEnc`, `RetriesBounded` | `TypeOK`, `HelloMeansReady`, `FwdBehindEnc`, `ThreeRetriesSuffice` of `StageLoading` |
| `DeploymentProofs` | `DeployRejectsExactly`, `DeployLinksAsAssumed` | `RejectsExactly`, `LinksAsAssumed` of `Deployment` |
| `FunctionsProofs` | `RedirectHonoured` | `SettledHonoured` of `Redirect` |
| | `FiltersHonoured`, `FiltersRefuseOnce` | `SetUpHonoured`, `SecondRunSuffices` of `ServiceFunctions` |
| | `XdpExitsClean`, `XdpRefusesOnce`, `XdpKeepsDec` | `CleanExit`, `EachRefusesOnce`, `DecKept` of `XdpRedirect` |
| `ProgramsProofs` | `FlowMonitorTypes`, `FlowsNotOvercounted`, `FlowsExact`, `HistogramExact` | `TypeOK`, `NeverOvercounted`, `ExactUnlessRaced`, `HistogramComplete` of `FlowMonitor` |
| | `CountersAddUp`, `LatenciesAddUp` | `CountersExact`, `LatencyExact` of `Stats` |
| | `PlainKeysExact`, `PingsKeepKey`, `PacketsRestored` | `PlainTupleExact`, `IcmpTunnelKeepsKey`, `Restored` of `Tuple` |

### Assumptions

`RulesAssumption`: the zero address is no node's. `DataPlaneAssumption`: the
configurations are valid, every packet has a flow, the sizes of the maps are natural
numbers (0 included). `ControlAssumption`: a valid configuration in which some node has
rules, and at least one process and one attempt to dial per node.
`ChainingBoxAssumption`: both. `StageLoadingAssumption`: bounds are numbers.
`DeploymentAssumption`: a file has numbered chains of nodes; it need not be valid.
`FlowMonitorAssumption`: finite sets of packets and elements, and fewer entries than
elements, since an update takes a free element before it gives the old one back.
`RedirectAssumption`: 0 is no address and no interface. `FunctionsAssumption`: packets
have addresses that can be written down, and there are finitely many tools.
`ProgramsAssumption`: there is an element, times and lengths are natural numbers. TLC
evaluates every one of them in some run. `Ample`, which two theorems have as a
hypothesis, says that `nsh_data` is larger than the number of flows and `fwd_table` larger
than the rules of a node.

### Arguments

**DataPlane.** `InOrder` is not inductive: it says nothing about where a packet goes
next. `IndInv` adds that the place of a packet fixes its position k in the chain
(`PacketInv`): on the wire it is addressed to function k+1 with SI 256-(k+1), which has
a Dec stage; in an SF it is at function k+1; between Enc and Fwd it carries the SPH
under which the manager filed the rule for position k. For Enc to arrive there, entries
of `nsh_data` must belong to a position of a chain of their flow (`NshInv`; since a node
occurs once in a chain and a flow in one chain, this makes the entry unique, which is
why overwriting it is harmless), and entries of `fwd_table` must be rules of the manager
(`FwdInv`). `ProxyInv` and `SettledInv` say that a rule that is no longer to be
installed is there or met a full map, from which the two causes follow. The lemmas of
`RulesProofs` carry this: a key determines its rule, the node after a direct link has a
proxy rule if it needs one, an address that is announced belongs to a node with a Dec
stage. With room in the maps no update fails (`AlwaysRoom`), and the same invariant makes
every step one of `ServiceChain` or a stutter.

**Control.** `RulesNeedStages` is a fact about the past: the agents that hold the rules
were looked up in a table of Hellos, whose senders may be dead by now. So `IndInv`
follows a Hello from the process that says it to the rule: whoever dials has loaded its
stages, or an earlier process of its node had (`LoadedFirst`, over `equipped`), the check has
seen every node before anything is sent (`CheckedFirst`), and only messages lead to
rules (`Begun`). `InstallAddsUp` says what an install goroutine has still to write, from
which the order of proxy and forwarding rules follows, also when a second goroutine
starts where the first was cut short. `ConnectionsLive`, for states without a fault,
ties the table to the processes that run now; `FailsCleanly` needs it, because only a
connection whose process is gone makes the manager stop half way.

**ChainingBox.** Two mappings. Towards `Control` it is the identity: a step of a packet
leaves the manager's and the agents' variables alone, so `ImplementsControl` gives the
invariant of `Control`. Towards `DataPlane`, steps at a node without all its stages
have no counterpart, since `DataPlane` would never let the packet out there. But it may
lose a packet at any time: seen with such packets as lost (`SeenPc`), *every* step is
one of `DataPlane` or a stutter, `IndInv` of `DataPlane` is an invariant of the whole
system, and no new argument about chains is needed. The one step that needs `Control`'s
invariant is a proxy rule: `DataPlane` adds it after the forwarding rules of its node,
which is `ProxyAfterFwd`. An agent that adds a rule again finds it there or finds the
map full, and changes nothing. `ExposedInFlight` says that while a stage is missing all
packets under way count as exposed: those that are let out there are the ones seen as
lost, and no others, so that `Dependable` says of the rest what `DataPlane` does.

**StageLoading.** The invariant says what a process at each place has achieved
(`Progress`), and bounds the processes that what is attached can still refuse (`Debt`):
Dec is in the way of one, Enc of one, and of a second one if Dec is attached again before
Enc is reached; `retries + Debt <= 3` is inductive, `retries <= 3` is not.

**Deployment.** The interfaces are the ends of the links made so far (`EndsOfMade`),
which share none (`NoSharedEnds`), and their numbers differ (`NumbersDiffer`). Which
links those are follows from the loops' positions alone (`Made`), so that the order in
which Go iterates over the chains does not matter. When the loops are through, all links
are made (`Loops`), and sharing no end is what `DeployAccepts` asks for.

**Redirect.** While the tool runs, what the maps hold is what was asked for before it,
with the effect of the steps it has done; this fixes what a failure at any step leaves
behind, and `After` says the same of it (`MapsAsAsked`). A packet that no command
overlaps with reads both maps as they were when it came (`CleanTreated`).

**ServiceFunctions.** Of the lines read so far, the last about a flow is in the map or did
not fit, unless a line that cannot be read came after it (`RulesRead`); the place of the
tool fixes how often it was refused (`Refusals`).

**XdpRedirect.** A hook belongs to a tool only at places where it will be given back, or
the tool was killed, or its call to give it back failed (`Owned`). Every refusal of the
agent uses up the one program a tool attaches, unless the removal that follows fails;
between the agent's two commands the program that refused is not counted again
(`Spent`). A tool at its detaching call owns the hook or has been robbed of it, so that
what it detaches can be Dec only then (`DetachOwn`).

**FlowMonitor.** `NeverOvercounted` needs the shape of the maps only: a packet adds to
one element, once, and elements in no entry are not shown. `ExactUnlessRaced` is
inductive only with what a stale pointer would contradict: while no update has met an
entry, pointers in use lead to the entry of their flow (`PointersFresh`), entries are
exact at every step between the two additions (`EntriesExact`), and a flow without an
entry met a full map (`MissingOnlyWhenFull`). Its sums are folds; that a fold of a
finite set is defined by its elements in any order, and changes by d if one value
changes by d, is proved by a smallest counterexample (`LeastNumber`, `SumChange`), since
induction over sets is not available as a theorem with an operator parameter.

**Stats.** There is one entry from the first insert on, and unless `map_inspector -z`
replaced an element in use every pointer leads to it (`OneEntry`); then its counters are
what was added (`CountersAgree`). A packet that shares its time with no other finds its
own time stamp (`Alone`, `OwnTime`).

**Tuple.** A packet that is sent is the one that came, or that with an outer header
(`SentAs`); the rest is case distinction on the offsets of `get_tuple`.

### Only model-checked

Liveness (`EveryPacketLeaves`, `InstallCompletes`, `AgentsFollow`, `ManagerDecides`):
fairness means ENABLED, which the prover does not handle. The four violated properties
are false. The safety part of `ImplementsServiceChain` is all of it: `ServiceChain`
states no fairness.

## 5. Not modelled

The Docker, OVS, MACVLAN and SR-IOV commands (one container is one step) and the
scripts; the JSON of messages and configuration; the result of `SIOCGIFHWADDR`, which
the code ignores; the address rewriting of tc-redirect, and the option `--list`; the hash of the load balancer
(one entry is ever written, and every flow falls back to it); chacha's cipher; SFs that
change a flow's 5-tuple, such as a NAT, which the design does not support (Enc could
not find the entry). The reads of `encap_nsh` through the pointer of its lookup are one
step with it (`EncapLookup`): that Dec may replace the element meanwhile, and the kernel
use it for another flow, as `FlowMonitor` has it, is not in `DataPlane` (see the plan).
The modes `-S` and `-N` of xdp_redirect_map, in which `ip link set xdp off` may name
another mode than the program is attached in, and a second signal while its handler runs
are left out. In `src/user`, `sfc_agent_user.c` and `cb_agent_user.c` are
earlier agents that the Go agent replaced, and `map_inspector` only prints, except for
`-z`. `firewall-libkefir` is code that libkefir generates from a list of rules; nothing
deploys it. koko is a vendored library. `headers/vmlinux_5.10.15.h`, 123,330 of the
repository's lines, is a generated dump of kernel types and has no behaviour.

## 6. Plan

Done: the modules of section 2 and the proofs of section 4. Next, in this order:

1. `Control` as a user of `StageLoading`: the loading commands of one node inside the
   life of its agent, as a refinement of `LoadStages` and `LoadFails`, and with it a
   theorem that `HelloReady` holds in the composition.
2. The refinement of the classifier's and the stages' hash maps by maps with elements,
   as `FlowMonitor` has them, for `nsh_data`.
3. The safety half of the liveness properties: what has to be enabled in every state from
   which `InstallCompletes` and `EveryPacketLeaves` still have something to do.
