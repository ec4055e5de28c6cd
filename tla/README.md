# A TLA+ model of SongBird

SongBird (C++/Qt, `src/src`) is a Windows client that runs a proxy core (Xray, sing-box,
mihomo, ...) as a child process and, while that core serves, points the Windows proxy
settings at it. Starting means validating, maybe downloading, maybe removing a stale TUN
adapter, launching one or two processes, probing them and only then taking the settings
over; stopping means giving the settings back as they were. Everything that goes wrong for
users goes wrong here: settings that point at a port nobody serves, the user's own proxy
lost, a core that survives its session, a start that never ends. Around that session run the
services that feed it: the watch over the server, the switch to another one, the update of
the core itself, the update of subscriptions, the generation of the core's configuration, and
the hand-over from one process of the application to the next.

These modules model that part of the program, check it with TLC on small instances, and
prove the safety properties that the instances suggest with TLAPS. The reference is the code.

- [Inventory](#inventory): the components, their state, what is hard about each
- [Modules](#modules): which module models which part, and how
- [Runs](#runs): what each run checks, the bounds, the fairness
- [Where code and documents disagree](#where-code-and-documents-disagree)
- [Proofs](#proofs)
- [Not modelled](#not-modelled), [Plan](#plan), [Running it](#running-it)

`PROJECT.json` maps every definition to the lines it translates.

## Inventory

The whole application lives on the GUI thread. Every handler runs to its end there; what
interleaves is what it waits for. There are five kinds of that:

1. worker threads (`BackgroundThreadTracker`), whose answers are queued back to the GUI
   thread and may find that the session has moved on;
2. timers: restart after a crash, resume after a stop, the 0-ms hand-overs;
3. child processes, which end when told to, or on their own;
4. the host: clicks, failover, subscriptions, the system shutting down;
5. other processes: an earlier SongBird that was killed, the Windows settings page.

| Component | State it keeps | Operations | Talks to | Hard behaviour | What makes it correct |
|---|---|---|---|---|---|
| **Proxy session** `appcore/ProxySession` | phase, current request, post-stop action, TUN clean-up state, claim on the settings, resume token, timers | start, stop, restart, switch, stop for update, probe answers, core exits, timers, clean-up ends | core host, resource broker, crash policy, settings, configuration | stale answers, stops inside gaps, async adapter removal, failed undo | settings are ours only while a live core serves them; what the user had comes back; a stop is the last word; activations end |
| **Startup resource broker** `appcore/StartupResourceBroker` | outstanding downloads, slot token of a core download | download core, geo files, rule sets, and resume | session, slot | an answer for an activation that is over | an answer acts only on the activation that asked |
| **Crash restart policy** `appcore/ProxyCrashRestartPolicy` | crash counts of both cores, conflict retries | decide, reset | session | budgets and thresholds | a core that keeps dying is given up on |
| **Core process host** `runtime/QtCoreProcessHost` | the child process | start, stop (soft, then forced) | session | exit reported after the stop returned | an exit is reported once, with its reason |
| **Background slot** `appcore/BackgroundTaskCoordinator` | kind, generation, active generation | tryBegin, finish, cancelActive, isCurrent | its seven clients, session's predicate | revoked workers that answer late | exclusive ownership; the slot is always given back |
| **System proxy coordinator** `app/SystemProxyCoordinator` | mode (saved), snapshot (saved), exit-applied flag | setMode, clear, adopt, apply on exit | session, Windows settings, configuration | kill before save, cancelled shutdown, two writers | no exit leaves a dead port behind; the user's settings survive |
| **Launch and exit** `app/AppBootstrap*` | startup-preference timer | adopt, apply preference, persist, clean up | all of them | order of adoption, preference, saves | leftovers of a killed process are recognised |
| **Health watchdog** `appcore/ProxyHealthWatchdog` | two timers, two flags, failure streak, warning shown | periodic probe, direct recheck | session's signals, status bar | a probe's answer has no identity and outlives its activation; four writers of one text | the watch never stops while the session is up; a waived check is taken back |
| **Core update** `app/CoreUpdateCoordinator`, `services/CoreUpdate*` | pending update, modal confirmation, worker | check, stop, install, resume | slot, session, files | session changes during the dialog; the worker looks at its cancellation between steps only | nothing is replaced under a core; the slot is given back; success is whole |
| **Failover** `app/AutoSwitchCoordinator` | switches so far, pending probe, warm results | failure, warm round, probe, pick, switch | session, speed test, slot | starts without asking whether one is under way; a probe answered by an activation's cancellation | as many switches as there are other servers, and the probe always answered |
| **Default server switch** `app/DefaultServerSwitchCoordinator` | none but its timer | set default, restart, switch after stop | session, configuration | 0-ms timer not taken back | the last server asked for runs |
| **Speed test** `services/SpeedTestController`, `app/SpeedTestCoordinator` | batch, dirty flag, save timer | begin, cancel, finish, save | slot, failover, configuration | one worker for two owners; cancellation races the end | results are kept however the batch ends; no batch beside an activation |
| **Subscriptions** `app/SubscriptionWorkflowCoordinator`, `services/SubscriptionUpdateService` | token, the worker's copy of the configuration | update, merge, save, reload | repository, slot | two copies edited at once; a revoked worker still saves | marks stay on the servers the user marked; the default server is listed |
| **Configuration repository** `persistence/JsonConfigRepository` | two companion files | load, save | everybody | a crash or a failure between the two writes | memory and disk agree between updates |
| **Server collection** `app/ServerCollectionCoordinator`, `services/ServerService` | the server list in memory | mark, choose, remove | repository | edits while a worker holds an older copy | an edit refers to the server the user saw |
| **Core configuration writers** `runtime`, `backends` | none | generate for three cores | configuration | names that refer across sections built apart; one rule in three forms | every name exists; the node is found without the proxy; every core decides alike |
| **TUN mode** `app/TunModeCoordinator` | the saved flag | toggle | session, restart | a copy of the configuration held over a dialog; saved before elevation is granted | the flag is what the file says, however the prompts end |
| **Restart, elevation, single instance** `app/Application*`, `SingleInstance*`, `platform` | the lock, the arguments of the successor | restart, elevate, wait, acquire | configuration, lock, Windows | the lock is given back before the hand-over is certain; waits that run out | never two at work, and never none that the user did not end |
| **Application update** `app/AppUpdate*`, `services/AppUpdate*` | the update script | download, hand over to the script | restart, files | a script that outlives the process and may run out of time | a process comes up again |
| **Geo update** `app/GeoResourceUpdateCoordinator` | token, cancel flag | begin, cancel, finish | slot | cancellation races the end | the slot is given back |
| **Sharing** `subscription/ShareUrl*`, `subscription/Clash*`, `services/ExportService` | none of its own: a server's fields | build and parse links, build and parse Clash entries | server list, configuration writers | twenty-two functions that have to agree on thirty fields; mistakes that show only after the second export | a server that is passed on is dialled as before, but for the losses that are listed |
| **Other parsing, UI, platform** | none of interest | conversions, widgets, system calls | | | |

How they interact, in one round: the host calls `SystemProxyCoordinator::setMode`, which
saves the mode and calls `ProxySession::start`. The session revokes whatever holds the
background slot, goes through its phases (the broker takes the slot for a core download),
launches the cores through the host, probes twice, captures the snapshot, writes the settings
and claims them (`managedSystemProxyActive_`). A stop, a failed start and a crash go back
through `undoSystemProxyChange`. At exit the coordinator undoes what is still claimed; at
launch it adopts what an earlier process left behind. While the session is up the watchdog
probes the server and the failover keeps a round of measurements; a session that fails is
handed to the failover, which picks a server and starts the session again. Updates of cores
and subscriptions take the background slot, work in a thread, and are revoked by any
activation.

The hazards that follow from this, each at its line and with the properties aimed at it, are
the `hazards` of `PROJECT.json`.

## Modules

```
TaskSlot                   abstract: exclusive ownership of one slot
   ^ refined by
BackgroundTaskCoordinator  tokens, blocking predicate, revocation   <- MC..., ..._proofs

CrashRestartPolicy         budgets of the two cores
   ^ extended by
ProxySession               the session, its broker and its cores    <- MC..., ..._proofs
   | abstracted to six states in
SystemProxyCoordinator     who owns the settings, over many processes    <- ..._proofs

   the session as they see it (three or four states), the slot as they use it
HealthWatch                the watch over a session that is up           <-+ WatchAnd-
GroupFailover              failover, speed tests and the session         <-+ Failover_proofs
CoreUpdate                 update of a core beside the session           <-+ Updates_proofs
SubscriptionUpdate         two copies of a configuration, two files      <-+
CoreConfig                 routing and resolvers for three cores         <- ..._proofs
Handover                   restarts, elevation, the lock, the TUN switch <- ..._proofs
Sharing                    what a link or a Clash entry carries          <- ..._proofs
   all extended by MCServices
```

### TaskSlot and BackgroundTaskCoordinator

`TaskSlot` says what the application promises: at most one job owns the slot, a result is
applied only by the owner, anybody else's is dropped. It knows no tokens.

`BackgroundTaskCoordinator` is the code. Its variables are the class's members
(`activeKind`, `generation`, `activeGeneration`) plus what the clients hold (`token`,
`status`) and what the predicate reads (`activating`). `beganFor` is history: the
activation that began a job for itself. `Begin` and `Refuse` are `tryBegin`,
`Complete` is the completion every client posts (`isCurrent`, then `finish`),
`BeginActivation` is `cancelBackgroundTasksForProxyStartup`. Any job may complete at any time
after it began, so revoked workers answer in the middle of a later job of the same kind.
`ImplementsSlot` maps the owner to the job whose token is current. The progress texts and the
cancellation flags of the clients are left out.

### CrashRestartPolicy

A pure module: `Action(p, e)` and `After(p, e)` are `decide`, split into what it answers and
what it remembers. A count past the budget decides the same whatever its size, so the model
stops counting there; that is the only difference. `DelayMs` documents the delay; no property
depends on it. The code does not reset the crash counts when the user starts the session, and
neither does the model.

### ProxySession

One action per handler; each runs to its end, as it does on the GUI thread.

| State | Code |
|---|---|
| `phase` | `phase_` (three phases begin and end inside one handler and are not states) |
| `request`, `post`, `managed`, `reachable`, `tunAtStart`, `tunClean`, `crash` | the members of those names |
| `main`, `aux` | the two hosts: no process, running, or told to go and not yet gone |
| `reg`, `snap` | the Windows settings and `config_.systemProxySnapshot()`, as one value each |
| `pending` | every answer and timer that has yet to reach the GUI thread |
| `have`, `server` | what is on disk, and the default server: changed by downloads and the host |
| `warned`, `lastWord` | history, for `LeftoverIsReported`, `StopIsFinal` and `FailureLetsGo` |

An element of `pending` carries what the code's closure captured: a probe its server and
whether its core is still the latest one (`coreStartTime_`), a core download whether its token
is still current, an adapter removal the action to run afterwards. Cancelling a timer, or
bumping `pendingResumeId_`, takes the element out. Two stale probes for one server are one
element: both do nothing.

`FailStartup`, `StopInternal`, `ClearApplied`, `Undo` and `StartInternal` are the functions of
those names; a handler that calls them conjoins them. `StartInternal` follows the code into
everything it does synchronously: the overlap check, the revocation of background tasks, the
adapter removal, the validations (any of which may fail), the download, the launch, which
reports `started` before it returns. The host's calls are guarded by what the host checks:
a start asks `isActivationInProgress` first, except for the failover, which does not
(`AutoSwitch`).

`Faults` names what may fail in the settings: reading them for the snapshot, applying ours
(wholly or half-way), undoing (wholly or half-way).

Left out of this module: the synchronous stop of a shutdown, the dialog that offers another
core, the location display, warnings and log. A relay core that fails to start is not noticed
by the code and is here one of the two outcomes of a launch.

### SystemProxyCoordinator

The settings outlive the process, so this module has processes that come and go: `Launch`,
`Quit`, `ShutdownAsked` (Windows asks, and the user may cancel) and `Kill`. `disk` is the
snapshot as last saved, next to `snap`, the one in memory; `mode` is always saved with every
change of it. The session is reduced to six states and to the moments at which it writes:
`Applies` takes over, `Fails`, `CoreGoes` and `StopsItself` undo. These are the
outcomes of ProxySession's handlers, with the same conditions on `managed` and on the settings
being enabled. The variables `theirs` (what the user last set) and `lost` (a process died
while the settings were its own and nothing on disk said what they replaced) are history.

The user interface's conditions are kept: the switch disables a session that is up or on its
way and enables otherwise (`decideProxyToggle`), and clicks come after the 0-ms timer of the
startup preference. Saves and writes are assumed to succeed here; ProxySession has the
writes that fail. The job object takes the cores along with a process that is killed.

### HealthWatch

The two single-shot timers (`watchTimer`, `recheckTimer`), the two in-progress flags, the
policy (`failures`, `warned`) and the status text are the code's. Workers that are out are
counted by the answer they carry (`probes`, `rechecks`), because that is all that tells
them apart: an answer does not say which activation it was sent for. `text` has four writers
in the code (the policy, the waived check, the location display, and the session's own
clearing), and each is an action here. The answer is what the world (`node`, `network`) was
when the probe left.

### GroupFailover

The failure handler, the queue of decisions behind it and the batches they borrow, with the
session reduced to four states and what it owes the switch (`postSwitch`, `resume`). One
worker runs one `batch`, of the user, of a warm round or of the failover. `CancelBackground`
is what any activation does to it, in the code's order: end the batch, save what is unsaved,
then give up the slot. `pickWarmSwitchTarget` and `roundRobinFallback` are the two choices; a
warm answer may expire at any time (`Expire`). `Rankable` are the members that can be
measured, `Outside` the servers that are in no group.

### CoreUpdate

An update asks (`dialog`), with the answer to "is a core running" (`mustStop`) read before
the dialog opened; stops the session if so (`pendingUpdate`, `wanted`), and then its worker
fetches and installs. Of an archive it copies the files one after the other, each replaced at
once. A core that comes as one compressed file is unpacked beside the executable (`Unpack`),
the executable is removed (`RemoveTarget`), and what was unpacked is renamed
(`RenameStaging`). All updates unpack to the same path: `staging` says whose file lies there,
and a `disk` entry may be old, new, gone, or `"early"`: a file that was renamed while another
worker was still writing it. `stage` is where each worker is: a revoked one goes on until the
next place at which the code looks. `stranded` and `beside` are history: the updates that hold
the slot and that nobody will continue, with the three ways to become one; and the updates
whose executable another worker was at as well, between the unpacking and the report
(`AtFile`), which are the ones `SuccessIsWhole` excepts.

### SubscriptionUpdate

`memory` is what the interface has; `primary` and `state` are the two files; every worker has a
`copy`. A server list is a function from nodes (what a subscription offers) to identifiers;
marks are kept by identifier, in the second file. `Replace` is the merge: a node the list had
keeps its identifier, a new one gets a new identifier, and a default server that is gone gives
way to the first one offered (`NewDefault`). `Writes(u)` tells what each outcome saves.
Any save and any load may fail and the application may die between the two files
(`Crash`). `apart` is history: from the first failure, or from the first write of a
revoked worker, memory and disk may differ.

### CoreConfig

What is generated for the core, as functions of the `settings`. A rule lists values of kinds
(a host, a rule set, one that is not published for sing-box, an address, ...) and conditions.
A connection is a set of the kinds its name, address and process match. What a value
matches is not the same everywhere: a bare value is a part of the name in every route, and in
the DNS section of sing-box the whole name (`appendDomainField` with `plainAsDomain`:
`WholeNames`); a dotless one is a keyword in sing-box and mihomo, and Xray alone minds the
dot (`Undotted`). A name that is matched as a whole is so in part (`ByWholeName`). A process is
named as its core sees it (the writer of sing-box appends ".exe"); TUN and its hijacking are
not looked at.
`appendLegacyRoutingRule` (Xray), `appendSingBoxRoutingRule` and `appendMihomoRules`
translate it into what each core matches. The effective rules are not built up as a list: a
rule has a place, the band it belongs to (blocked, direct, proxied, the profile's) and its
position there, and `Before` is the order of `effectiveRoutingRules`. `Verdict` is what the
first place whose rule takes a connection says. For sing-box, `dnsServers`, `defaultDomainResolverTag`, `finalDnsServerTag` and
`askedByRules` are the parts of the root that name resolvers, each built from the settings on
its own, as in the code.

### Handover

Processes of the application by number of launch, each with its place (`at`): waiting for a
predecessor, asking for elevation, trying the lock; up, behind a question, blocked while
Windows asks; on its way out. `lock` is the process attached to the shared memory, `after` the
argument `--restart-wait-pid`, `tun` the flag in each process's memory and `saved` the one in the
file, `reverts` the processes that take TUN back if elevation is refused, `script` the
processes whose update script has yet to run. A restart gives the lock back, launches the
successor and cleans up then (`promptRestartForLanguageChange`, or
`promptRestartAsAdministratorForTun` and `RestartAccepted`); an update keeps the lock until
the clean-up. Histories mark what the code gives up: `late` (a wait ran out), `overtaken`
(somebody else came up while the lock was given back), `torn` (the last save failed), `owed` (a process
came up, and neither the user nor a failure ended one). Identifiers of processes are not reused here,
and launching a process without elevation does not fail.

### Sharing

One `server`, exported as a link or as a Clash entry (`shared`) and imported again, up to
`MaxHops` times. A server is a record of the fields of `VmessItem` that reach sing-box. A
text is empty, plain (`PlainTexts`: letters and digits), a word the code knows, or stands for a
class of texts that some form converts (`Converted`):

| Class | What happens to it |
|---|---|
| `"marked"`: one of `/ + , : @` in it | a query value that is read without decoding keeps the code: it becomes `"spoilt"` |
| `"spoilt"`: a code such as `%2F` in it | before the `@` of a link it is decoded twice (`QUrl::userName`, then `fromPercentEncoding`: `UserInfo`) and becomes `"marked"`; in an undecoded value it becomes `"worse"` |
| `"worse"`: the code of a code | stays that |
| `"colon"`: a SOCKS user name or password with one | the credentials are cut at the first colon (`tryAssignUserInfo`): of a user name the head remains, the password becomes the rest |
| `"slashed"`: a Shadowsocks password whose base64 has a slash | ends the host's part of the link, which is refused |
| `"007"`, `"null"` | read from an entry as a number, or as nothing, in quotes or not |
| `"three"` addresses | an entry has a key for two |

`Fits` says which servers there are: fields a protocol has no use for are empty, network and
security are among those the program offers, names and numbers (`Words`) hold no character
that is encoded, only a secret may consist of digits or be `null`, the last two classes that a link
cuts are where the cut is (`InPlace`), and a user name is not `"worse"`. Not represented: blanks
at the ends, letter case, and base64 that happens to decode to something with a colon in it.
`buildVmess` to `buildNaive`, `parseVmess` to `parseNaive`, `buildProxyEntry` and
`parseProxyArray` say which fields each function writes and reads, in which of several
spellings, with which defaults, and whether a value is decoded (`AsItStands` is a value that is
not). `Outbound` is what `buildPrimaryOutbound` tells sing-box to dial; `defaults` are the
settings a server may leave open. `PassedOn` compares the outbounds before and after: what
differs has to be among what `LostByLink` or `LostByEntry` lists, and a link is refused only
where `Unreadable` says so. The lists are the statement: each of their lines is a loss the code
has, written down independently of how the functions bring it about. A loss that is not listed
violates the property; one that is listed is permitted and not required, so that code that
kept more would satisfy it as well. What the changelog promises of entries is
`EntryKeepsServer`, which is [not so](#claims-that-are-not-so). Name, address and port, which every form carries, and the older
forms of links that are only read, are left out; deduplication on export as well.

### MCServices

The seven modules above share no variable: each has the session as it sees it. `MCServices`
extends all seven (their `Init` and `Next` are named after them), and `focus` says
whose behaviour is explored, while the others rest; `Focus` is which of them a run explores.
One run then checks what seven would.
`TheoremsApply` is an assumption that TLC evaluates: the instance satisfies the hypotheses of
the theorems.

## Runs

| Run | Distinct states | Shows |
|---|---|---|
| `task_slot` | 22,641 | the token protocol is exclusive, the slot belongs to the activation that uses it, and all of it implements `TaskSlot` |
| `session_plain` | 293,648 | no TUN: settings, phases and stops, with two servers, core downloads, failing writes |
| `session_tun` | 70,068 | TUN and relay core: types, no core without a session, one removal at a time |
| `session_faults` | 45,149 | failing undos and downloads: nothing forgotten, everything ends |
| `system_proxy` | 3,847 | launches, kills, edits: claims, exits, leftovers |
| `services` | 739,108 | stale probes, failover beside speed tests, two core updates, two subscription updates with edits and crashes, 5,698 configurations, three processes that restart, elevate, update and launch one another, 2,504 servers of eleven kinds, under eight settings each, passed on twice |
| `session_stop_in_tun`, `session_stale_geo`, `session_relay_gives_up`, `system_proxy_killed`, `system_proxy_user`, `services_refresh` | | six disagreements, below |

What the properties say:

- `OursHasLiveCore`, `ProxyingIsUp`: the settings point at the app only while a core that was
  not told to go serves them; reported as proxying, all of that is so.
- `UserProxyKept`, `RestorePossible`, `LeftoverIsReported`: what is not ours is what the user
  had; while ours is in place what they had is known; what could not be undone was reported.
- `StoppingHasKill`, `NoZombieCore`: a stop waits for exactly the cores that were told to go,
  and a running core always belongs to a session that knows it.
- `StopIsFinal`, `FailureLetsGo`: action properties. No launch follows a stop unless the host
  asked again; a session that reports its failure has let go of the settings.
- `OneCleanup`: the adapter removals and the state that describes them agree.
- `ActivationEnds`, `StoppingEnds`, `CrashLoopEnds`: liveness.
- `OursIsClaimed`, `TakesOverWhenAsked`, `QuitLetsGo`, `LeftoverEnds`: the same promises over
  several processes, each but for what `lost` excuses.
- `WatchGoesOn`, `WaiverCanEnd`: stale answers clear flags of later activations, and still
  exactly one of timer and probe keeps the watch going, and a waived check is rechecked.
- `NoBatchBesideActivation`, `ResultsReachDisk`: whoever activates, the batch on the ports the core needs
  was told to end, and what it measured is saved or about to be.
- `SwitchesAreBounded`, `ProbeIsAnswered`: the safety kernels of "a failover ends": at most
  `Len(Group) - 1` switches, and no wait for a probe that is gone.
- `TokenIsInUse`, `InstallsAlone`, `SuccessIsWhole`: an update that holds the slot is on its
  way (but for the stranded); replaces no file of a core that runs; and when it reports success
  every file of the package is there and is the new one, whatever a revoked worker did to the
  files of an archive meanwhile. Of a compressed core this holds unless another worker was
  at the executable at the same time (`beside`): the two share the staging path, and each
  removes the target.
- `MarkIsUsers`, `DefaultIsListed`, `MemoryIsOnDisk`: over every copy of the configuration,
  of whatever age: identifiers never move a mark to a server the user did not mark, the
  default server is listed (the list and the default are in one file, so this is about each
  merge and edit by itself), and between updates memory and files agree unless something
  failed. An edit that an update overwrote is gone from both and not seen by `MemoryIsOnDisk`.
- `NamesExist`, `NodeIsFound`, `OneDecision`: for every configuration: the sing-box root
  refers to servers it has; the node's name is resolved outside the proxy; the three cores
  route a connection alike, and sing-box asks its name on the same side of the proxy. The
  exceptions are in the statement, and in [Restrictions](#restrictions-that-matter) below.
- `OneIsThere`, `SwitchIsHonest`: no two processes work at once, and none is missing that the
  user did not end; the TUN switch of the one that is up is what the file says.
- `PassedOn`: no field of a server is forgotten, read as another, or changed by a second export,
  except for the losses listed, and no server is refused whose link can be read.

The type invariants of the slot and of the services, and `BusyHasHolder` (a taken slot has a holder), have no run
of their own: they are parts of the proofs. Sharing has none: its proof follows the fields
one by one, and needs to know of the texts in them only that the server fits.

Every property of a passing run has a mutant in `PROJECT.json`: a plausible slip in a mapped
definition, written next to it and marked `(slip)`, that TLC finds to violate it.

### Bounds

- **Jobs, kinds, activations (3, 2, 2).** A stale token needs one job revoked and a second
  one of its kind; the third makes a stale token compete with another stale one, the second
  kind tells recognition by kind from recognition by number.
- **Servers (2 without TUN, 1 with).** A change of the default server matters against one
  other; the probe's server check is the only place that compares them.
- **MaxDownloads (2).** Downloads of one kind that are out at the same time. One of an
  abandoned activation next to one of the current is the interesting case. At the bound a
  start that would fetch again is not taken; with two slots each start finds one unless two
  earlier ones were abandoned.
- **MaxCrashRestarts (1), MaxTunRetries (0 and 1).** The code has 5 and 1. The counters only
  compare with their budgets; 1 gives a restart and a refusal. The proofs hold for any value.
- **Faults.** `session_plain` lets applying fail, `session_faults` lets undoing fail. Both in
  one run would break `LeftoverIsReported` (see the hazard at `ProxySession.cpp:1357`).
- **Group (3) and one server outside it.** Two servers cannot tell the round robin from
  going back; with three a switch can come to a server that was not measured, and the ceiling
  is met after two.
- **FailuresBeforeWarn (2), MaxOut (2).** The code's threshold; two workers of one kind are
  the stale and the current one.
- **Core updates (2), files (2).** A revoked worker beside the current one; one auxiliary file
  and the executable make the order of replacement matter.
- **Subscription updates (2), nodes (2), edits (1), identifiers (3).** A revoked worker
  beside the current one, over a list the user edited since; with three identifiers one node
  can be dropped and offered again under a new one.
- **Processes (3).** One that leaves, the one it launched, and one that the user launches in
  between. `HandoverGoesOn` stops where a wait ran out (nothing is promised after it), and
  where an update script is to run beside an overtaken process. Explored without the second of
  these bounds once (465,165 states), the invariant of the proof held as well.
- **Configurations.** All states of the four resolvers (no address, an address, a name, a name with a
  known address), hosts table, fake addresses and two profiles; and, with and without
  fragmentation, all lists of up to two
  custom rules of nine shapes (two of them with a bare and a dotless value) over six profiles.
- **Servers to pass on.** Of each of eleven protocols a plain server and all that differ from it
  in up to two fields, under all settings a server can leave open. Fields interact in pairs
  (network and host, REALITY and the certificate's hash, the check and an own certificate), and
  a changed builder or parser shows in one or two fields; that no third field matters is what
  the theorem adds. Of the classes of converted texts each secret takes those its protocol
  can tell apart.
- **MaxHops (2).** What the first import leaves is exported once more: "1" for "true", per cent
  signs encoded again.
- **MaxKills, MaxEdits (2).** In SystemProxyCoordinator: a second kill finds what the process after the first left
  behind; a second edit can change back.

### Fairness

ProxySession: every worker's answer arrives (its service call has a timeout and it posts its
result in every case), every timer that stays armed fires, and a process that was told to go
is reaped (the host follows a soft stop with a forced one). The timers have one fairness
condition together, which is weaker than one each and turns out to be enough.
Nothing is assumed of the host or of crashes. `CrashLoopEnds` therefore says: infinitely many
restarts need infinitely many requests of the host or infinitely many long runs.

BackgroundTaskCoordinator: a worker ends. SystemProxyCoordinator: an activation has an
outcome, a core that was told to go does, the timers fire, an update ends. The first two are
`ActivationEnds` and `StoppingEnds` of ProxySession.

The seven modules under MCServices state no fairness: what must eventually happen in them is checked as
the invariant that makes it so (`WatchGoesOn`, `ProbeIsAnswered`, `TokenIsInUse`: somebody
who will act exists), which TLAPS can prove as well.

Deadlock is checked, except in `task_slot`, where each job is asked for once, and in
`services`, where a focus ends when its bounds are reached.

### Restrictions that matter

- `ActivationEnds` is checked without TUN. With TUN it does not hold: a start that finds a
  removal under way (`ProxySession.cpp:737`) enters `EnvironmentCleanup` and waits for a
  continuation that, after a stop, does not resume it. Another start or stop of the user's
  gets it out. No document promises otherwise, so this is a hazard and not a finding.
- `NoZombieCore` is checked without downloads. With the geo download it is violated
  (`session_stale_geo`); with a core download and a second server, or with failover, it is as
  well, through the unguarded timer of a server switch.
- `UserProxyKept` is checked in `session_plain`, where applying may fail; undoing does not
  fail there, and TUN adds no write of the settings.
- `TokenIsInUse` excepts the stranded updates and `MemoryIsOnDisk` what `apart` marks. Both
  are history variables set where the code gives up the promise, and nowhere else.
- `NamesExist` excepts the names of resolvers the user cleared; what happens then is below.
- `OneDecision` excepts rules a core cannot express (rule sets not published for sing-box, for
  mihomo conditions, for Xray the default of a fragmented proxy and names with a dot that hold
  a dotless value), and, for the asking of names, rules that decide without listing
  names, rules with conditions beside their names, names that hold a bare value for a mere part
  (`BareIsKeyword` is the same without this exception, and [not so](#claims-that-are-not-so)), and names of the hosts table, which sing-box looks up
  before its rules.
- `SuccessIsWhole` excepts `beside`, which only updates of a compressed core can be: another worker's
  `RemoveTarget` may then leave no executable after the success, or the rename may take a file that
  the other is still writing.
- `OneIsThere` excepts `late` and `overtaken`: `restartApplication` gives the lock back before
  elevation is confirmed and does not look whether it gets it again, so that two are up if a
  third was launched meanwhile. `SwitchIsHonest` excepts these and `torn`.
- `StopIsFinal` is checked without TUN; with TUN it is violated (`session_stop_in_tun`). The
  0-ms timer of a server switch counts as a request of the host.

## Where code and documents disagree

Each of these is a run that TLC finds violated; `PROJECT.json` quotes the line.

1. **A stop during the adapter removal is not final** (`session_stop_in_tun`). After a crash
   with TUN the restart timer removes the adapter first; the user stops meanwhile; the
   continuation looks only for `Stopping` and launches. The tests say of a stop in that gap
   that it "must be" the last word.
2. **The download of an abandoned activation ends a later session** (`session_stale_geo`).
   It holds no token; its answer finds `Proxying`, which is not an activation, and sets
   `Stopped` beside a running core.
3. **A relay core that is given up on leaves the settings in place**
   (`session_relay_gives_up`). The claim is dropped as if the undo had run; it runs only for
   the main core.
4. **A quit may restore the app's own port** (`system_proxy_killed`). The session captures the
   snapshot without saving it. After a kill the next process adopts the settings, captures
   them as the user's and restores them when it quits.
5. **A launch with the proxy off removes the user's own proxy** (`system_proxy_user`), and
   nothing puts it back.

6. **What a refresh learned is not kept** (`services_refresh`). On success the caching
   headers, the refresh time and the reset streak are set in the worker's copy after it was
   saved; the interface then loads the file. The next refresh asks without the headers.

### Claims that are not so

Three more claims of comments and documents are written down beside the property that
comes closest to them, for what the property excepts. They are in no run's list; as an
INVARIANT in `MCServices.cfg`, with `Focus` the one service, TLC refutes each in seconds.

- `FailureKeepsCore` (CoreUpdate): a core that comes as one compressed file is unpacked beside the executable, which
  is removed before the new one is renamed; if the rename fails, the new one is removed as well,
  and there is no core. `CoreUpdateOperations.cpp:489` says that a failed update "never truncates
  or removes an already installed core executable".
- `BareIsKeyword` (CoreConfig): with a rule "direct: google" a connection to www.google.com goes directly, and its name is
  asked for through the proxy: `appendRoutingRules` (`SingBoxDnsRuleConfig.cpp:191`) has a bare
  value taken as an exact name. `SingBoxDnsConfigSupport.h:50` says that a routing rule's
  bare value "is a keyword and wants "domain_keyword". Every caller currently passes true."
- `EntryKeepsServer` (Sharing): an own certificate or its hash stays behind while `skip-cert-verify` goes along,
  REALITY becomes plain TLS and XTLS none, and a password that is a number or `null` is read as such. In
  the trace a TUIC server that was held against its certificate is dialled without any check.
  `CHANGELOG.md:70` says that a node "comes back with the same address, port, credentials and
  TLS settings".

### Other observations

Seen while modelling, and kept as exceptions of a property, as hazards, or as notes here. The
session:

- A start that fails while a restart is pending is followed by that restart
  (`ProxySession.cpp:943`); `failed` is emitted while the core is still going (`:914`), although
  `AutoSwitchCoordinator.h:69` says "the session is already torn down when this runs". The
  failover's switch is then refused once and made by a timer.
- The comment at `:1391` says `beginStartupAttempt` bumps `pendingResumeId_`, which it does
  not; an undo that failed at exit is said to be "retried on the next launch" (`:1772`), and
  nothing at launch does that unless the settings are adopted.

The watch (HealthWatch, GroupFailover):

- An answer for an earlier activation counts as a failure of the current one
  (`ProxyHealthWatchdog.h:99` says such a probe "is dropped by the lifetime guard", which
  guards against the watchdog's own end only; `ProxySession.cpp:458` wants the warning earned
  "again from zero"). `WatchGoesOn` holds all the same.
- A direct recheck that succeeds, or choosing the current server again, clears a node warning
  that is still true, and the policy does not raise it a second time.
- A stop or a start of the user's while a failover probe is out does not keep the failover
  from starting when the probe ends, unless something proxies or activates then
  (`AutoSwitchCoordinator.h:54`: "the user acting first wins").

Updates (CoreUpdate, SubscriptionUpdate):

- Two workers that unpack a compressed core, one of them revoked, remove and rename each
  other's file: a success may be followed by its removal, or be a file that is not complete.
  `beside` marks them.
- A token that is revoked while the confirmation is open is not looked at afterwards.
- An edit made during a subscription update, and an update's result, each overwrite the
  other's copy; that includes the saved snapshot of the system proxy, and a state file that
  cannot be read counts as empty and is overwritten. `apart` and the edits' bound mark where.
- An interruption during the last attempt of a download counts as a failure of the server
  (`SubscriptionUpdateService.cpp:464`), though "Only a transport failure is evidence" (`:147`).
- Two subscriptions of one host "can never be adjacent" (`SubscriptionUpdateOrder.cpp:82`):
  they are when one host has as many as the others together and more.

Generated configurations (CoreConfig; where it is about Xray's and mihomo's resolvers or
listeners, from reading):

- A cleared bootstrap resolver leaves `domain_resolver` of the other two pointing at it, though
  the dialog's tooltip (`DnsSettingsPageWidget.cpp:116`) says to "leave empty when they are IP
  addresses"; rules name the remote and the direct resolver when those are cleared.
- A bootstrap resolver given as a host name and the direct resolver resolve each other; a
  custom DNS object with a node resolver given by name resolves that name by itself.
- A rule that lists only what sing-box has no rule set for becomes a rule without conditions.
  mihomo treats ports as alternatives of the values and drops network and protocol conditions.
  Private addresses go direct before the user's rules in sing-box only.
- With fragmentation Xray's first outbound, hence its default, is the fragmenting one
  (`XrayCoreBackend.cpp:260`). Xray's rules for direct resolvers come after a catch-all of the
  user's; mihomo's probe listener has no rule of its own.

The hand-over (Handover), and what was read around it:

- An elevation that is refused leaves a process up without the lock if another was launched
  meanwhile (`ApplicationRestartCoordinator.cpp:138`).
- An update script that can move neither file leaves no executable in its place.
- A restart persists before it cleans up, and the one of an application update does not persist
  the interface; the TUN toggle and the settings dialog hold a copy of the configuration over a
  modal dialog and write it back whole; a failed restore of a backup leaves the core stopped.

Passing on (Sharing; `LostByLink` and `LostByEntry` are the whole list):

- Of Clash entries, `EntryKeepsServer` above is the main part. `ClashYamlBuilder.cpp:31` says that
  numbers and `null` are quoted: numbers are not, `null` is, and the reader takes either for what
  it looks like.
- A SOCKS user name with a colon arrives cut, a Shadowsocks password whose base64 has a slash
  makes a link that is refused, and what holds the code of a sign before the `@` of a link
  arrives with the sign itself.
- Links of Hysteria2, TUIC, Naive and WireGuard are read without decoding in some fields
  (obfuscation password, protocols, keys, addresses), so that what has a `/`, `+` or `,` in it is
  spoilt, and spoilt further by the next export. A SOCKS server over TLS loses TLS; VLESS and Trojan
  lose the skipped check, and the fingerprint unless it is REALITY; QUIC without a host
  arrives with a host named "none"; "insecure" is written as 1 and, for Hysteria2 and TUIC, not
  recognised at the second export; a Naive server without a user name is refused.
- `NodeFingerprint.h:16` takes "username+password for Socks/HTTP"; their password is in
  `security`, which it does not look at, and `username` is Naive's alone: two accounts of one
  name on one server are exported once.

## Proofs

TLAPS proves, for every value of the constants:

| Theorem | Of |
|---|---|
| `TypeCorrect`, `OneHolderAlways`, `BusyHasHolderAlways`, `SlotBelongsToActivationAlways`, `SlotRefined` | the slot |
| `TypeCorrect`, `StoppingHasKillAlways`, `OneCleanupAlways` | the session |
| `ProxyingIsUpAlways` (no relay core) | the session, its core and the settings |
| `OursHasLiveCoreAlways`, `FailureLetsGoAlways` (no relay core; undoing works) | the same |
| `LeftoverIsReportedAlways` (no relay core; one kind of access fails) | the same |
| `StopIsFinalAlways` (no TUN) | the session and all that is pending |
| `NoZombieCoreAlways` (no downloads; every start asks for TUN or none does) | the same |
| `RestorePossibleAlways` (reading does not fail), `UserProxyKeptAlways` (reading and applying do not fail) | the session and the settings |
| `TypeCorrect`, `OursIsClaimedAlways`, `QuitLetsGoAlways`, `TakesOverWhenAskedAlways` | the settings over many processes |
| `HealthTypeCorrect`, `WatchGoesOnAlways`, `WaiverCanEndAlways` | the watch |
| `FailoverTypeCorrect`, `NoBatchBesideActivationAlways`, `ResultsReachDiskAlways`, `SwitchesAreBoundedAlways`, `ProbeIsAnsweredAlways` | the failover, for groups of any size |
| `CoreTypeCorrect`, `TokenIsInUseAlways`, `InstallsAloneAlways`, `SuccessIsWholeAlways` (but for `beside`) | the core update, for any number of updates and files |
| `SubsTypeCorrect`, `MarkIsUsersAlways`, `DefaultIsListedAlways`, `MemoryIsOnDiskAlways` | subscriptions, for any lists, updates and identifiers |
| `TypeCorrect`, `OneIsThereAlways`, `SwitchIsHonestAlways` | the hand-over, for any number of processes |
| `NamesExistAlways`, `NodeIsFoundAlways`, `OneDecisionAlways` | generated configurations, for any number of rules and of a custom object's servers |
| `PassedOnAlways` | every server there can be, passed on any number of times |

The assumptions are the named ones in the modules: `None` is neither a job nor a kind, the
bounds are naturals, the crash budget is at least one, requests are records of three flags. The
theorems of the services name theirs in the statement (`Numbers`, `FailoverInstance`,
`SubsInstance`, `ConfigInstance`, `SharingInstance`, `MaxCoreUpdates \in Nat`, `Executable \in Files`), because `MCServices` has
all of them in one module; Handover needs only `ProcessNumber`.

**The slot.** `OneHolder` is not inductive: it needs to know that no two tokens carry the same
number. `IndInv` adds `TokensNumbered` (no token is ahead of the counter, equal numbers mean
the same job) and `SlotConsistent` (an empty slot has number 0, a taken one has a holder).
`cancelActive` keeps the latter because it clears the slot, and the former because
it moves the counter on. `SlotRefined` then shows each step to be a step of `TaskSlot` or a
stutter; from `OneHolder`, `Owner` is the one job that holds.

**The session.** `TypeOK` and `StoppingHasKill` go together, because `EndPhase` reads
`main`. The invariant is split by who is in charge of it: `Duty` is what the shared helpers
assign, `Books` and `Policing` what the handlers do themselves. There is one lemma per helper
(`FailStartupDuty`, `StopInternalDuty`, `StartInternalDuty`, ...) and the actions follow by
citing them.

**The settings.** `NextProxy` first shows that, as far as the settings go, a step does one of
five things: nothing, drop the claim, `ClearApplied`, `FailStartup`, or `ApplySystemProxy`.
Each invariant about them then has five cases rather than one for each handler.
`RestorePossible` is strengthened to `Restorable` (no snapshot is ever ours), `UserProxyKept`
to `Kept`, which also says that whatever is claimed can be put back: a half-way undo may leave
a claim on settings that are the user's already.

**Who serves the settings.** `NextSession` goes one step further for a session without a relay
core: a step leaves core and settings alone (`Quiet`), launches a core (`Launching`), ends the
session (`Ended`), fails (`StartupFailed`) or takes the settings over from a core that runs
(`Applied`). `ProxyingIsUp` is inductive over these five. The other three need more:

- `Owned`, for `OursHasLiveCore` and `FailureLetsGo`: claim and settings agree, no snapshot is
  ours, and settings that are ours have a running core behind them. It needs undoing to work, and
  reading and applying not to fail together: a snapshot that was not captured and a write that
  went half-way leave ours in place with nothing to put back.
- `Told`, for `LeftoverIsReported`: settings that are ours are claimed or were reported. Any one
  kind of failure is dealt with; of two kinds, TLC shows for each of the three pairs how ours is left unsaid, which is the hazard
  at `ProxySession.cpp:1357`.
- A relay core has to be excluded from all of them: `session_relay_gives_up`.

**The last word.** `Still` says what a stop leaves behind: a phase that is Stopped or Stopping, no
running core, no restart to make afterwards, none of the three timers that launch
(`AtRest`), as long as the word was the last; and, without TUN, no removal. Each answer that
can arrive then has to keep it, which is one step of `NextStill` per handler. With TUN the
continuation of a removal is such an answer and does not (`session_stop_in_tun`).

**Cores nobody knows of.** What can set Stopped beside a running core is an answer the session no longer
waits for. Without downloads these are removals made for a start: `Known` says that while one is
under way nothing runs, because every start asks for TUN and therefore waits for it.
Requests of both kinds violate this as well (TLC: a start without TUN launches beside the removal that
an abandoned start began).

**Adapter removals.** `RemovalStep` says a step keeps the set of removals, begins one when
the state is idle, or takes the answer of one; `OneCleanup` is inductive on top of it.

**Many processes.** `IInv` says: a session that has a core or will have one is wanted
(`Wanted`); as long as nothing was lost, settings at ours have a snapshot in memory or on disk
to undo them with (`OursIsUndoable`), are served after a first exit and never during an
update (`OursIsServed`), and no snapshot is ours (`SnapshotIsTheirs`). The last is what breaks
after a loss, and with it everything else.

**The watch.** `WatchGoesOn` and `WaiverCanEnd` need `FlagsAreTrue`: an in-progress flag is
raised only while a worker is out, and the watch's only while the session is up. A stale
answer lowers a flag that a later probe raised, so the converse is false, and the proof is
about which of the two handlers re-arms.

**The failover.** `IInv` is `Session` (the ceiling, and what the session owes the switch),
`Books` (whose slot and whose results they are: `ResultsReachDisk` with the owner of the
batch), `Waits` (`ProbeIsAnswered` with the kinds a batch can have while it waits) and
`NoBatchBesideActivation`. The choice of the target is a lemma over the well-founded order of the
group's positions: the round robin finds a member if there is one that is not down.

**The core update.** `Control` says who may act (`Numbered`, `Alone`, `TokenIsInUse`): at most
one worker has a current token, and it works only while no core runs. `Copied` looks at the
files instead of the workers: one that is still the old file is yet to be copied by every
update, and only the executable of a compressed package is ever removed. `Exchange` is for
that executable: of an update that is at it and not `beside`, what lies at the staging path is its own, nobody
else is about to remove the target, and what it renamed is still there. `Works(u)` is what every step of a worker has in common, so that `Control` is proved once.

**Subscriptions.** `MarkIsUsers` is not inductive in any one copy, since copies of any age
replace each other. `Sound` is a statement about all lists and all marks there are, in memory, on
disk and in every worker: no identifier names two servers in any two lists, no mark is on a server the
user did not mark, whatever list it is read with, and every default is listed. `EditKeeps` and
`WorkerKeeps` reduce each action to one of three changes of that collection (`SoundKept`: a
list that was there, `SoundThinned`: part of one, `ReissueSound`: a merge, whose new servers get
consecutive identifiers that no list has). `Progress` and `Agrees` say where a save or a load under way has got
to, for `MemoryIsOnDisk`.

**The hand-over.** That two processes do not work at once is a matter of the lock while they are up
and of the wait once they leave, so `IInv` has both: whoever is up has the lock unless
overtaken (`UpHasLock`), nobody has it while Windows asks (`AskedWithoutLock`), who has the lock
is at work (`LockIsHeld`), and a successor has not gone past its wait before its predecessor ended
(`FollowsLeaving`, `WaitedFor`). `Kinds` sorts the steps of a process into four by what they do to the places, and
`LockMoves` into three by what they do to the lock; each part of `IInv` is one lemma over these.
`SomebodyComes` says who it is that will come up, and `MemoryIsFile` adds to `SwitchIsHonest`
the process that Windows keeps waiting.

**Generated configurations.** Each of the three properties is one of a root that
`buildClientRoot` builds, so the only invariant is `ConfigTypeOK`. `DnsServers` of six optional
members is taken apart once (`ServersOfSettings`): a server is in the list exactly if its setting is
given, and with its own resolver. `NamesExist` and `NodeIsFound` follow from that list and from
`DefaultIsFirstNamed`; the lookup of the node's name has at most four stations, each
one determined by the one before. `OneDecision` has two halves. The cores agree because an
expressible rule is taken by two of them alike (`XrayTakesAlike`, `MihomoTakesAlike`), so
that the sets of places that take a connection are equal, and with them their first members:
`FirstIsFirst` finds one by the well-foundedness of the order of places. The name is asked on the
side that the decision takes because the places that name it are among those that take it
(`NamingIsTaking`: for a name that holds bare values as a whole only, both readings agree); the first of
the former is the decider, unless the decider has no names, which is what the property excepts.

**Passing on.** The state is simple and the functions are not: the invariant `SharingIInv` says
that the server in the list fits (`Sound`), that what is on its way is what a builder made of it
(`OnItsWay`), and what came in is what a parser made of that (`Arrived`). The work is in `ByLink`
and `ByEntry`: for a server of any protocol that fits, the outbounds before and after differ
part by part (`PartByPart`) exactly where a loss is listed, and the new server fits again, which
is why a second hop loses nothing unlisted. Each protocol has a lemma that follows every field through its
builder and its parser; VLESS and Trojan share `StandardByLink`, four protocols that always use TLS share
`AlwaysTlsByLink`, and `StillFits` says once what may become of a text. `SharingInstance` is
all that is assumed: the servers fit, and no plain text is the name of a class. Trying to prove it corrected the list, which the
fewer servers of an earlier run had not: a path that is `/`, a host that is the server's address and a
fingerprint that is the one which fills its place are not lost, and a second secret that is a number
(`security`, `obfsPassword`) is.

**Only model-checked:** liveness, and properties under fairness in general; `ImplementsSlot`'s fairness part; and what the six theorems of the
session exclude: `session_tun` checks `NoZombieCore` with a relay core,
and the runs that find disagreements show what happens without the restrictions.

## Not modelled

- Network protocols; of the subscription formats, sing-box's own, the older links, and how a
  document is cut into entries: string conversion without state. Of the core configurations,
  everything but routing, resolvers and the outbound of sing-box.
- The four registry values behind "the settings" apart from one another; half-way writes are
  a fault of the one value.
- Widgets, dialogs (except for what they let the user ask), translation, logging, geometry:
  about 19,000 of the 66,000 lines, with some 3,000 more of parsers and the platform's calls. They
  have no behaviour that a state machine would describe shorter than they do; the map covers
  mostly `appcore`, `app`, `services` and the writers, and its share of the whole is small for that reason.
- Backup, geo update, and the download of an application update: each is a short sequence
  around a modal dialog, or another client of the slot. They were read; what was seen is at
  the end of the disagreements.
- Linux and macOS branches: the model is of the Windows build.
- Vendored code (`src/src/third_party`).

`components` in `PROJECT.json` gives the reason for each part.

## Plan

What is left, in this order:

1. The writers of the configuration that hold a copy over a modal dialog (TUN toggle, settings,
   backup) as further actors of SubscriptionUpdate.
2. The hand-over with SystemProxyCoordinator's settings: the successor is launched before its
   predecessor has undone them.
3. The resolvers of Xray and mihomo in CoreConfig, and their outbounds beside sing-box's in Sharing;
   sing-box's own format as a third way to pass a server on.

Proofs, in this order: that ProxySession implements the six-state session of
SystemProxyCoordinator and the three states the services see; the two directions of
`OneDecision`'s exceptions (that each of them is needed).

## Running it

In this directory, with TLC and TLAPS (1.4.5) installed:

```
tlc -config MCProxySession_plain.cfg MCProxySession     # and the other configurations
tlapm ProxySession_proofs.tla                           # and the other *_proofs modules
```

A `..._{stop_in_tun,stale_geo,relay_gives_up,killed,user_proxy,refresh}.cfg` run ends with the
counterexample of the disagreement it is named for; every other run ends without error.
