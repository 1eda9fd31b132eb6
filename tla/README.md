# TLA+ models of proxylib

proxylib answers one question for a Python program -- *through which proxies, in
which order, does this URL go?* -- and makes requests, httpx, aiohttp and
urllib follow the answer. Two things are hard in it: state that threads share (a
helper process, caches, breakers, handles of OS libraries, patches that overlap), and
precedence (which of a dozen sources, variables and lists decides for a URL). These
modules model both.

All paths below are under `src/src/proxylib/`; `PROJECT.json` maps each
definition to its lines.

## 1. The system

A *proxy map* answers `map[url]` with a list of proxies, `None` standing for a
direct connection, or raises `KeyError` (no opinion). Maps nest: a chain asks
its links in order, wrappers cache or rotate an inner map's answer, the system
map is a chain of deferred sources in front of manual settings. Integrations ask
the map in force and try the answer's entries in order; the breaker in `_net.py`
remembers which failed. `patching` decides which map is in force for a client.

| Component | State it keeps | Operations | What is hard | What makes it correct |
|---|---|---|---|---|
| PAC script and helper (`pac/script.py`, `_child.py`) | published runner, failed mark, end of the cool-down, restart lock; per helper: process, pipes, reply queue, lock | `find_proxy_for_url`, restart, `close`, helper loop, reader thread | overruns, crashes, restarts and closes of several threads; replies matched by order alone | own answer or an error; one helper; one call at a time; every call returns; nothing started in a cool-down |
| PAC loading, `PacProxyMap` (`pac/__init__.py`, `map.py`) | the script it owns, downloads | load, lookup, close | a live map may be shared | who made a helper can end it |
| PAC host functions (`pac/_functions.py`) | a DNS cache in the process that runs the script | resolution, date and time ranges | wrapping ranges, cached failures | a range turns at its ends; an address is never older than a lifetime and a resolution |
| PAC engines (`pac/engines/`) | a JS context | evaluate | none of its own | -- |
| WPAD (`pac/wpad.py`) | process-wide cache | `discover` | overlapping discoveries, no lock, live maps cached | a server that is up is used |
| System settings map (`system/_config.py`) | per deferred source: map, time of failure, lock | lookup, load, close | loads race closes; retries meet another cache | no orphan helper; retries reach the server |
| System entry points (`system/__init__.py`) | the map made, links of a chain | make, lookup | the environment is read twice, the settings once or on every lookup | one side decides, in one order; every URL has an answer |
| Desktop settings (`system/_posix/`) | gsettings cache | read | a merge restamps entries; programs fail half way | a read is right once the settings have settled |
| libproxy, Windows, macOS resolvers | library handles | lookup, close | handles used after close; many early returns | no use after free, no leak; the whole of an answer or none |
| Proxy health (`_net.py`) | marks with deadlines, address cache | `mark_bad`, `is_bad`, `order_by_health`, `first_working_proxy`, `clear` | marks overwrite each other without a lock | bans expire; a bad proxy comes last |
| Maps (`proxy.py`) | `_LazyPacMap`: its loaded PAC | lookup, close | second read after the lock | normal form of answers; a chain ends at the first opinion |
| Bypass, environment (`bypass.py`, `env.py`) | none | match, read | two spellings, CGI, order of rules, text matched without its labels | a name is listed by its labels; lower case wins |
| Wrappers (`wrappers.py`) | cached answers with deadlines; rotation positions | lookup, clear | lock released during the inner lookup | no stale answer; least recently used goes first; fair rotation |
| requests, httpx, aiohttp, urllib (`integrations/`) | per client: the map it follows, transports; `_CALLER` of requests | send with failover, install, close | the breaker changes while entries are tried; an exception is all that tells whether a request was sent; whose proxies requests has merged; a pool emptied under a send | sent again only when the library reported it unsent; every entry tried; the caller before the map before the environment |
| Patching (`patching.py`) | stack of patches, registry, installed set, import hooks | `patch`, undo, `register_patcher`, `_install`, hooks, `_uninstall` | threads, imports and failures between steps | installed once; covered clients follow the newest map; undo restores |

The hazards, each at its line and with the properties that cover it, are in
`PROJECT.json` under `hazards`.

## 2. The modules

| Module | Models | State and steps |
|---|---|---|
| `PacService` | what a `PacScript` promises its callers | a call is idle, asked, running or lost; it ends with the answer for its own URL or an error |
| `PacScript` | `pac/script.py`, `_child.py` | one action per stretch of code between two points where another thread, the helper or the reader can act: each lock acquisition, the write to the pipe, the wait for the reply, the two assignments of an overrun (`_failed`, then `_retry_at`), the three of a restart |
| `PacScriptProofs` | -- | theorems about `PacScript`, its refinement of `PacService` included |
| `ProxyHealth` | `_net.py` | the breaker's marks, and probers (`first_working_proxy`) that read the clock once and check servers one at a time |
| `Failover` (extends `ProxyHealth`) | `send` of the integrations | a request orders its candidates once, then tries them: connecting, sent, following a redirect (aiohttp). What the library raises for a connection that could not be made or one that broke later is external; which of these the loop takes for "never sent" (`FailedBeforeSending`) is the code's; it marks the entry and goes on, or gives up |
| `ProxySources` | `system/_config.py`, `pac/wpad.py`, `pac.load` | chains of `_Deferred` links, WPAD's shared cache, the download cache, `close` |
| `CachedMap` | `Cached` | locked hit, unlocked inner lookup, locked store and eviction |
| `RoundRobin` (extends `CachedMap`) | `RoundRobin` over a `Cached` map | rotation positions with a bounded table |
| `Patching` | `patching.py` and the clients | `patch` as the steps its loops take, with the lock held where the code holds it: `_hook` marks a name under the lock (`Mark`) and calls `importpatch.add` after it (`Add`), for `patch` (`HookEach`, or `Hook` after an import) as for `register_patcher`; clients made before, under and after patches |
| `RequestsRouting` | `integrations/requests.py`: `_record_caller`, `entries`, `send` | calls of sessions, nested as hooks nest them; `_CALLER` with its tokens; what requests merges into the dict it passes on (external); who decides a request's proxy |
| `PacFunctions` | `pac/_functions.py`: `weekdayRange`, `dateRange`, `timeRange`, `dnsResolve` | the clock runs a second at a time through a small calendar under a fixed call; threads resolve one host through the cache, each in three steps |
| `DesktopSettings` | `system/_posix/` but libproxy | a reader lists schemas one by one through the cache, running a program for what is missing; settings change and programs fail meanwhile |
| `MacResolver` | `CFNetworkProxyMap` | one lookup, with the count of each CoreFoundation object it owns |
| `Resolvers` (extends `MacResolver`) | `LibProxyMap`, `WinHTTPProxyMap`, `_LazyPacMap`, httpx's `_Transports` | threads look up and close one map of the kind chosen at the start; the handles that are alive, those in a call, those about to be freed |
| `BypassRules` | `bypass.py` | operators only: the rule an entry yields, the host and port it applies to, the list as a whole, and its meaning stated by labels |
| `AutoProxy` (extends `BypassRules`) | `auto_proxy` with `env.py`, `system/_config.py`, `_nt.py`, `Bypass`, `ChainProxyMap`, `lookup` | the map is decided on, made, and asked link by link; environment and settings change between any two steps |
| `AutoProxyProofs`, `FailoverProofs`, `ProxySourcesProofs`, `RoundRobinProofs`, `PatchingProofs`, `RequestsRoutingProofs`, `ResolversProofs` | -- | theorems about the module each is named after and those it extends |
| `MC*` | -- | small instances for TLC |

Conventions. A Python object that is created (a helper, a `PacProxyMap`, a
patch) is a number, in order of creation; 0 is `None`. A thread has a `pc`, and
its local variables are functions on threads; `Advance(t)` collects the steps a
thread takes by itself once a call has begun. `now` is `time.monotonic()`, and `Tick` moves it. A
variable whose comment says *history* or *external* is not program state: the
first records what a property needs, the second is Python's import system or a server.
Operators introduced by *Mutant:* comments are plausible mistakes; every property
was seen to fail when the definition after it is replaced by it.

What a URL, a proxy or a script's text contains does not matter to most
properties, so they are model values. Malformed replies of a helper are errors
like any other. In `BypassRules` a host's text does matter, and is a sequence of
characters of any alphabet `Chars` with a dot and a star; "l" stands for `localhost`.

`AutoProxy` takes a chain inside a chain as its links in line, since `KeyError` passes
on from both alike. `Resolvers` is its resolver link in detail: there a resolver's
answer is what a lookup of `Resolvers` can end with.

## 3. The runs

Passing runs:

| Run | Instance | Shows |
|---|---|---|
| `pac_script` | 2 threads, 2 URLs, 3 calls, crashes and closes, no interrupts | a caller gets its own answer (`OwnAnswer`), at most one helper lives (`OneHelper`), one call waits at a time (`OneCaller`), a failed script has no helper (`FailedIsEnded`), the cool-down holds outside the window between the two assignments of an overrun (`CooldownOutsideTheGap`), and the whole implements `PacService` (`ServiceSpec`) |
| `pac_script_liveness` | the same with one URL, interrupts too | every call and close returns (`EveryCallReturns`) |
| `failover` | 3 senders (one marks, over requests; one only learns, over aiohttp; one does not fail over, over httpx), a prober, 4 proxies two of which share a server and one has no port, DIRECT among the entries, 2 sends | a request that was sent is sent again only after its library raised, for it, what it raises for one it could not send (`ResentOnlyIfMisled`); `AllTried`, `LearnsFromOthers`, `BansExpire`, `OnlyBadArePassed` |
| `sources` | 2 threads, 2 maps (WPAD and a PAC; WPAD alone), 3 operations | `NoOrphan`, `UpMeansUsed`, `EveryOpReturns` |
| `wrappers` | 2 threads, 3 URLs, 2 answers, a cache of 2 and a position table of 1 | `NeverStale`, `KeepsMostRecent`, `Balanced` |
| `patching` | 2 threads, 3 clients (a built-in one that decides at construction, one registered later, one whose import raises), 2 patches | `InstalledOnce`, `CoveredClientsFollow`, `UndoRestores` |
| `requests` | 3 sessions (patched; patched without `trust_env`; a mounted adapter and a proxy of the session's), 3 calls, one inside another | `CallersProxyWins`, `MapBeatsEnvironment`, `UntrustingIgnoresMap`; a dict that is used twice, a nested `send` and a `ProxyDict` with no opinion are the exceptions, each named where the property is stated |
| `pac_functions` | every argument form over a calendar of 2 years of 3 months of 3 days of 3 hours of 2 minutes of 2 seconds, in UTC and an hour ahead; 2 threads that resolve | a range is true from the start of what its first half names to the end of what its second half names (`TurnsAtItsEnds`); `ResolvedRecently` |
| `desktop` | 2 schemas with a child, listed by a `gsettings` that descends or not, one change, one failed program, KDE and NetworkManager with and without a proxy | once nothing has changed for the lag, a read answers what the settings say (`SettledIsRight`) |
| `resolvers` | 3 threads with 2 operations each on one map of each kind; macOS lookups with up to two PACs among the entries | `UsesLiveHandles`, `NothingLeaks`, `WholeOrNoOpinion`, `EveryLookupReturns` |
| `auto_proxy` | 5 environments, 27 OS settings, 8 sets of options, 10 URLs, 7 bypass lists; environment and settings change once the making has begun | `EnvironmentAlone`, `SettingsDecide`, `BypassedGoDirect`, `AnswersEveryUrl` |

Violation run, a promise of a comment that the code does not keep; `findings`
quotes the line:

| Run | Property | Counterexample |
|---|---|---|
| `sources_shared` | `NoDeadMapKept` | WPAD's cache hands one live map to several sources; closing one ends it for all |

Further counterexamples, with the same modules and cfgs of their own that are not
part of the runs:

| Cfg | Property | Counterexample |
|---|---|---|
| `PacScriptUsable.cfg` | `StaysUsable` | a restart publishes the new runner before it clears `_failed`; an overrun of the new helper in between has its mark cleared, and the script stays dead |
| `PacScriptInterrupt.cfg` | `OwnAnswer` | an exception other than the timeout during the wait leaves a request in flight; later calls read each other's replies |
| `PacScriptCooldown.cfg` | `CooldownHonoured` | a thread between the assignments of `_failed` and `_retry_at` sees the mark with the old deadline and starts a helper at once |
| `PacScriptClose.cfg` | `CloseReleases` | a restart under way publishes a helper after `close()` |
| `RequestsReusedDict.cfg` | `EnvironmentNeverWins` | requests writes the environment's proxies into the caller's dict; used again, they are the caller's own |
| `RequestsNestedSend.cfg` | `UntrustingIgnoresMap` | a hook that calls another session's `send` runs under the outer request's `_CALLER` |
| `FailoverClaims.cfg` | `RequestsSendsOnce` | a connection through a proxy that breaks after the request was written is a `ProxyError` under pip's urllib3 1.26, and is taken for unsent |
| | `AiohttpSendsOnce` | aiohttp cannot connect to the target of a redirect it follows inside the call; the whole request is sent again |
| | `SkippedForTtl` | a prober reads the clock before its checks and marks from that reading |
| | `MarkedForTtl` | a shorter mark overwrites a longer one |
| `ProxySourcesRetry.cfg` | `RetriesReachTheServer` | a retry after 30 s meets `discover`'s failure cached for 300 s |
| `PatchingFrames.cfg` | `InstalledWhenRegistered` | a registration finds the mark of a patch that has yet to add the hook, and returns with nothing installed |
| | `FailedPatchIsOver` | an import that raises leaves the frame of a `patch()` that never returned |
| | `ClientsChooseThemselves` | an httpx client made under a patch with no default |
| `PatchingReplaced.cfg` | `RegisteredIsInstalled`, `UninstallRemovesAll` | a replaced registration |
| `PatchingImportRace.cfg` | `CoveredClientsFollow` | a patch that looks at a client another thread is importing |
| `ResolversClose.cfg` | `UsesLiveHandles` | `close()` of a `_LazyPacMap`, of a `WinHTTPProxyMap`, or of an httpx transport while a lookup or a send of another thread is between taking the handle and using it |

TLC stops at the first of several: to see each, keep one property in the cfg, or one
of the `Kinds` of `ResolversClose.cfg`.

What the models show besides, that a reader of the code may not expect:

* A URL without a host raises `ProxyParseError` from a map made of variables,
  though `system/__init__.py:87` says of `auto_proxy`'s map "It answers every URL".
  A variable that holds a PAC raises when the PAC fails, where the settings' PAC has no opinion;
  and that no JavaScript engine is installed is an error, not "no opinion", in both.
* A base listing of `gsettings` that failed while its children's listings were read is
  kept as an entry with the children's values alone, and lacks `mode` until it
  expires; each child listed afterwards gives it another lifetime. `Lag` in
  `DesktopSettings` says how long that can last.
* `WinHTTPProxyMap` falls back on the manual settings of the moment, the link behind
  it has those of the making: after a change the two differ.
* A request may be sent twice. requests.py:280-281 says "A read or write error never fails
  over", but with pip's vendored urllib3 1.26 a connection through a proxy that breaks while the
  answer is awaited is raised as "Cannot connect to proxy", a `ProxyError`, which
  `failed_before_sending` takes for unsent (requests.py:115). README.md:226 of the repository
  says "Failover happens only for errors before the request is sent.", but aiohttp follows redirects
  within the call that `_routed` makes (aiohttp.py:116): a redirect's target that cannot be
  reached sends the whole request again. Nothing else sends a request twice: that is
  `ResentOnlyIfMisled`.
* A client may miss the integration although a patch that returned covers it and no import
  overlaps a patch. `_hook` puts a name in `_hooked` under the lock and adds the hook after it
  (patching.py:242-245); a `register_patcher` of that name on another thread finds the mark and
  returns with nothing installed, and the client is made. patching.py:328-330 promises the
  install "when `module` has been imported and the target is wanted". `CoveredClientsFollow`
  exempts the clients made while a patch that marked the target has not installed it;
  `InstalledWhenRegistered` does not, and fails.

### Bounds, and why they are enough

* `PacScript`: `MaxCalls = 3` with 2 threads allows an overrun, the call that
  restarts and one more that races it; helpers are at most one per call and
  the first. `MaxTime = 2` and `Cooldown = 2` reach both sides of the deadline.
  The liveness run keeps all failures and drops the second URL, which no step's guard reads.
* `Failover`: two sends overlap or follow each other, so a mark can be learnt from.
  A sender marks for 2, a prober for 1, and `MaxTime = 2`: either mark overwrites the other, and
  both expire. The answers are `<<a, c>>`, `<<b, n, Direct>>` and `<<Direct, c>>`, where `b` shares
  the breaker key of `a` and `n` has no port: a mark by one is learnt by the other.
  The constraint `FewAtOnce` lets a prober run beside one sender, or the three senders beside
  each other, not all four at once; the theorems have no such bound.
* `ProxySources`: three operations are a load, one that races it and one after;
  each load makes at most one map per source. The lifetimes of 30 s and 300 s are one
  tick each in `sources`, so both expire at once there; `ProxySourcesRetry.cfg`
  and `sources_shared` tell them apart.
* `CachedMap`, `RoundRobin`: one more URL than the cache holds, one more answer
  than the position table holds, four lookups.
* `RequestsRouting`: two calls are enough for one to find what the other left, three
  for a nested one between them; the dicts have an entry under each kind of key that
  `select_proxy` reads and one under a key it does not.
* `PacFunctions`: a calendar where every field has at least two values and the clock
  runs through all of it, so each range begins, ends and wraps; the shape of the functions
  does not depend on a field's size. For the cache, a lifetime of 2, a resolution of up
  to 2 and 5 seconds in which an entry is made, used and expires.
* `DesktopSettings`: one child is enough for a merge to restamp the parent's entry,
  two schemas for the second to answer; 7 units of time pass the longest lag (two
  lifetimes of 2 with a run of 1 each) after a change made at the start.
* `Resolvers`: three threads let a close come between two lookups, and two closes race;
  five handles are never all in use, so the bound is never what keeps a handle from being made.
* `AutoProxy`: the sets hold one case of each kind, so that every branch of the reading
  is taken: both spellings of a variable, the one that wins first, an empty value, CGI, a PAC in a variable; each kind
  of rule, with a name that is listed, one below it, and one that merely ends in the same letters.
* `Patching`: two patches overlap in both orders; one client object made at
  any point between them. An import runs by itself (`ImportsOverlap = FALSE`) in
  the passing run; `PatchingImportRace.cfg` lifts that. No registration is replaced there
  (`MaxVersion = 1`); `PatchingReplaced.cfg` replaces one, and the theorem on
  `CoveredClientsFollow` holds for any number of versions.

Deadlock checking is off in every run: with the bounds used up the program has
nothing left to do, which is no deadlock. That nobody waits for ever is what the three liveness
properties say. `SYMMETRY` permutes threads and URLs, in runs with no liveness property only.

### Fairness

`FairSpec` of `PacScript` and `ProxySources` assumes weak fairness of
`Advance(t)` for each thread: a thread that can take its next step does. The code
justifies it: threads are scheduled, `queue.get` has a timeout (script.py:106),
and probes and downloads have timeouts. Nothing is assumed of the helper, the
reader, the clock or the servers: the timeout's step is enabled whenever the wait is.

`FairSpec` of `Resolvers` assumes the same of each thread and of a macOS lookup under way:
a call into a library returns (WinHTTP's session has its timeouts set, \_nt.py:239; of
libproxy the code takes it on trust), and `CFRunLoopRunInMode` returns after its slice
(\_darwin.py:293). That a PAC's
callback comes is not assumed. In the `resolvers` run `ClosesAnytime` is `{"libproxy"}`: the other
kinds are closed while nobody looks up, since with a close at any time
`UsesLiveHandles` fails for each of them, as `ResolversClose.cfg` shows.

Weak fairness
on a thread is not fairness on a lock; calls are finite in number, so no thread
is overtaken for ever.

## 4. The proofs

The theorems hold for every set of threads, senders, URLs, maps, clients and handles, of any
size, every bound and lifetime, and every choice the modules leave to the environment.
They use each module's named assumptions (`...Assumption`), which only say what kind of
value a constant has, that a lifetime is positive, that a marker such as "no owner" is no
thread, and in `Patching` that there is a client. Those of `AutoProxy` and `BypassRules` say
what environments, settings, options, URLs and entries of lists are; an entry of a list is
one that `_parse_entry` can be given as the model has it (`Entries`): a name is not empty and
has one leading dot at most (the code strips two, the labels would keep one), the text of an
address has no star, a network's prefix takes whole numbers of 8 bits, or 16 in IPv6. Those of
`DesktopSettings` say what settings are, and that a NetworkManager connection's method is
"auto", or "none" without a PAC, as NetworkManager itself has it. That of `PacFunctions`
(`CallsAssumption`) says that a PAC calls in the forms the docstrings give: a date names a day,
month or year, or a day of a month, a month of a year or all three, alike at both ends,
with a day, month or time that the calendar has, or a month name that is not one; a count of numbers
that `timeRange` does not know may hold anything. The calendar is a model's: its months have one
length, its years one number of months, and local time is a fixed number of hours ahead of UTC.
Five sets of theorems need a hypothesis of their own; a cfg shows each of these is needed:

| Hypothesis | Of | Without it |
|---|---|---|
| `MayInterrupt = FALSE` | `AnswersAreOwn`, `KeepsItsPromise` | `PacScriptInterrupt.cfg` |
| `OnlyLibproxyClosesAnytime` | `HandleInvariant`, `CallsUseLiveHandles`, `NoHandleLeaks` | `ResolversClose.cfg` |
| `HooksOnlyRequest` (a hook calls no `send` of a session) | `RoutingInvariant`, `CallersProxyDecides`, `MapGoesFirst`, `UntrustingLeftAlone` | `RequestsNestedSend.cfg` |
| `NothingReplaced` (one registration for a client, or no `_uninstall`) | `OnceInstalled` | `PatchingReplaced.cfg` |
| `ImportsWait` (an import runs while nobody else patches) | `CoveredFollow` | `PatchingImportRace.cfg` |

| Module | Theorem | Says |
|---|---|---|
| `PacScriptProofs` | `TypeInvariant` | `Spec => []TypeOK` |
| | `ControlInvariant` | `Spec => []Control`, the strengthening of the next three |
| | `OneHelperAlive`, `CallsSerialised`, `FailedScriptIsEnded` | `OneHelper`, `OneCaller`, `FailedIsEnded` always hold |
| | `CooldownIsKept` | `Spec => CooldownOutsideTheGap` |
| | `AnswersAreOwn` | `Spec => []OwnAnswer` |
| | `KeepsItsPromise` | `Spec => ServiceSpec`: the script implements `PacService` |
| | `DnsIsFresh`, `RangesTurnAtTheirEnds` | `FunctionsSpec => []ResolvedRecently`, `FunctionsSpec => TurnsAtItsEnds`, of `PacFunctions` |
| `FailoverProofs` | `OrderKeepsAll` | `order_by_health` loses and repeats no entry of an answer |
| | `FailoverInvariant` | `Spec => []IInv` |
| | `FailoverTypes`, `ResentOnlyWhenMisled`, `UnsentTriedAll`, `BansAlwaysExpire`, `PassesOnlyBad` | `TypeOK`, `ResentOnlyIfMisled`, `AllTried`, `BansExpire`, `OnlyBadArePassed` always hold |
| | `MarksAreLearned` | `Spec => LearnsFromOthers` |
| `RoundRobinProofs` | `CacheInvariant`, `RotationInvariant` | `CacheInv`, `RotationInv` always hold |
| | `RotationRefinesCache` | `RoundRobinSpec => Spec`: what the rotation does to the cache, the cache's own specification allows |
| | `CacheNeverStale`, `CacheKeepsMostRecent`, `RotationBalanced` | `NeverStale`, `KeepsMostRecent`, `Balanced` always hold |
| `ProxySourcesProofs` | `SourcesInvariant` | `Spec => []SourcesInv` |
| | `SourcesTypes`, `NoHelperOrphaned`, `UpSourcesAreUsed` | `TypeOK`, `NoOrphan`, `UpMeansUsed` always hold |
| `RequestsRoutingProofs` | `RoutingTypes`, `RoutingInvariant` | `TypeOK` (with nested sends, too), `RoutingInv` always hold |
| | `CallersProxyDecides`, `MapGoesFirst`, `UntrustingLeftAlone` | `CallersProxyWins`, `MapBeatsEnvironment`, `UntrustingIgnoresMap` always hold |
| `ResolversProofs` | `MacInvariant`, `HandleInvariant` | `MacInv`, `HandleInv` always hold |
| | `MacAnswersWhole`, `CallsUseLiveHandles`, `NoHandleLeaks` | `WholeOrNoOpinion`, `UsesLiveHandles`, `NothingLeaks` always hold |
| | `DesktopReadsRight` | `DesktopSpec => []SettledIsRight`, of `DesktopSettings` |
| `PatchingProofs` | `PatchingInvariant`, `PatchingTypes` | `PatchingInv`, `TypeOK` always hold |
| | `UndoneIsRestored` | `Spec => UndoRestores` |
| | `OnceInstalled`, `CoveredFollow` | `InstalledOnce`, `CoveredClientsFollow` always hold |
| `AutoProxyProofs` | `ListsMeanWhatTheySay` | the rules of a bypass list do to every URL what the list says |
| | `AutoProxyInvariant` | `Spec => []Inv` |
| | `AnswersAll`, `EnvironmentDecides`, `SettingsDecideInTurn`, `BypassedFirst` | `AnswersEveryUrl`, `EnvironmentAlone`, `SettingsDecide`, `BypassedGoDirect` always hold |

`PacScriptProofs` and `ResolversProofs` each extend two modules, so no two of theirs share a
name. None of the properties is inductive. Each proof has one step per action, and one below
per conjunct that the action can disturb; the invariants, and why they are needed:

* **PAC script.** That one helper is alive rests on the restart lock: a thread past it is
  its owner, the script is then marked failed, the published helper is dead until the
  restart publishes the next, and no thread's local `runner` is a live helper other than
  the published one. `Control` is that conjunction (`RestartInv`, `AliveInv`,
  `CallerInv`). `OwnAnswer` needs more, since replies carry no identity: for each live
  helper, exactly one message is on its way if somebody waits for it and none otherwise
  (`CountInv`), helpers are born in order with empty pipes (`BornInv`), and what is on its
  way to a waiting caller is about the caller's URL (`OwnInv`). An interrupt breaks
  exactly this. For the cool-down, `CoolInv` says that the deadline of the last overrun
  is set or a thread is on its way to set it. The refinement maps a thread to what its
  caller sees of it (`Promise`, `Shown`): a call is "running" from the write to the pipe
  to the reply, and its outcome is about the URL it asked for (`ResultInv`).
* **Failover.** `order_by_health` is a function on the length of the answer;
  `SplitUnfolds` gives the equation of its steps and `SplitSorts` counts, for every entry,
  its occurrences in the two halves. `IInv` then says of a request under way where it is
  in its candidates and that they are the whole answer (`Trying`); of a prober, that what
  it has left is the tail of its answer and all before it was passed for cause
  (`Scanning`), a prober's clock reading being older than the breaker's (`BansExpire`);
  of the breaker, that whoever is in it was found bad (`BannedWereBad`) and that with one
  ttl no mark is shortened but by a prober (`PromisesKept`). `ResentOnlyIfMisled` counts: a
  request still connecting was delivered no more often than it was misreported, since the
  loop comes back to connecting only by an error it takes for unsent, and what a library
  raises after sending is none of those unless it is counted (`ToldApart`, library by library).
* **Cache and rotation.** `CacheInv`: the entries are the end of the sequence of URLs in
  order of use, each once (`InOrderOfUse`), each dated no later than the inner map's
  answer (`Dated`). `RotationInv` adds that a kept answer's places before its position
  have led exactly once more than the others (`Turn`), and an answer not kept begins anew.
* **Sources.** `SourcesInv`: a link's lock is held by the thread that loads it, and that
  link has no map (`LockedToLoad`), so a store overwrites none; while all servers are up
  and nothing was closed, every map that was made runs and no failure is recorded anywhere
  (`AllIsWell`), whoever made it.
* **requests.** `RoutingInv`: `_CALLER` is what the innermost call recorded and each call
  restores what the one around it did (`CallersRecorded`), and what reaches the adapter
  is the caller's and the session's, less some entries, plus the environment's where it is
  trusted (`FromOwn`). With both, the route chosen is right (`RouteRight`).
* **Resolvers.** `MacInv`: at each step a macOS lookup owns exactly the objects its place
  says (`OwnsWhatItHolds`), and its results are those of the entries before its place.
  `HandleInv`: a call's handle is the one the map keeps (`UsesTheSlot`), which is alive
  (`SlotIsAlive`), a close owns what it took (`ClosesItsOwn`), and every live handle is the
  map's or a close's (`NoneIsLost`).
* **Patching.** `PatchingInv`: what each thread may have in hand at each step, and frames
  in the order of their patches. `UndoRestores` needs that a frame remembers what was
  active under it (`BeforeKnown`), whatever frames above or below it went since.
  `CoveredClientsFollow` needs `ServedInv`: for each imported client that a frame or the
  settings ask for, it is installed, or a registration or the frame's own patch is about
  to install it; an import is one thread's, and its hooks run before it is done.
* **auto_proxy.** `Inv` says that the map's links are those of the sources chosen when it
  was made (`MapInv`), and of a lookup that it has asked the first of them in order, each of
  which passed, and that each said what its own state lets it say (`LookupInv`, `Reported`).
  What the properties say besides is about data, in lemmas without the state. *Environment*:
  after n of the two passes' turns the mapping holds, for each key, the value of the latest
  turn that counts (`ReadEnvSays`), which is the last variable in lower case or else the last
  (`LatestIsValue`). *Server lists*: a scheme has the last entry of its own, else the first
  entry for every scheme (`ParseProxyListSays`). *Bypass lists* (`ListsMeanWhatTheySay`):
  the code compares text, the meaning compares labels. `SuffixIsByLabel` takes a domain and a
  host apart from their ends, a character at a time, on which labels and texts end alike;
  `LabelsOfPrefixed` does so at the front, for `*.` and a leading dot; `GlobFits` shows that
  a glob matches when there is a way through pattern and text (`Way`), and reads from a way
  where each star ends, and back.
* **DNS.** `DnsInv`: what a thread has resolved was read after it began, an entry was stored
  no more than one resolution after it was read, and no resolution takes longer; so an entry
  that is used is young enough whoever stored it.
* **PAC clock.** `TurnsAtItsEnds` needs no strengthening but much arithmetic. `MomentsFollow`:
  one second later the calendar shows the next moment, each field carrying into the one before
  it. `UpTo3` and `UpTo6` turn the comparison of sequences into one of fields, and `DatesWithin`
  drops the fields that a date does not name, since its ends are whole days, months or years.
  What is left are one to three fields of the next moment: the next in their order, or the
  lowest after the highest (`NextInOrder`), and such a step enters a range only at its start
  and leaves it only after its end, whether the range wraps or not (`Turns`).
* **Desktops.** `DesktopInv`. Of each cached listing, `Merges` counts the children merged
  into it, each of which may have added `Term`, a lifetime and a run, to the age its stamp
  shows; `Sound` says that a listing stamped that long after the last disturbance tells what
  the settings say. The same holds for the parent's listing that waits for a child's
  (`ParentInv`) and for the program that runs (`RunInv`). When no program fails, listings
  hold the children and schemas stay installed, nothing is ever merged (`WholeInv`), so the
  short lag is enough. There are no more merges than children (`Counts`), so the lag
  outlasts them all (`LagOutlasts`): once it is over every key that is read is right
  (`HaveInv`), and with them what the reader has found so far (`ReaderInv`).

Induction over data is not available to the prover as such. Where a property speaks of a
recursive function (`order_by_health`, the results of a macOS reply), the proof
first shows that a function with the recursion's equations exists, then argues along it;
where an induction would be made it takes the least number for which a statement fails
(`Induction`, from the library's theorem on well-founded relations, over a set of
naturals instead of a predicate). `AutoProxyProofs` has two more such tools: `Recursion`, a
recursion over 0 .. N whose step is a function has a solution; and `ByAppending`, a set of
sequences that has the empty one and every sequence one element longer than its own has them
all.

What the proofs found out about the models, where the runs had been silent: the guards of
two CASEs over entries overlapped (a text with a star is not the rule of its address), which
TLC resolves in order and the language does not, so they are IF chains as in the code; the prefix
of an IPv6 network was counted in numbers of 8 bits; the meaning of a proxy list named protocols
that `parse_proxy_list` ignores; and the short `Lag` of the desktops' settings was too short
when a schema that was found not installed is installed while it is read: its children are
then merged into the empty listing (`Installed`).

Only model-checked:

* `EveryCallReturns`, `EveryOpReturns`, `EveryLookupReturns`: liveness under fairness is
  outside what the prover does.
* `NoDeadMapKept`, which the code violates.

## 5. Not modelled

* In-process engines, pickling of host functions, the memory limit of a helper;
  reading a PAC from a file or inline. The settings' third source, an inline
  script, is a PAC whose server is always up. The bindings of the engines.
* Text: parsing of proxy URLs, PAC results, proxy lists, bypass entries and PAC globs
  (`shExpMatch`, `isInNet`); the models take the parsed form. An entry of a macOS reply may
  be one that does not parse; a proxy variable may not. In the code such a variable makes
  `auto_proxy()` itself raise `ProxyParseError` (env.py:67-69), so there is no map, and the
  properties of `AutoProxy` speak of maps that were made. The candidate names of WPAD.
* That Windows folds the case of variable names, which makes the two spellings
  one; `EnvProxyConfig`'s `proxies=` and `no_proxy=` arguments; `on_missing_engine="direct"`.
* requests' treatment of `None` in a proxies dict, and `session.proxies` that is no dict.
* Address resolution and the cache registry of `_net.py`.
* Headers, tunnels and TLS of the integrations, aiohttp's connector: data, and the clients'
  own code. Of redirects, only that aiohttp follows them inside the call that fails over. The filtering wrappers and `ProxyDict`'s own lookups are stateless.
* Reading registry, plist, `kioslaverc`, `nmcli` and D-Bus: I/O. What they hold is
  chosen from the settings of the instance.
* That an import hook and an install may wait for each other's lock: which imports
  nest is decided by the clients and the program.
* Package surface and exceptions: no state.

`PROJECT.json` says for each component what is left.

## 6. Plan

Done, in the order of importance: the PAC script with its theorems, failover,
sources, wrappers, patching, the precedence in requests, the lives of resolvers'
handles, the precedence in `auto_proxy` with the environment, settings and bypass
lists, the desktops' settings, the PAC's clock and DNS functions.

Proved: the safety of all of these.

Next: WPAD's candidate names, aiohttp's connector, `ProxyDict`'s own lookups; in `PacFunctions`,
months of different lengths.
