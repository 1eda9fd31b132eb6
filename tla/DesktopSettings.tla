-------------------------- MODULE DesktopSettings ---------------------------
(***************************************************************************)
(* The proxy settings of a POSIX desktop: GNOME, MATE, KDE and             *)
(* NetworkManager are read in turn, the first with a proxy configured      *)
(* wins, and when none has one the first that has settings answers.  GNOME *)
(* and MATE settings are listed with the gsettings program, whose listings *)
(* are cached; some versions of it leave the child schemas out of their    *)
(* parent's listing, and these are then listed on their own and merged     *)
(* into the parent's cache entry.                                          *)
(***************************************************************************)
EXTENDS Integers, Sequences, SequencesExt

CONSTANTS
  Schemas,     \* the schemas read, in order ("gnome", "mate")
  Children,    \* the child schemas, in order (http, https, ftp, socks)
  InitialSettings, LaterSettings,  \* of a schema: [mode, url, host]
  Elsewhere,   \* what KDE and NetworkManager hold: [kde, nm]
  TTL,         \* _CACHE_TTL
  RunTime,     \* the timeout of _run.run
  MaxChanges, MaxFailures, MaxTime  \* bounds

ASSUME TimeAssumption ==
  TTL \in Nat \ {0} /\ {RunTime, MaxChanges, MaxFailures, MaxTime} \subseteq Nat

ASSUME SettingsAssumption ==
  /\ Schemas \in Seq(STRING) /\ Schemas # <<>> /\ Children \in Seq(STRING \ {"base"})
  /\ \A s \in InitialSettings \cup LaterSettings :
       s \in [mode : STRING, url : BOOLEAN, host : [Range(Children) -> BOOLEAN]]

\* A connection's method is none or auto, and only auto has a PAC.
ASSUME ConnectionsAssumption ==
  \A e \in Elsewhere :
    /\ e.nm.nmcli \in BOOLEAN /\ e.nm.connections \in Seq(Range(e.nm.connections))
    /\ \A c \in Range(e.nm.connections) :
         c.method = "auto" \/ (c.method = "none" /\ c.url = FALSE /\ c.script = FALSE)

VARIABLES
  now, changes, failures,
  disturbed,   \* when a setting last changed or a run last failed
  settings,    \* [Schemas -> settings]
  deep,        \* does a listing include the child schemas?
  kde, nm,
  cache,       \* _recursive_cache: a set of [of, stamp, values]
  dpc, at,     \* the reader's place: [schema, key] is being read
  out,         \* what the program under way has read
  values,      \* the listing that answers the key
  found,       \* has a proxy's host been found?
  first,       \* the first configuration that is not "configured"
  began, desktopResult

gathered == <<found, first, began, desktopResult>>
reader == <<dpc, at, out, values, gathered>>
world == <<now, changes, failures, disturbed, settings, deep, kde, nm>>
desktopVars == <<world, cache, reader>>

NoConfig == [source |-> "none", state |-> "unset", detect |-> FALSE]
Config(s, st, d) == [source |-> s, state |-> st, detect |-> d]

------------------------------------------------------------------------------
\* KDE and NetworkManager: read whole on each call, nothing cached.

KdeConfig ==
  CASE kde.type = "none" -> Config("kde", "direct", FALSE)
    [] kde.type = "auto" -> Config("kde", "configured", TRUE)
    [] kde.type = "pac" /\ kde.script -> Config("kde", "configured", FALSE)
    [] kde.type = "manual" ->
         Config("kde", IF kde.proxies THEN "configured" ELSE "direct", FALSE)
    [] OTHER -> NoConfig   \* no file, a PAC without its URL, the environment

\* The first of the places of a sequence, or what there is when they are none.
FirstOf(seq, places, none) == IF places = {} THEN none ELSE seq[Min(places)]

NoConnection == [method |-> "none", url |-> FALSE, script |-> FALSE]

\* nmcli: the first active connection with a method, else the first.
ViaNmcli ==
  LET cs == nm.connections
  IN FirstOf(cs, {i \in 1 .. Len(cs) : cs[i].method # "none"}, cs[1])

\* dbus-send: the first active connection whose proxy group has values.
ViaDbus ==
  LET cs == nm.connections
  IN FirstOf(cs, {i \in 1 .. Len(cs) : cs[i].method # "none" \/ cs[i].url \/ cs[i].script},
             NoConnection)

NmConfig ==
  LET c == IF nm.nmcli /\ nm.connections # <<>> THEN ViaNmcli ELSE ViaDbus
  IN IF c.method # "auto" THEN NoConfig
     ELSE Config("networkmanager", "configured", ~c.url /\ ~c.script)

------------------------------------------------------------------------------
\* gsettings.  A listing is a partial function from the keys it holds to
\* their values: "base" for the schema's own keys, a child for its keys; that
\* of a schema which is not installed is empty.

ListedKeys == {"base"} \cup Range(Children)
Listing(s, k) ==
  [x \in (IF settings[s].mode = "missing" THEN {}
          ELSE IF k = "base" /\ deep THEN ListedKeys ELSE {k}) |->
     IF x = "base" THEN [mode |-> settings[s].mode, url |-> settings[s].url]
                   ELSE settings[s].host[x]]

NoKeys == [x \in {} |-> {}]
NoOutput == [listing |-> NoKeys, began |-> 0]
Nowhere == [schema |-> 0, key |-> 0]

Stored(s, k) == {e \in cache : e.of = <<s, k>>}
Put(c, s, k, listing) ==
  {e \in c : e.of # <<s, k>>} \cup {[of |-> <<s, k>>, stamp |-> now, values |-> listing]}

\* The schema being read, the child a key belongs to, and the listing wanted.
Schema == Schemas[at.schema]
Owner == IF at.key \in 1 .. Len(Children) THEN Children[at.key] ELSE "base"
Wanted == IF dpc \in {"base", "runBase"} THEN "base" ELSE Owner

\* Mutant: what is cached stays.
FreshForever == Stored(Schema, Wanted)

Fresh == {e \in Stored(Schema, Wanted) : now - e.stamp < TTL}

\* {**old, **new}
Over(new, old) ==
  [x \in DOMAIN new \cup DOMAIN old |-> IF x \in DOMAIN new THEN new[x] ELSE old[x]]

\* _gsettings_get goes on with a listing, now in the cache c: a child's is
\* merged into its parent's entry, which is stamped anew.
Take(listing, c) ==
  /\ values' = Over(listing, IF Wanted = "base" THEN NoKeys ELSE values)
  /\ cache' = IF Wanted # "base" /\ listing # NoKeys THEN Put(c, Schema, "base", values') ELSE c
  /\ dpc' = IF Wanted = "base" /\ Owner # "base" /\ Owner \notin DOMAIN values'
               THEN "child" ELSE "have"

UseCache ==
  /\ dpc \in {"base", "child"}
  /\ \E e \in Fresh : Take(e.values, cache)
  /\ UNCHANGED <<world, at, out, gathered>>

RunGsettings ==
  /\ dpc \in {"base", "child"} /\ Fresh = {}
  /\ dpc' = IF dpc = "base" THEN "runBase" ELSE "runChild"
  /\ out' = [listing |-> Listing(Schema, Wanted), began |-> now]
  /\ UNCHANGED <<world, cache, at, values, gathered>>

\* The program ends, or fails or is stopped: an empty listing is cached too.
RunEnds(ok) ==
  /\ dpc \in {"runBase", "runChild"}
  /\ LET listing == IF ok THEN out.listing ELSE NoKeys
     IN Take(listing, Put(cache, Schema, Wanted, listing))
  /\ out' = NoOutput
  /\ IF ok THEN UNCHANGED <<failures, disturbed>>
           ELSE failures < MaxFailures /\ failures' = failures + 1 /\ disturbed' = now
  /\ UNCHANGED <<now, changes, settings, deep, kde, nm, at, gathered>>

------------------------------------------------------------------------------
\* read_config of the desktops.

Start ==
  /\ dpc = "idle"
  /\ dpc' = "base" /\ at' = [schema |-> 1, key |-> 0]
  /\ began' = now
  /\ UNCHANGED <<world, cache, out, values, found, first, desktopResult>>

\* Mutant: the first desktop with settings answers.
ChosenFirst(cs) == FirstOf(cs, {i \in 1 .. Len(cs) : cs[i].state # "unset"}, NoConfig)

\* The first configured of the configurations; else the first there is.
Chosen(cs) ==
  FirstOf(cs, {i \in 1 .. Len(cs) : cs[i].state = "configured"},
          FirstOf(cs, {i \in 1 .. Len(cs) : cs[i].state = "direct"}, NoConfig))

\* One desktop's configuration is known: it answers, or the next is read.
Conclude(config) ==
  /\ found' = FALSE
  /\ IF config.state # "configured" /\ at.schema < Len(Schemas)
       THEN /\ first' = Chosen(<<first, config>>)
            /\ at' = [schema |-> at.schema + 1, key |-> 0] /\ dpc' = "base"
            /\ UNCHANGED desktopResult
       ELSE /\ desktopResult' = Chosen(<<first, config, KdeConfig, NmConfig>>)
            /\ dpc' = "returned"
            /\ UNCHANGED <<at, first>>

Has(key) == key \in DOMAIN values

ReadMode ==
  /\ dpc = "have" /\ at.key = 0
  /\ LET mode == IF Has("base") THEN values["base"].mode ELSE "missing"
     IN CASE mode = "none" -> Conclude(Config(Schema, "direct", FALSE))
          [] mode = "auto" -> /\ at' = [at EXCEPT !.key = -1] /\ dpc' = "base"
                              /\ UNCHANGED <<found, first, desktopResult>>
          [] mode = "manual" -> /\ at' = [at EXCEPT !.key = 1] /\ dpc' = "base"
                                /\ UNCHANGED <<found, first, desktopResult>>
          [] OTHER -> Conclude(NoConfig)
  /\ values' = NoKeys
  /\ UNCHANGED <<world, cache, out, began>>

ReadUrl ==
  /\ dpc = "have" /\ at.key = -1
  /\ Conclude(Config(Schema, "configured", ~(Has("base") /\ values["base"].url)))
  /\ values' = NoKeys
  /\ UNCHANGED <<world, cache, out, began>>

\* A child's host and port; after the last, the hosts to ignore, a key of the
\* schema itself.
ReadHost ==
  /\ dpc = "have" /\ at.key \in 1 .. Len(Children)
  /\ found' = (found \/ (Has(Owner) /\ values[Owner]))
  /\ at' = [at EXCEPT !.key = @ + 1] /\ dpc' = "base"
  /\ values' = NoKeys
  /\ UNCHANGED <<world, cache, out, first, began, desktopResult>>

ReadIgnoreHosts ==
  /\ dpc = "have" /\ at.key = Len(Children) + 1
  /\ Conclude(Config(Schema, IF found THEN "configured" ELSE "direct", FALSE))
  /\ values' = NoKeys
  /\ UNCHANGED <<world, cache, out, began>>

EndRead ==
  /\ dpc = "returned"
  /\ dpc' = "idle" /\ at' = Nowhere /\ began' = 0
  /\ first' = NoConfig /\ desktopResult' = NoConfig
  /\ UNCHANGED <<world, cache, out, values, found>>

------------------------------------------------------------------------------
\* The world.

ClearGsettingsCache ==
  /\ cache # {} /\ cache' = {}
  /\ UNCHANGED <<world, reader>>

SettingsChange ==
  /\ changes < MaxChanges
  /\ \E s \in Range(Schemas) : \E new \in LaterSettings \ {settings[s]} :
       settings' = [settings EXCEPT ![s] = new]
  /\ changes' = changes + 1 /\ disturbed' = now
  /\ UNCHANGED <<now, failures, deep, kde, nm, cache, reader>>

\* Time passes between reads and while the program runs.
Tick ==
  /\ now < MaxTime
  /\ \/ dpc = "idle"
     \/ dpc \in {"runBase", "runChild"} /\ now - out.began < RunTime
  /\ now' = now + 1
  /\ UNCHANGED <<changes, failures, disturbed, settings, deep, kde, nm, cache, reader>>

DesktopInit ==
  /\ now = 0 /\ changes = 0 /\ failures = 0 /\ disturbed = 0
  /\ settings \in [Range(Schemas) -> InitialSettings]
  /\ deep \in BOOLEAN
  /\ \E e \in Elsewhere : kde = e.kde /\ nm = e.nm
  /\ cache = {}
  /\ dpc = "idle" /\ at = Nowhere /\ out = NoOutput /\ values = NoKeys
  /\ found = FALSE /\ first = NoConfig /\ began = 0 /\ desktopResult = NoConfig

DesktopNext ==
  \/ Start \/ UseCache \/ RunGsettings \/ \E ok \in BOOLEAN : RunEnds(ok)
  \/ ReadMode \/ ReadUrl \/ ReadHost \/ ReadIgnoreHosts \/ EndRead
  \/ ClearGsettingsCache \/ SettingsChange \/ Tick

DesktopSpec == DesktopInit /\ [][DesktopNext]_desktopVars

------------------------------------------------------------------------------

\* What the settings in force say, desktop by desktop.
GConfig(s) ==
  LET g == settings[s]
  IN CASE g.mode = "none" -> Config(s, "direct", FALSE)
       [] g.mode = "auto" -> Config(s, "configured", ~g.url)
       [] g.mode = "manual" ->
            Config(s, IF \E c \in Range(Children) : g.host[c] THEN "configured" ELSE "direct",
                   FALSE)
       [] OTHER -> NoConfig

Configs == [i \in DOMAIN Schemas |-> GConfig(Schemas[i])] \o <<KdeConfig>>

Expected ==
  LET autos == {c \in Range(nm.connections) : c.method = "auto"}
      configured == {i \in DOMAIN Configs : Configs[i].state = "configured"}
      known == {i \in DOMAIN Configs : Configs[i].state # "unset"}
  IN IF configured # {} THEN {Configs[Min(configured)]}
     ELSE IF autos # {}
       THEN {Config("networkmanager", "configured", ~c.url /\ ~c.script) : c \in autos}
     ELSE IF known # {} THEN {Configs[Min(known)]} ELSE {NoConfig}

\* No schema is uninstalled while its settings are read.
Installed == \A s \in LaterSettings : s.mode # "missing"

\* How long an answer may lag: a lifetime and the run that filled the cache,
\* when listings hold the child schemas and none is ever without them.
\* Otherwise every child merged into the parent's entry may give it another
\* lifetime.
Lag == IF deep /\ failures = 0 /\ Installed THEN TTL + RunTime
                                          ELSE (Len(Children) + 1) * (TTL + RunTime)

\* A read that begins once nothing has changed and no program has failed for
\* the lag gives the configuration the settings in force describe: the first
\* desktop with a proxy, even behind one whose settings say "none", else the
\* first with settings, and a NetworkManager connection with a proxy even
\* behind one without (the comment on _CACHE_TTL, _posix/__init__.py's
\* docstring).  Restamped entries delay it but never for good.
SettledIsRight ==
  dpc = "returned" /\ (changes + failures = 0 \/ began - disturbed >= Lag)
    => desktopResult \in Expected

=============================================================================
