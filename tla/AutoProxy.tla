----------------------------- MODULE AutoProxy ------------------------------
(***************************************************************************)
(* The map auto_proxy() makes, and what it answers while the environment   *)
(* and the OS settings change under it.  The map is a chain of links: a    *)
(* dict of overrides the program may put in front, then either the proxy   *)
(* variables and DIRECT, or the OS resolver, the deferred sources (WPAD, a *)
(* PAC) and the manual settings.  A link that is a chain itself stands as  *)
(* its own links: KeyError passes on all the same.                         *)
(***************************************************************************)
EXTENDS BypassRules

CONSTANTS
  Environs, LaterEnvirons, \* [vars, cgi], vars a sequence of [lower, key, value]
  Settings, LaterSettings, \* of the OS: [read, detect, pac, list, bypass, dialect, reversed]
  Options,     \* [platform, session, engine, system, wpad, noProxy, overrides]
  Urls,
  Proxy,       \* proxies, by name
  PacResults,  \* what a PAC answers: a sequence of entries, or Error
  WinHttpLists \* what WinHTTP's PAC answers: a sequence of [protocol, server]

VARIABLES
  environ, settings, options, url,
  map,       \* [rules, links] of the map made
  made,      \* history: the environment when it was decided whether it
             \* counts, and the environment and settings read for the map
  rest,      \* the links not asked yet
  consulted, \* history: what the links asked have said, in order
  pc, answer

vars == <<environ, settings, options, url, map, made, rest, consulted, pc, answer>>

Direct == <<"DIRECT">>
NoOpinion == <<"KeyError">>
Error == <<"error">>
NoUrl == [scheme |-> "", host |-> NoHost, port |-> 0]

Server == [protocol : STRING, server : Proxy \cup {"bad"}]

ASSUME NamesAssumption == Proxy \cap {"", "pac", "bad", "unknown", "KeyError", "error"} = {}
ASSUME AnswersAssumption ==
  /\ PacResults \subseteq Seq(Proxy \cup {"DIRECT", "unknown"}) \cup {Error}
  /\ WinHttpLists \subseteq Seq(Server)
ASSUME WorldAssumption ==
  /\ \A e \in Environs \cup LaterEnvirons :
       /\ Len(e.vars) \in Nat /\ DOMAIN e.vars = 1 .. Len(e.vars)
       /\ \A i \in 1 .. Len(e.vars) :
            /\ e.vars[i].lower \in BOOLEAN
            /\ e.vars[i].key # "no_proxy" => e.vars[i].value \in Proxy \cup {"", "pac"}
  /\ \A s \in Settings \cup LaterSettings : s.list \in Seq(Server)
  /\ \A o \in Options :
       /\ o.platform \in {"winhttp", "resolver", "bare"}
       /\ \A e \in o.overrides : e.proxy \in Seq(Proxy)
       /\ \A l, k \in o.noProxy : l = k
  /\ \A u \in Urls : u.scheme # "no_proxy"
ASSUME ListsAssumption ==
  /\ \A e \in Environs \cup LaterEnvirons : \A i \in 1 .. Len(e.vars) :
       e.vars[i].key = "no_proxy" => e.vars[i].value \in Seq(Entries)
  /\ \A s \in Settings \cup LaterSettings : s.bypass \in Seq(Entries) /\ s.reversed \in BOOLEAN
  /\ \A o \in Options : o.noProxy \subseteq Seq(Entries)
  /\ \A u \in Urls : u.host.text \in Seq(Chars) /\ u.host.address \in Seq(Nat)

\* A mapping of keys to proxies is a set of [key, proxy], one for each key.
With(proxies, k, p) == {e \in proxies : e.key # k} \cup {[key |-> k, proxy |-> p]}
HasKey(proxies, k) == \E e \in proxies : e.key = k

Fallback(scheme) == CASE scheme = "ws" -> "http" [] scheme = "wss" -> "https" [] OTHER -> scheme

\* What the mapping holds under the first of the keys that it has, if any.
Under(proxies, keys) ==
  {e.proxy : e \in {f \in proxies : \E i \in DOMAIN keys :
     f.key = keys[i] /\ \A j \in 1 .. i - 1 : ~HasKey(proxies, keys[j])}}

\* The sequence s at some of its places.
Picked(s, places) ==
  LET f[n \in 0 .. Len(s)] ==
        IF n = 0 THEN <<>> ELSE IF n \in places THEN Append(f[n - 1], s[n]) ELSE f[n - 1]
  IN f[Len(s)]

------------------------------------------------------------------------------
\* The environment: env.py.  A value is "" or a proxy or "pac", a location.

\* What a variable adds to what those before it said.
Reads(seen, v, cgi) ==
  IF v.key = "no_proxy" THEN [seen EXCEPT !.noProxy = v.value]
  ELSE IF cgi /\ v.key = "http" /\ ~v.lower THEN seen
  ELSE [seen EXCEPT !.proxies = With(@, v.key, v.value)]

NothingSeen == [proxies |-> {}, noProxy |-> <<>>]

\* Mutant: one pass, in the order of the environment.
ReadEnvOnce(env) ==
  LET seen[n \in 0 .. Len(env.vars)] ==
        IF n = 0 THEN NothingSeen ELSE Reads(seen[n - 1], env.vars[n], env.cgi)
  IN seen[Len(env.vars)]

\* Two passes: the upper-case names, then those in lower case.
ReadEnv(env) ==
  LET last == Len(env.vars)
      seen[n \in 0 .. 2 * last] ==
        IF n = 0 THEN NothingSeen
        ELSE LET v == env.vars[IF n <= last THEN n ELSE n - last]
             IN IF v.lower = (n > last) THEN Reads(seen[n - 1], v, env.cgi) ELSE seen[n - 1]
  IN seen[2 * last]

Configured(proxies) == {e \in proxies : e.proxy # ""}

HasProxyVariable(env) == Configured(ReadEnv(env).proxies) # {}

EnvLink(env) ==
  LET seen == ReadEnv(env)
  IN [kind |-> "env", proxies |-> Configured(seen.proxies),
      rules |-> Parse(seen.noProxy, "no_proxy", FALSE)]

------------------------------------------------------------------------------
\* The OS settings: _nt.py and _darwin.py make a ProxyConfig of them.

\* parse_proxy_list: entries [protocol, server]; one without a protocol is for
\* the schemes that have none yet.
AddServer(proxies, e) ==
  IF e.server = "bad" \/ e.protocol \notin {"", "http", "https", "ftp", "socks"} THEN proxies
  ELSE IF e.protocol # "" THEN With(proxies, e.protocol, e.server)
  ELSE LET unset == {k \in {"http", "https", "ftp"} : ~HasKey(proxies, k)}
       IN proxies \cup {[key |-> k, proxy |-> e.server] : k \in unset}

ParseProxyList(list) ==
  LET f[n \in 0 .. Len(list)] == IF n = 0 THEN {} ELSE AddServer(f[n - 1], list[n])
  IN f[Len(list)]

\* config_from_settings; ProxyConfig() when there are none to read.
SystemConfig(s) ==
  LET proxies == ParseProxyList(s.list)
  IN IF ~s.read THEN [state |-> "unset", detect |-> FALSE, pac |-> FALSE, proxies |-> {},
                      rules |-> Parse(<<>>, "no_proxy", FALSE)]
     ELSE [state |-> IF s.detect \/ s.pac \/ proxies # {} THEN "configured" ELSE "direct",
           detect |-> s.detect, pac |-> s.pac, proxies |-> proxies,
           rules |-> Parse(s.bypass, s.dialect, s.reversed)]

DirectLink == [kind |-> "direct"]

\* manual_map.
ManualLink(config) ==
  IF config.proxies = {} THEN DirectLink
  ELSE [kind |-> "manual", proxies |-> config.proxies, rules |-> config.rules]

\* Mutant: wpad=True discovers whatever the OS says.
ToProxyMapEager(config, wpad) ==
  LET deferred(wanted) == IF wanted THEN << [kind |-> "deferred"] >> ELSE <<>>
  IN IF config.state = "direct" THEN <<DirectLink>>
     ELSE deferred(config.detect \/ wpad) \o deferred(config.pac) \o <<ManualLink(config)>>

ToProxyMap(config, wpad) ==
  LET deferred(wanted) == IF wanted THEN << [kind |-> "deferred"] >> ELSE <<>>
  IN IF config.state = "direct" THEN <<DirectLink>>
     ELSE deferred(config.detect \/ (wpad /\ config.state = "unset"))
            \o deferred(config.pac) \o <<ManualLink(config)>>

------------------------------------------------------------------------------
\* auto_proxy().

SystemLinks ==
  (IF options.system /\ options.platform # "bare" THEN << [kind |-> options.platform] >> ELSE <<>>)
    \o ToProxyMap(SystemConfig(settings), options.wpad)

\* Whether the environment counts; it is read again for the map.
Decide ==
  /\ pc = "unmade"
  /\ pc' = IF HasProxyVariable(environ) THEN "environment" ELSE "system"
  /\ UNCHANGED <<environ, settings, options, url, map, made, rest, consulted, answer>>

Links == IF pc = "environment" THEN <<EnvLink(environ), DirectLink>> ELSE SystemLinks

NoRules == [rules |-> {}, loopback |-> FALSE, reversed |-> FALSE]

Make ==
  /\ pc \in {"environment", "system"}
  /\ map' = [links |-> (IF options.overrides = {} THEN <<>>
                        ELSE << [kind |-> "dict", proxies |-> options.overrides] >>) \o Links,
             rules |-> IF options.noProxy = {} THEN NoRules   \* no Bypass at all
                       ELSE LET list == CHOOSE l \in options.noProxy : TRUE
                            IN Parse(list, "no_proxy", FALSE)]
  /\ made' = [made EXCEPT !.environ = environ, !.settings = settings]
  /\ pc' = "idle"
  /\ UNCHANGED <<environ, settings, options, url, rest, consulted, answer>>

------------------------------------------------------------------------------
\* A lookup: Bypass, then link after link.

\* Every answer is in its normal form: none of its entries is DIRECT.
Answered(a) == IF a = <<>> THEN Direct ELSE a

\* Proxy.parse_pac_result: what cannot be used is left out.
ParsePacResult(entries) ==
  Answered(Picked(entries, {i \in DOMAIN entries : entries[i] # "unknown"}))

Begin ==
  /\ pc = "idle"
  /\ url' \in Urls
  /\ IF Matches(map.rules, url')
       THEN pc' = "returned" /\ answer' = Direct /\ UNCHANGED rest
       ELSE pc' = "asking" /\ rest' = map.links /\ UNCHANGED answer
  /\ UNCHANGED <<environ, settings, options, map, made, consulted>>

\* A link says r: any answer ends the chain, an error too.
Says(r) ==
  /\ consulted' = Append(consulted, [kind |-> rest[1].kind, said |-> r, seen |-> settings])
  /\ IF r = NoOpinion /\ Len(rest) > 1
       THEN rest' = Tail(rest) /\ UNCHANGED <<pc, answer>>
       ELSE rest' = <<>> /\ pc' = "returned" /\ answer' = r
  /\ UNCHANGED <<environ, settings, options, map, made, url>>

Asked(kind) == pc = "asking" /\ rest[1].kind = kind

\* lookup() of a plain mapping: the URL, then the keys requests uses.
AskDict ==
  /\ Asked("dict")
  /\ LET key(scheme, host) == [scheme |-> scheme, host |-> host]
         found == Under(rest[1].proxies,
                    <<url, key(url.scheme, url.host.text), key(url.scheme, <<>>),
                      key("all", url.host.text), key("all", <<>>)>>)
     IN \/ found = {} /\ Says(NoOpinion)
        \/ \E p \in found : Says(Answered(p))

\* What a variable's value answers: a proxy, or a PAC that may fail.
AskEnv ==
  /\ Asked("env")
  /\ LET values == Under(rest[1].proxies, <<url.scheme, Fallback(url.scheme), "all">>)
     IN IF url.host = NoHost THEN Says(Error)
        ELSE IF Matches(rest[1].rules, url) THEN Says(Direct)
        ELSE IF values = {} THEN Says(NoOpinion)
        ELSE \E v \in values :
               IF v = "pac" THEN \E r \in PacResults : Says(IF r = Error THEN r ELSE ParsePacResult(r))
                            ELSE Says(<<v>>)

AskDirect == Asked("direct") /\ Says(Direct)

\* A deferred source that does not load, or whose PAC fails, has no opinion; that
\* no JavaScript engine is installed is an error.
AskDeferred ==
  /\ Asked("deferred")
  /\ \E r \in PacResults :
       Says(IF r = Error THEN NoOpinion ELSE IF options.engine THEN ParsePacResult(r) ELSE Error)

\* Mutant: a manual map has no opinion on a scheme it has no proxy for.
ManualAnswerUnless(proxies, rules) ==
  LET set == Under(proxies, <<url.scheme, Fallback(url.scheme), "socks">>)
  IN IF Matches(rules, url) THEN Direct ELSE IF set = {} THEN NoOpinion
     ELSE <<CHOOSE p \in set : TRUE>>

ManualAnswer(proxies, rules) ==
  LET set == Under(proxies, <<url.scheme, Fallback(url.scheme), "socks">>)
  IN IF proxies = {} \/ Matches(rules, url) \/ set = {} THEN Direct
     ELSE <<CHOOSE p \in set : TRUE>>

AskManual == Asked("manual") /\ Says(ManualAnswer(rest[1].proxies, rest[1].rules))

\* _resolve_for_scheme: the entries for the scheme or for none, else http's,
\* else https's.
ResolveForScheme(list) ==
  LET of(protocols) == Picked(list, {i \in DOMAIN list : list[i].protocol \in protocols})
      first(a, b) == IF a # <<>> THEN a ELSE b
      chosen == first(of({url.scheme, ""}), first(of({"http"}), of({"https"})))
  IN IF chosen = <<>> THEN Direct
     ELSE IF \E i \in DOMAIN chosen : chosen[i].server = "bad" THEN Error
     ELSE [i \in DOMAIN chosen |-> chosen[i].server]

\* WinHTTPProxyMap reads the settings anew: WinHTTP runs their PAC, and when it
\* fails, or there is none, the manual settings answer.
AskWinHttp ==
  /\ Asked("winhttp")
  /\ LET config == SystemConfig(settings)
     IN IF ~options.session THEN Says(NoOpinion)
        ELSE \/ /\ config.detect \/ config.pac
                /\ \E list \in WinHttpLists : Says(ResolveForScheme(list))
             \/ Says(ManualAnswer(config.proxies, config.rules))

\* CFNetwork or libproxy, as the lookups of Resolvers end.
AskResolver ==
  /\ Asked("resolver")
  /\ \E r \in {NoOpinion, <<"r">>, Direct, Error} : Says(r)

Return ==
  /\ pc = "returned"
  /\ pc' = "idle" /\ url' = NoUrl /\ answer' = <<>> /\ consulted' = <<>> /\ rest' = <<>>
  /\ UNCHANGED <<environ, settings, options, map, made>>

------------------------------------------------------------------------------
\* The world, and the program's own assignments to os.environ.

EnvironmentChanges ==
  /\ pc # "unmade" /\ environ' \in LaterEnvirons \ {environ}
  /\ UNCHANGED <<settings, options, url, map, made, rest, consulted, pc, answer>>

SettingsChange ==
  /\ pc # "unmade" /\ settings' \in LaterSettings \ {settings}
  /\ UNCHANGED <<environ, options, url, map, made, rest, consulted, pc, answer>>

Init ==
  /\ environ \in Environs /\ settings \in Settings /\ options \in Options
  /\ url = NoUrl /\ map = [rules |-> NoRules, links |-> <<>>]
  /\ made = [decided |-> environ, environ |-> environ, settings |-> settings]
  /\ rest = <<>> /\ consulted = <<>> /\ pc = "unmade" /\ answer = <<>>

Next ==
  \/ Decide \/ Make \/ Begin
  \/ AskDict \/ AskEnv \/ AskDirect \/ AskDeferred \/ AskManual \/ AskWinHttp \/ AskResolver
  \/ Return \/ EnvironmentChanges \/ SettingsChange

Spec == Init /\ [][Next]_vars

------------------------------------------------------------------------------
\* What the environment and the settings say, by what they hold.

\* A variable's value: the last in lower case, else the last otherwise, which
\* HTTP_PROXY is not in a CGI program; "default" with none.
EnvValue(env, key, default) ==
  LET named == {i \in DOMAIN env.vars :
                  /\ env.vars[i].key = key
                  /\ env.vars[i].lower \/ ~(env.cgi /\ key = "http")}
      lower == {i \in named : env.vars[i].lower}
  IN IF named = {} THEN default ELSE env.vars[Max(IF lower # {} THEN lower ELSE named)].value

UsesEnvironment ==
  \E i \in DOMAIN made.decided.vars :
    LET key == made.decided.vars[i].key
    IN key # "no_proxy" /\ EnvValue(made.decided, key, "") # ""

\* What manual settings say of the URL: the last proxy named for its scheme,
\* else the first named for every scheme, else the last named for SOCKS.
ManualMeans(s) ==
  LET named(p) == {i \in DOMAIN s.list : s.list[i].protocol = p /\ s.list[i].server # "bad"}
      scheme == Fallback(url.scheme)
      own == {"http", "https", "ftp"}
      entry == IF scheme \in own \cup {"socks"} /\ named(scheme) # {} THEN Max(named(scheme))
               ELSE IF scheme \in own /\ named("") # {} THEN Min(named(""))
               ELSE IF named("socks") # {} THEN Max(named("socks")) ELSE 0
  IN IF ~s.read \/ entry = 0 \/ Listed(s.bypass, s.dialect, s.reversed, url) THEN Direct
     ELSE <<s.list[entry].server>>

\* What the links after the program's own dict have said.
Asks == IF consulted # <<>> /\ consulted[1].kind = "dict" THEN Tail(consulted) ELSE consulted

\* A map made while a proxy variable was set answers with the environment it
\* then read for good: NO_PROXY goes DIRECT, the scheme's variable, its
\* upgrade's or ALL_PROXY's answers, a scheme without one goes DIRECT, and the
\* OS is never asked, whatever is set later, though the variables change between
\* the two times auto_proxy looks at them (auto_proxy's docstring, and
\* EnvProxyConfig's: lower case wins, an empty value unsets, CGI).
EnvironmentAlone ==
  pc = "returned" /\ UsesEnvironment /\ Asks # <<>> =>
    LET of(key) == EnvValue(made.environ, key, "")
        value == IF of(url.scheme) # "" THEN of(url.scheme)
                 ELSE IF of(Fallback(url.scheme)) # "" THEN of(Fallback(url.scheme)) ELSE of("all")
        listed == Listed(EnvValue(made.environ, "no_proxy", <<>>), "no_proxy", FALSE, url)
    IN /\ \A i \in DOMAIN Asks : Asks[i].kind \in {"env", "direct"}
       /\ IF url.host = NoHost THEN answer = Error
          ELSE IF listed \/ value = "" THEN answer = Direct
          ELSE IF value = "pac"
            THEN answer \in {Error} \cup {ParsePacResult(r) : r \in PacResults \ {Error}}
          ELSE answer = <<value>>

\* With no proxy variable at the making, the OS decides: its resolver, then
\* auto-detection when the OS asks for it (or the program does and there are no
\* settings), the PAC, and the manual proxies as they were at the making; but
\* WinHTTP's manual proxies are those of the lookup (auto_proxy, to_proxymap).
SettingsDecide ==
  pc = "returned" /\ ~UsesEnvironment /\ Asks # <<>> =>
    LET s == made.settings
        detect == IF s.read THEN s.detect ELSE options.wpad
        sources == (IF options.system /\ options.platform # "bare" THEN <<options.platform>> ELSE <<>>)
                     \o (IF detect THEN <<"deferred">> ELSE <<>>)
                     \o (IF s.read /\ s.pac THEN <<"deferred">> ELSE <<>>)
        last == Len(sources) + 1
    IN /\ \A i \in DOMAIN Asks : i # last => Asks[i].kind = sources[i]
       /\ Len(Asks) <= last
       /\ Len(Asks) = last => answer = ManualMeans(s)
       /\ \A i \in DOMAIN Asks :
            Asks[i].kind = "winhttp" /\ options.session
              /\ ~(Asks[i].seen.read /\ (Asks[i].seen.detect \/ Asks[i].seen.pac))
            => Asks[i].said = ManualMeans(Asks[i].seen)

\* The no_proxy given to auto_proxy, or to a Bypass around a chain, is over
\* everything: a URL it lists, and a loopback URL unless it has <-loopback>, is
\* DIRECT and no link is asked; any other URL is not held back by it.  A name is
\* listed by its labels, never by a part of one.
BypassedGoDirect ==
  pc = "returned" =>
    LET lists == {l \in options.noProxy : Listed(l, "no_proxy", FALSE, url)}
    IN (consulted = <<>>) = (lists # {}) /\ (lists # {} => answer = Direct)

\* auto_proxy's map answers every URL with at least one entry: no lookup ends
\* with KeyError.  It raises only when a variable holds a PAC that fails, for a
\* URL without a host, for a resolver's list it cannot read, or without an
\* engine; the settings' own sources never raise otherwise.
AnswersEveryUrl ==
  pc = "returned" =>
    /\ answer # NoOpinion /\ answer # <<>> /\ "unknown" \notin Range(answer)
    /\ answer = Error =>
         \/ Last(consulted).kind = "env"
              /\ (url.host = NoHost \/ \E e \in map.links[Len(consulted)].proxies : e.proxy = "pac")
         \/ Last(consulted).kind \in {"winhttp", "resolver"}
         \/ ~options.engine

=============================================================================
