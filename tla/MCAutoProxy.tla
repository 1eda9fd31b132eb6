---------------------------- MODULE MCAutoProxy -----------------------------
\* Environments, settings and lists with one case of each kind; names over the
\* letters a, b, c and l, the last standing for "localhost".
EXTENDS AutoProxy

\* Hosts and URLs.
Host(text) == [text |-> text, address |-> <<>>, resolves |-> "far"]
Address(text, numbers) == [text |-> text, address |-> numbers, resolves |-> "far"]
Url(scheme, host, port) == [scheme |-> scheme, host |-> host, port |-> port]

Apex == Host(<<"a", ".", "c">>)
Below == Host(<<"b", ".", "a", ".", "c">>)
Beside == Host(<<"b", "a", ".", "c">>)
Intranet == [Host(<<"b">>) EXCEPT !.resolves = "link"]
Local == Host(<<"l">>)
TenOne == Address(<<"10", ".", "0", ".", "0", ".", "1">>, <<10, 0, 0, 1>>)
SixLoop == Address(<<"::1">>, <<0, 0, 0, 0, 0, 0, 0, 1>>)

MCChars == {"a", "b", "c", "l", ".", "*", "?", "10", "0", "1", "::1"}

MCUrls ==
  {Url("http", h, 0) : h \in {Apex, Below, Beside, Intranet, Local, TenOne, SixLoop}}
    \cup {Url("wss", Below, 0), Url("https", Apex, 8443), Url("ftp", NoHost, 0)}

\* Entries and lists.
Entry(form, text, port) ==
  [form |-> form, text |-> text, address |-> <<>>, bits |-> 0, port |-> port]
Named(text) == Entry("name", text, 0)
Special(form) == Entry(form, <<>>, 0)
Net(numbers, bits) == [Special("network") EXCEPT !.address = numbers, !.bits = bits]
Single(text, numbers) == [Entry("address", text, 0) EXCEPT !.address = numbers]

ApexList == <<Named(Apex.text)>>
PortList == <<Entry("name", Apex.text, 8443), Special("everything"), Special("bad")>>
StarDot == <<Named(<<"*", ".", "a", ".", "c">>)>>
Globs == <<Named(<<"*", "a", ".", "*", "?">>), Special("local")>>
NoLoop == <<Special("-loopback"), Named(<<".", "a", ".", "c">>), Special("subnet")>>
Nets == <<Net(<<10>>, 8), Net(<<1, 2, 3, 4, 5, 6, 7, 8>>, 32), Single(TenOne.text, TenOne.address)>>
Star == <<Special("everything")>>

\* Environments.
Var(lower, key, value) == [lower |-> lower, key |-> key, value |-> value]
Env(variables, cgi) == [vars |-> variables, cgi |-> cgi]

MCEnvirons ==
  {Env(<<>>, FALSE),
   Env(<<Var(TRUE, "http", "p"), Var(FALSE, "http", "q"), Var(FALSE, "no_proxy", ApexList)>>, FALSE),
   Env(<<Var(TRUE, "https", ""), Var(FALSE, "https", "p"), Var(FALSE, "no_proxy", Star)>>, FALSE),
   Env(<<Var(FALSE, "http", "p"), Var(FALSE, "https", "q"), Var(TRUE, "no_proxy", NoLoop)>>, TRUE),
   Env(<<Var(FALSE, "all", "pac"), Var(FALSE, "no_proxy", Globs)>>, FALSE)}
MCLaterEnvirons ==
  {Env(<<>>, FALSE), Env(<<Var(TRUE, "all", "q"), Var(TRUE, "no_proxy", Nets)>>, FALSE)}

\* OS settings.
Manual(protocol, server) == [protocol |-> protocol, server |-> server]
Os(detect, pac, list, bypass, dialect, reversed) ==
  [read |-> TRUE, detect |-> detect, pac |-> pac, list |-> list, bypass |-> bypass,
   dialect |-> dialect, reversed |-> reversed]
NoSettings == [Os(FALSE, FALSE, <<>>, <<>>, "wininet", FALSE) EXCEPT !.read = FALSE]

Lists == {ApexList, PortList, StarDot, Globs, NoLoop, Nets, Star}

MCSettings ==
  {Os(FALSE, FALSE, <<Manual("http", "p"), Manual("socks", "q")>>, list, d, FALSE) :
     list \in Lists, d \in {"wininet", "kde"}}
  \cup {Os(FALSE, FALSE, <<Manual("http", "p")>>, list, "kde", TRUE) : list \in Lists}
  \cup {NoSettings,
   Os(FALSE, FALSE, <<>>, ApexList, "wininet", FALSE),
   Os(FALSE, FALSE, <<Manual("", "p"), Manual("http", "q"), Manual("http", "bad")>>,
      ApexList, "wininet", FALSE),
   Os(FALSE, FALSE, <<Manual("https", "p"), Manual("gopher", "q"), Manual("socks", "q")>>,
      StarDot, "kde", TRUE),
   Os(TRUE, TRUE, <<Manual("", "p"), Manual("", "q")>>, PortList, "macos", FALSE),
   Os(FALSE, TRUE, <<>>, Nets, "gsettings", FALSE)}
MCLaterSettings == {Os(FALSE, FALSE, <<Manual("http", "r")>>, NoLoop, "wininet", FALSE)}

\* Options; a dict with an entry of each kind of key.
Opt(platform, noProxy, overrides) ==
  [platform |-> platform, session |-> TRUE, engine |-> TRUE, system |-> TRUE, wpad |-> TRUE,
   noProxy |-> noProxy, overrides |-> overrides]
Override(scheme, host, answer_) == [key |-> [scheme |-> scheme, host |-> host], proxy |-> answer_]
MCOverrides ==
  {Override("http", Below.text, <<"o">>), Override("wss", <<>>, <<>>), Override("all", Local.text, <<"o">>)}

MCOptions ==
  {Opt("winhttp", {}, {}), [Opt("winhttp", {NoLoop}, {}) EXCEPT !.session = FALSE],
   Opt("resolver", {Globs}, {}), Opt("bare", {PortList}, MCOverrides),
   [Opt("resolver", {}, {}) EXCEPT !.system = FALSE, !.engine = FALSE, !.wpad = FALSE],
   Opt("bare", {Nets}, {}), Opt("bare", {ApexList}, {}), Opt("bare", {Star}, {})}

MCProxy == {"o", "p", "q", "r", "w", "x", "y"}
MCPacResults == {Error, <<"unknown">>, <<"w", "DIRECT">>}
MCWinHttpLists ==
  {<<>>, <<Manual("ftp", "w"), Manual("https", "x")>>, <<Manual("", "bad")>>,
   <<Manual("http", "w"), Manual("", "x"), Manual("https", "y")>>}

=============================================================================
