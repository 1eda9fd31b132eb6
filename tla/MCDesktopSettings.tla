------------------------- MODULE MCDesktopSettings --------------------------
\* GNOME and MATE with one child schema, KDE without a proxy before a
\* NetworkManager connection with one, or with a proxy of its own.
EXTENDS DesktopSettings

MCSchemas == <<"gnome", "mate">>
MCChildren == <<"https">>

Settings(mode, url, hosts) ==
  [mode |-> mode, url |-> url, host |-> [c \in Range(MCChildren) |-> c \in hosts]]

MCInitialSettings == {Settings("missing", FALSE, {}), Settings("manual", FALSE, {"https"})}
MCLaterSettings ==
  {Settings("auto", TRUE, {}), Settings("none", FALSE, {}), Settings("manual", FALSE, {})}

Kde(type) == [type |-> type, proxies |-> TRUE, script |-> FALSE]
Connection(method, url) == [method |-> method, url |-> url, script |-> FALSE]
Nm(nmcli) == [nmcli |-> nmcli,
              connections |-> <<Connection("none", FALSE), Connection("auto", TRUE)>>]

MCElsewhere ==
  {[kde |-> Kde("none"), nm |-> Nm(TRUE)], [kde |-> Kde("missing"), nm |-> Nm(FALSE)],
   [kde |-> Kde("manual"), nm |-> Nm(TRUE)]}

=============================================================================
