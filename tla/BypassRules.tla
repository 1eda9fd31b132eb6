---------------------------- MODULE BypassRules -----------------------------
(***************************************************************************)
(* Bypass lists: which request URLs go DIRECT.  A text is a sequence of    *)
(* characters, and the dots among them matter: a suffix or a glob matches  *)
(* the text of a host, not its labels.  An address is its sequence of      *)
(* numbers, four or eight.                                                 *)
(***************************************************************************)
EXTENDS Integers, Sequences, SequencesExt

CONSTANT Chars \* the characters of names

ASSUME CharsAssumption == {".", "*"} \subseteq Chars

\* A host is [text, address, resolves]: address is <<>> of a name; resolves
\* (external: the DNS and the interfaces) says where its address is, "link",
\* "subnet", "far" or "nowhere".  A URL is [scheme, host, port], port 0 when it
\* has none; an entry of a list is [form, text, address, bits, port], the form
\* one of "name", "address", "network", a special entry or "bad".

Forms == {"name", "address", "network", "everything", "local", "subnet", "-loopback", "bad"}

\* The entries that a list can hold: a text is of a name or of an address, a name
\* has one leading dot at most, a network's prefix takes whole numbers of an address.
Entries ==
  {e \in [form : Forms, text : Seq(Chars), address : Seq(Nat), bits : Nat, port : Nat] :
     /\ e.form = "name" => e.text # <<>> /\ ~IsPrefix(<<".", ".">>, e.text)
     /\ e.form = "address" => ~IsPrefix(<<".">>, e.text) /\ Range(e.text) \cap {"*", "?"} = {}
     /\ e.form = "network" =>
          \/ Len(e.address) \in 1 .. 4 /\ e.bits \in {0, 8, 16, 24, 32}
          \/ Len(e.address) = 8 /\ e.bits \in {16 * n : n \in 0 .. 8}}

NoHost == [text |-> <<>>, address |-> <<>>, resolves |-> "nowhere"]
NoRule == [rule |-> "none"]

\* A URL's host and port; the scheme's default when it has none.
Target(url) ==
  LET default == CASE url.scheme \in {"http", "ws"} -> 80
                   [] url.scheme \in {"https", "wss"} -> 443
                   [] OTHER -> 21
  IN [host |-> url.host, port |-> IF url.port = 0 THEN default ELSE url.port]

PortOk(want, target) == want = 0 \/ want = target.port

Wild(text) == Range(text) \cap {"*", "?"} # {}

\* The regular expression of a glob, which has to match all of the text: how much
\* of the text can the first n of the pattern match?
Glob(pattern, text) ==
  LET after[n \in 0 .. Len(pattern)] ==
        IF n = 0 THEN {0}
        ELSE IF pattern[n] = "*" THEN {j \in 0 .. Len(text) : \E i \in after[n - 1] : i <= j}
        ELSE {j \in 1 .. Len(text) : j - 1 \in after[n - 1] /\ pattern[n] \in {"?", text[j]}}
  IN Len(text) \in after[Len(pattern)]

\* Mutant: the dot before the domain is forgotten.
SuffixUndotted(domain, text) == IsSuffix(domain, text)

Suffix(domain, text) == text = domain \/ IsSuffix(<<".">> \o domain, text)

\* An abbreviated network has zeros for the numbers it leaves out; its prefix
\* takes whole numbers, of 8 bits or of 16.
InNetwork(rule, address) ==
  LET octets == rule.address \o [i \in 1 .. 4 - Len(rule.address) |-> 0]
      n == rule.bits \div (IF Len(octets) = 8 THEN 16 ELSE 8)
  IN /\ Len(octets) = Len(address)
     /\ \A i \in 1 .. n : octets[i] = address[i]

Loopback(host) ==
  \/ Suffix(<<"l">>, host.text)   \* "l" is localhost
  \/ Len(host.address) = 4 /\ host.address[1] = 127
  \/ host.address = <<0, 0, 0, 0, 0, 0, 0, 1>>

Applies(rule, target) ==
  LET host == target.host
  IN CASE rule.rule = "everything" -> TRUE
       [] rule.rule = "local" -> "." \notin Range(host.text) /\ host.address = <<>>
       [] rule.rule = "subnet" -> host.resolves \in {"link", "subnet"}
       [] rule.rule = "network" -> InNetwork(rule, host.address)
       [] rule.rule = "address" -> host.address = rule.address /\ PortOk(rule.port, target)
       [] rule.rule = "suffix" -> Suffix(rule.text, host.text) /\ PortOk(rule.port, target)
       [] rule.rule = "glob" -> Glob(rule.text, host.text) /\ PortOk(rule.port, target)
       [] rule.rule = "exact" -> rule.text = host.text /\ PortOk(rule.port, target)

\* lstrip(".").
Undotted(text) ==
  LET dots == {n \in 0 .. Len(text) : \A i \in 1 .. n : text[i] = "."}
  IN SubSeq(text, Max(dots) + 1, Len(text))

ParseEntry(entry, dialect) ==
  LET text == entry.text
      rest == SubSeq(text, 3, Len(text))
      as(rule, words) ==
        [rule |-> rule, text |-> words, address |-> entry.address, bits |-> entry.bits,
         port |-> entry.port]
  IN IF entry.form \in {"everything", "local", "subnet", "network"} THEN as(entry.form, text)
     ELSE IF entry.form = "bad" THEN NoRule
     ELSE IF IsPrefix(<<"*", ".">>, text) /\ ~Wild(rest) THEN as("suffix", rest)
     ELSE IF Wild(text) THEN as("glob", text)
     ELSE IF IsPrefix(<<".">>, text) THEN as("suffix", Undotted(text))
     ELSE IF entry.form = "address" THEN as("address", text)
     ELSE as(IF dialect \in {"no_proxy", "kde"} THEN "suffix" ELSE "exact", text)

\* BypassRules.parse: the rules of a list; any rule may apply, so their order is
\* of no account.  A star counts in a NO_PROXY list only when it is alone.
Parse(entries, dialect, reversed) ==
  LET kept == {e \in Range(entries) :
                 /\ e.form # "-loopback"
                 /\ e.form = "everything" => Len(entries) = 1 \/ dialect # "no_proxy"}
  IN [rules |-> {ParseEntry(e, dialect) : e \in kept} \ {NoRule},
      loopback |-> \A i \in DOMAIN entries : entries[i].form # "-loopback",
      reversed |-> reversed]

Matches(rules, url) ==
  /\ url.host # NoHost
  /\ \/ rules.loopback /\ Loopback(url.host)
     \/ (\E r \in rules.rules : Applies(r, Target(url))) # rules.reversed

------------------------------------------------------------------------------
\* What a list says, by the labels of names (bypass.py's docstring).

Labels(text) ==
  LET upto[n \in 0 .. Len(text)] ==
        IF n = 0 THEN << <<>> >>
        ELSE IF text[n] = "." THEN Append(upto[n - 1], <<>>)
        ELSE Append(Front(upto[n - 1]), Append(Last(upto[n - 1]), text[n]))
  IN upto[Len(text)]

\* Each star of a pattern stands for the text up to some end.
Fits(pattern, text) ==
  LET stars == {i \in DOMAIN pattern : pattern[i] = "*"}
  IN \E end \in [stars -> 0 .. Len(text)] :
       LET upto(i) == LET before == {k \in stars : k <= i}
                      IN IF before = {} THEN i ELSE end[Max(before)] + (i - Max(before))
       IN /\ upto(Len(pattern)) = Len(text)
          /\ \A i \in DOMAIN pattern :
               IF i \in stars THEN upto(i - 1) <= end[i]
               ELSE upto(i) <= Len(text) /\ pattern[i] \in {"?", text[upto(i)]}

Means(entry, dialect, url) ==
  LET host == url.host
      labels == Labels(entry.text)
      under(domain) == IsSuffix(domain, Labels(host.text))
      wild == \E i \in 2 .. Len(labels) : Wild(labels[i])
      numbers == IF Len(entry.address) > 4 THEN 8 ELSE 4
      width == IF numbers = 8 THEN 16 ELSE 8
  IN CASE entry.form = "everything" -> TRUE
       [] entry.form = "local" -> Len(Labels(host.text)) = 1 /\ host.address = <<>>
       [] entry.form = "subnet" -> host.resolves \in {"link", "subnet"}
       [] entry.form = "network" ->
            /\ Len(host.address) = numbers
            /\ \A i \in 1 .. numbers : i * width <= entry.bits =>
                 host.address[i] = IF i <= Len(entry.address) THEN entry.address[i] ELSE 0
       [] entry.form = "address" ->
            host.address = entry.address /\ entry.port \in {0, Target(url).port}
       [] entry.form = "name" ->
            /\ entry.port \in {0, Target(url).port}
            /\ IF labels[1] \in {<<>>, <<"*">>} /\ ~wild THEN under(Tail(labels))
               ELSE IF Wild(entry.text) THEN Fits(entry.text, host.text)
               ELSE IF dialect \in {"no_proxy", "kde"} THEN under(labels)
               ELSE entry.text = host.text
       [] OTHER -> FALSE

\* Loopback is bypassed whatever a list says, reversed or not, unless it has
\* <-loopback>; a star among others in NO_PROXY says nothing.
Listed(entries, dialect, reversed, url) ==
  LET counts(e) == ~(dialect = "no_proxy" /\ e.form = "everything" /\ Len(entries) > 1)
      says == \E i \in DOMAIN entries : counts(entries[i]) /\ Means(entries[i], dialect, url)
  IN IF url.host = NoHost THEN FALSE
     ELSE IF Loopback(url.host) /\ \A i \in DOMAIN entries : entries[i].form # "-loopback" THEN TRUE
     ELSE IF reversed THEN ~says ELSE says

=============================================================================
