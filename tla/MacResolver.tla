---------------------------- MODULE MacResolver -----------------------------
(***************************************************************************)
(* One lookup of CFNetworkProxyMap.  The lookup owns a reference to every  *)
(* CoreFoundation object it creates, copies or retains, and gives it back  *)
(* on each of its many ways out.  A PAC the system names is run by pumping *)
(* the thread's run loop in slices until a callback brings its answer,     *)
(* which is the system's own and dies with the source unless retained.     *)
(***************************************************************************)
EXTENDS Integers, Sequences, SequencesExt

CONSTANTS
  MacReplies,  \* answers of CFNetworkCopyProxiesForURL: sequences of entries
  PacReplies,  \* answers of a PAC run: likewise
  Deadline     \* the deadline, in slices of the run loop

ASSUME MacAssumption ==
  /\ Deadline \in Nat \ {0}
  /\ MacReplies \subseteq Seq(STRING) /\ PacReplies \subseteq Seq(STRING)

\* An entry is "direct", "skip" (no usable proxy), "pac", "badPac" (a PAC with
\* no URL) or a proxy.
NoOpinion == <<"KeyError">>
Failed == <<"failed">>

VARIABLES mpc, owned, reply, place, results, waited, callback, macSaid, macResult

macVars == <<mpc, owned, reply, place, results, waited, callback, macSaid, macResult>>

Objects == {"url", "settings", "proxies", "pacUrl", "source", "array"}
Outer == {"url", "settings", "proxies"}   \* what the loop over entries holds

MacInit ==
  /\ mpc = "idle" /\ owned = [o \in Objects |-> 0]
  /\ reply = <<>> /\ place = 1 /\ results = <<>> /\ waited = 0
  /\ callback = [done |-> FALSE, list |-> Failed] /\ macSaid = <<>> /\ macResult = <<>>

\* CFRelease, and what a function that creates or copies returns.
Without(objects) == [o \in Objects |-> IF o \in objects THEN owned[o] - 1 ELSE owned[o]]
With(object) == [owned EXCEPT ![object] = @ + 1]

\* The lookup ends: the finally clauses release the objects, innermost first.
Leave(objects, answer) ==
  /\ mpc' = "returned" /\ owned' = Without(objects) /\ macResult' = answer
  /\ UNCHANGED <<reply, place, results, waited, callback, macSaid>>

\* One of the objects is made, or the lookup ends without it.
Obtain(object, objects, next) ==
  \/ /\ mpc' = next /\ owned' = With(object)
     /\ UNCHANGED <<reply, place, results, waited, callback, macSaid, macResult>>
  \/ Leave(objects, NoOpinion)

MacStart == mpc = "idle" /\ Obtain("url", {}, "settings")

CopySettings == mpc = "settings" /\ Obtain("settings", {"url"}, "proxies")

CopyProxies ==
  /\ mpc = "proxies"
  /\ \/ /\ reply' \in MacReplies
        /\ mpc' = "entries" /\ owned' = With("proxies")
        /\ UNCHANGED <<place, results, waited, callback, macSaid, macResult>>
     \/ Leave({"url", "settings"}, NoOpinion)

\* _parse_proxy_entry of a result, a PAC's entry that is no proxy is DIRECT.
Usable(list) == SelectSeq(list, LAMBDA e : e # "skip")
PacEntries(list) ==
  LET usable == Usable(list)
  IN [k \in DOMAIN usable |-> IF usable[k] \in {"pac", "badPac"} THEN "direct" ELSE usable[k]]

ReadEntry ==
  /\ mpc = "entries" /\ place <= Len(reply)
  /\ reply[place] \notin {"pac", "badPac"}
  /\ place' = place + 1 /\ results' = results \o Usable(<<reply[place]>>)
  /\ UNCHANGED <<mpc, owned, reply, waited, callback, macSaid, macResult>>

BadPacEntry ==
  /\ mpc = "entries" /\ place <= Len(reply) /\ reply[place] = "badPac"
  /\ Leave(Outer, NoOpinion)

PacEntry ==
  /\ mpc = "entries" /\ place <= Len(reply) /\ reply[place] = "pac"
  /\ Obtain("pacUrl", Outer, "execute")

LastEntry ==
  /\ mpc = "entries" /\ place > Len(reply)
  /\ Leave(Outer, IF results = <<>> THEN <<"direct">> ELSE results)

ExecutePac == mpc = "execute" /\ Obtain("source", Outer \cup {"pacUrl"}, "loop")

\* A slice of the run loop passes; the callback may come in it, with a list
\* that it retains, or with an error.
RunSlice ==
  /\ mpc = "loop" /\ ~callback.done /\ waited < Deadline
  /\ \/ /\ waited' = waited + 1
        /\ UNCHANGED <<owned, callback, macSaid>>
     \/ \E list \in PacReplies \cup {Failed} :
          /\ waited' \in {waited, waited + 1}
          /\ callback' = [done |-> TRUE, list |-> list]
          /\ owned' = IF list = Failed THEN owned ELSE With("array")
          /\ macSaid' = Append(macSaid, list)
  /\ UNCHANGED <<mpc, reply, place, results, macResult>>

\* Mutant: a PAC that overran contributes nothing, and the next entry decides.
PacOverranGoesOn ==
  /\ mpc = "loop" /\ ~callback.done /\ waited >= Deadline
  /\ mpc' = "entries" /\ place' = place + 1 /\ owned' = Without({"pacUrl", "source"})
  /\ UNCHANGED <<reply, results, waited, callback, macSaid, macResult>>

PacOverran ==
  /\ mpc = "loop" /\ ~callback.done /\ waited >= Deadline
  /\ Leave(Outer \cup {"pacUrl", "source"}, NoOpinion)

PacFailed ==
  /\ mpc = "loop" /\ callback.done /\ callback.list = Failed
  /\ Leave(Outer \cup {"pacUrl", "source"}, NoOpinion)

PacAnswered ==
  /\ mpc = "loop" /\ callback.done /\ callback.list # Failed
  /\ mpc' = "array" /\ owned' = Without({"pacUrl", "source"})
  /\ UNCHANGED <<reply, place, results, waited, callback, macSaid, macResult>>

ReadArray ==
  /\ mpc = "array"
  /\ results' = results \o PacEntries(callback.list)
  /\ owned' = Without({"array"})
  /\ mpc' = "entries" /\ place' = place + 1
  /\ callback' = [done |-> FALSE, list |-> Failed]
  /\ UNCHANGED <<reply, waited, macSaid, macResult>>

MacReturn ==
  /\ mpc = "returned"
  /\ mpc' = "idle" /\ reply' = <<>> /\ place' = 1 /\ results' = <<>> /\ waited' = 0
  /\ callback' = [done |-> FALSE, list |-> Failed] /\ macSaid' = <<>> /\ macResult' = <<>>
  /\ UNCHANGED owned

MacNext ==
  \/ MacStart \/ CopySettings \/ CopyProxies \/ ReadEntry \/ BadPacEntry \/ PacEntry \/ LastEntry
  \/ ExecutePac \/ RunSlice \/ PacOverran \/ PacFailed \/ PacAnswered \/ ReadArray
  \/ MacReturn

------------------------------------------------------------------------------

\* How many of the first n entries are PACs that can be run.
Runs(entries, n) == Cardinality({k \in 1 .. n : entries[k] = "pac"})

\* Everything CFNetwork said up to entry n, in its order: each PAC among the
\* entries stands for what its run brought.
SaidOf(entries, brought) ==
  LET said[n \in 0 .. Len(entries)] ==
        IF n = 0 THEN <<>>
        ELSE said[n - 1] \o IF entries[n] = "pac" THEN PacEntries(brought[Runs(entries, n)])
                                                 ELSE Usable(<<entries[n]>>)
  IN said

Said == SaidOf(reply, macSaid)[Len(reply)]

\* A lookup on macOS answers with all that CFNetwork said, in order, DIRECT
\* when nothing in it is usable, or has no opinion: never with the part of it
\* that came before a PAC failed, overran or had no URL (the docstrings of
\* _resolve_proxies_for_url and CFNetworkProxyMap).
WholeOrNoOpinion ==
  mpc = "returned" /\ macResult # NoOpinion =>
    /\ "badPac" \notin Range(reply) /\ Failed \notin Range(macSaid)
    /\ Len(macSaid) = Runs(reply, Len(reply))
    /\ macResult = IF Said = <<>> THEN <<"direct">> ELSE Said

=============================================================================
