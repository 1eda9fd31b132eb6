----------------------------- MODULE Resolvers ------------------------------
(***************************************************************************)
(* The proxy maps that own something: a libproxy factory (LibProxyMap), a  *)
(* WinHTTP session (WinHTTPProxyMap), a PAC loaded on the first lookup     *)
(* (_LazyPacMap), the inner transports of an httpx transport               *)
(* (_Transports), and the objects of a CFNetwork lookup (MacResolver).     *)
(* Threads look up and close one map; "kind" says which.  Handles are      *)
(* numbered, and a number is used again once nobody holds it.              *)
(***************************************************************************)
EXTENDS MacResolver, FiniteSetsExt

CONSTANTS
  Threads,
  Handles,       \* bound: numbers of handles
  Kinds,         \* subset of {"libproxy", "winhttp", "pac", "httpx", "macos"}
  ClosesAnytime, \* kinds closed while other threads look up
  MaxOps         \* bound: lookups and closes of a thread

ASSUME ResolversAssumption ==
  /\ 0 \notin Threads /\ MaxOps \in Nat \ {0}
  /\ Handles \subseteq Nat \ {0} /\ Handles # {}
  /\ Kinds \subseteq {"libproxy", "winhttp", "pac", "httpx", "macos"}

VARIABLES
  kind,
  slot,     \* the handle the map keeps: of the map, or of each proxy (httpx)
  alive,    \* the handles that were made and not freed
  lock,     \* who holds the map's lock
  pc, key, left,
  using,    \* the handle a thread's call is given; 0 is none
  closing,  \* the handles a close() has taken and not yet freed
  arrays,   \* threads that own a result array of libproxy
  result

handleVars == <<kind, slot, alive, lock, pc, key, left, using, closing, arrays, result>>
vars == <<handleVars, macVars>>

NoOne == 0
Keys == {"proxy", "DIRECT"}   \* two entries of an answer, for httpx
MapKeys(k) == IF k = "httpx" THEN Keys ELSE {"map"}

\* WinHTTPProxyMap opens its session at once, or fails to; the others make
\* theirs on the first lookup.
Init ==
  /\ kind \in Kinds
  /\ \E h \in IF kind = "winhttp" THEN {0, Min(Handles)} ELSE {0} :
       slot = [k \in MapKeys(kind) |-> h] /\ alive = {h} \ {0}
  /\ lock = NoOne
  /\ pc = [t \in Threads |-> "idle"] /\ key = [t \in Threads |-> "map"]
  /\ left = [t \in Threads |-> MaxOps]
  /\ using = [t \in Threads |-> 0] /\ closing = [t \in Threads |-> {}]
  /\ arrays = {} /\ result = [t \in Threads |-> "none"]
  /\ MacInit

Goto(t, step) == pc' = [pc EXCEPT ![t] = step]
Answer(t, r) == Goto(t, "returned") /\ result' = [result EXCEPT ![t] = r]

\* A handle nobody holds, for what the map makes next.
Unused == Handles \ (alive \cup Range(using) \cup UNION Range(closing))

BeginLookup(t) ==
  /\ kind # "macos" /\ pc[t] = "idle" /\ left[t] > 0
  /\ kind \in ClosesAnytime \/ \A u \in Threads : pc[u] \notin {"swap", "check", "free"}
  /\ \E k \in MapKeys(kind) : key' = [key EXCEPT ![t] = k]
  /\ left' = [left EXCEPT ![t] = @ - 1]
  /\ Goto(t, IF kind \in {"winhttp", "pac"} THEN "peek" ELSE "lock")
  /\ UNCHANGED <<kind, slot, alive, lock, using, closing, arrays, result, macVars>>

\* The look at the handle without the lock: a closed session has no opinion,
\* a PAC that is there needs no lock.
Peek(t) ==
  /\ pc[t] = "peek"
  /\ IF kind = "winhttp" /\ slot["map"] = 0 THEN Answer(t, "no opinion")
     ELSE /\ Goto(t, IF kind = "pac" /\ slot["map"] = 0 THEN "lock" ELSE "fetch")
          /\ UNCHANGED result
  /\ UNCHANGED <<kind, slot, alive, lock, key, left, using, closing, arrays, macVars>>

Lock(t) ==
  /\ pc[t] = "lock" /\ lock = NoOne
  /\ lock' = t
  /\ Goto(t, "make")
  /\ UNCHANGED <<kind, slot, alive, key, left, using, closing, arrays, result, macVars>>

\* Mutant: libproxy is called outside the lock.
UseMadeUnlocked(t) ==
  /\ pc[t] = "make" /\ slot[key[t]] # 0
  /\ lock' = NoOne /\ Goto(t, "call") /\ using' = [using EXCEPT ![t] = slot[key[t]]]
  /\ UNCHANGED <<kind, slot, alive, key, left, closing, arrays, result, macVars>>

\* Under the lock, the handle is made unless another thread made it.  libproxy
\* keeps the lock over its call, the others give it back.
UseMade(t) ==
  /\ pc[t] = "make" /\ slot[key[t]] # 0
  /\ IF kind = "libproxy" THEN Goto(t, "fetch") /\ UNCHANGED <<lock, using>>
     ELSE /\ lock' = NoOne
          /\ IF kind = "httpx" THEN Goto(t, "call") /\ using' = [using EXCEPT ![t] = slot[key[t]]]
                               ELSE Goto(t, "fetch") /\ UNCHANGED using
  /\ UNCHANGED <<kind, slot, alive, key, left, closing, arrays, result, macVars>>

\* Mutant: the second look, under the lock, is missing.
MakeAgain(t) ==
  /\ pc[t] = "make" /\ Unused # {}
  /\ LET new == Min(Unused)
     IN /\ slot' = [slot EXCEPT ![key[t]] = new] /\ alive' = alive \cup {new}
        /\ IF kind = "libproxy" THEN Goto(t, "fetch") /\ UNCHANGED <<lock, using>>
           ELSE /\ lock' = NoOne
                /\ IF kind = "httpx" THEN Goto(t, "call") /\ using' = [using EXCEPT ![t] = new]
                                     ELSE Goto(t, "fetch") /\ UNCHANGED using
  /\ UNCHANGED <<kind, key, left, closing, arrays, result, macVars>>

Make(t) ==
  /\ pc[t] = "make" /\ slot[key[t]] = 0 /\ Unused # {}
  /\ LET new == Min(Unused)
     IN slot' = [slot EXCEPT ![key[t]] = new] /\ alive' = alive \cup {new}
  /\ UNCHANGED <<kind, lock, pc, key, left, using, closing, arrays, result, macVars>>

\* Mutant: the lock is not given back when the load raises.
MakeFailsLocked(t) ==
  /\ pc[t] = "make" /\ slot[key[t]] = 0
  /\ Answer(t, IF kind = "libproxy" THEN "no opinion" ELSE "error")
  /\ UNCHANGED <<kind, slot, alive, lock, key, left, using, closing, arrays, macVars>>

\* No factory is made, or the PAC or the transport raises: the lock is given
\* back.
MakeFails(t) ==
  /\ pc[t] = "make" /\ slot[key[t]] = 0
  /\ lock' = NoOne
  /\ Answer(t, IF kind = "libproxy" THEN "no opinion" ELSE "error")
  /\ UNCHANGED <<kind, slot, alive, key, left, using, closing, arrays, macVars>>

\* The map's handle is read again for the call: of None a PAC's lookup is a
\* TypeError.  WinHTTP is asked only when the settings it reads name a PAC.
Fetch(t) ==
  /\ pc[t] = "fetch"
  /\ IF kind = "pac" /\ slot["map"] = 0 THEN Answer(t, "TypeError") /\ UNCHANGED using
     ELSE \/ Goto(t, "call") /\ using' = [using EXCEPT ![t] = slot["map"]] /\ UNCHANGED result
          \/ kind = "winhttp" /\ Answer(t, "settings") /\ UNCHANGED using
  /\ UNCHANGED <<kind, slot, alive, lock, key, left, closing, arrays, macVars>>

\* The call returns.  libproxy's array is read outside the lock; a login
\* challenge makes WinHTTP's call be made again; its failure leaves the
\* settings to answer.
CallEnds(t) ==
  /\ pc[t] = "call"
  /\ using' = [using EXCEPT ![t] = 0]
  /\ lock' = IF lock = t THEN NoOne ELSE lock
  /\ \/ kind = "libproxy" /\ Goto(t, "array") /\ arrays' = arrays \cup {t} /\ UNCHANGED result
     \/ kind = "libproxy" /\ Answer(t, "no opinion") /\ UNCHANGED arrays
     \/ kind = "winhttp" /\ Goto(t, "retry") /\ UNCHANGED <<arrays, result>>
     \/ /\ kind # "libproxy" /\ UNCHANGED arrays
        /\ \E r \in {"answer"} \cup (IF kind = "winhttp" THEN {"settings"} ELSE {"error"}) : Answer(t, r)
  /\ UNCHANGED <<kind, slot, alive, key, left, closing, macVars>>

\* The second WinHttpGetProxyForUrl, with fAutoLogonIfChallenged.
Retry(t) ==
  /\ pc[t] = "retry"
  /\ Goto(t, "call2") /\ using' = [using EXCEPT ![t] = slot["map"]]
  /\ UNCHANGED <<kind, slot, alive, lock, key, left, closing, arrays, result, macVars>>

RetryEnds(t) ==
  /\ pc[t] = "call2"
  /\ using' = [using EXCEPT ![t] = 0]
  /\ \E r \in {"answer", "settings"} : Answer(t, r)
  /\ UNCHANGED <<kind, slot, alive, lock, key, left, closing, arrays, macVars>>

\* An entry of the array may not parse: the array is freed all the same.
ReadProxies(t) ==
  /\ pc[t] = "array"
  /\ arrays' = arrays \ {t}
  /\ \E r \in {"answer", "error"} : Answer(t, r)
  /\ UNCHANGED <<kind, slot, alive, lock, key, left, using, closing, macVars>>

Return(t) ==
  /\ pc[t] = "returned"
  /\ Goto(t, "idle") /\ result' = [result EXCEPT ![t] = "none"]
  /\ key' = [key EXCEPT ![t] = "map"]
  /\ UNCHANGED <<kind, slot, alive, lock, left, using, closing, arrays, macVars>>

------------------------------------------------------------------------------

BeginClose(t) ==
  /\ kind # "macos" /\ pc[t] = "idle" /\ left[t] > 0
  /\ kind \in ClosesAnytime \/ \A u \in Threads : pc[u] \in {"idle", "returned"}
  /\ left' = [left EXCEPT ![t] = @ - 1]
  /\ Goto(t, IF kind = "winhttp" THEN "check" ELSE "swap")
  /\ UNCHANGED <<kind, slot, alive, lock, key, using, closing, arrays, result, macVars>>

\* The handles leave the map, under the lock; they are freed outside it.
Swap(t) ==
  /\ pc[t] = "swap" /\ lock = NoOne
  /\ closing' = [closing EXCEPT ![t] = Range(slot) \ {0}]
  /\ slot' = [k \in DOMAIN slot |-> 0]
  /\ Goto(t, "free")
  /\ UNCHANGED <<kind, alive, lock, key, left, using, arrays, result, macVars>>

\* WinHTTP's session is freed, and only then leaves the map: no lock.
CheckSession(t) ==
  /\ pc[t] = "check"
  /\ closing' = [closing EXCEPT ![t] = Range(slot) \ {0}]
  /\ Goto(t, "free")
  /\ UNCHANGED <<kind, slot, alive, lock, key, left, using, arrays, result, macVars>>

Free(t) ==
  /\ pc[t] = "free" /\ closing[t] # {}
  /\ \E h \in closing[t] :
       /\ alive' = alive \ {h}
       /\ closing' = [closing EXCEPT ![t] = @ \ {h}]
  /\ UNCHANGED <<kind, slot, lock, pc, key, left, using, arrays, result, macVars>>

Closed(t) ==
  /\ pc[t] = "free" /\ closing[t] = {}
  /\ slot' = IF kind = "winhttp" THEN [k \in DOMAIN slot |-> 0] ELSE slot
  /\ Answer(t, "closed")
  /\ UNCHANGED <<kind, alive, lock, key, left, using, closing, arrays, macVars>>

------------------------------------------------------------------------------

Advance(t) ==
  \/ Peek(t) \/ Lock(t) \/ UseMade(t) \/ Make(t) \/ MakeFails(t) \/ Fetch(t)
  \/ CallEnds(t) \/ Retry(t) \/ RetryEnds(t) \/ ReadProxies(t)
  \/ Swap(t) \/ CheckSession(t) \/ Free(t) \/ Closed(t) \/ Return(t)

MacLookup == kind = "macos" /\ MacNext /\ UNCHANGED handleVars

Next ==
  \/ \E t \in Threads : BeginLookup(t) \/ BeginClose(t) \/ Advance(t)
  \/ MacLookup

Spec == Init /\ [][Next]_vars

\* Threads and the macOS lookup go on; a run of the loop passes in its time.
FairSpec ==
  /\ Spec
  /\ \A t \in Threads : WF_vars(Advance(t))
  /\ WF_vars(mpc # "idle" /\ MacLookup)

------------------------------------------------------------------------------

\* No call into a library is under way with a handle that was freed, no handle
\* is freed twice, and a lookup that found a PAC asks it: a close() between
\* the steps of a lookup finds the lock taken (LibProxyMap), and the list a
\* CFNetwork callback was given outlives the source that brought it.
UsesLiveHandles ==
  /\ \A t \in Threads :
       /\ using[t] # 0 => using[t] \in alive
       /\ closing[t] \subseteq alive
       /\ result[t] # "TypeError"
  /\ \A t, u \in Threads : t # u => closing[t] \cap closing[u] = {}
  /\ mpc = "array" => owned["array"] > 0

\* Nothing is lost: a handle is in the map, about to be freed by a close(), or
\* gone, whatever loads and failures overlap; and between lookups nothing is
\* owned, though a lookup may end after any of its calls.
NothingLeaks ==
  /\ alive \subseteq Range(slot) \cup UNION Range(closing)
  /\ \A t \in arrays : pc[t] = "array"
  /\ mpc \in {"idle", "returned"} => \A o \in Objects : owned[o] = 0

\* Every lookup and every close() returns: a load that raises gives the lock
\* back, and the run loop is left at the deadline when no callback comes.
EveryLookupReturns ==
  /\ \A t \in Threads : pc[t] # "idle" ~> pc[t] = "idle"
  /\ mpc # "idle" ~> mpc = "idle"

=============================================================================
