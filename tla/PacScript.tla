----------------------------- MODULE PacScript -----------------------------
(***************************************************************************)
(* pac/script.py and pac/_child.py: one PacScript shared between threads,  *)
(* and the helper processes it runs the script in, one after the other.    *)
(*                                                                         *)
(* A helper is named by its number in order of creation.  Messages travel  *)
(* parent -> requests -> helper -> replies, the last hop being the reader  *)
(* thread's: a reply still in the pipe is one the helper has yet to write. *)
(* A request is "start" (the helper importing its engine), "init" (load    *)
(* the script) or the URL of a call; a reply is <<status, request>>; the   *)
(* reader ends the queue with Eof (None in the code).                      *)
(***************************************************************************)
EXTENDS Integers, Sequences

CONSTANTS
    Thread,        \* threads sharing the PacScript
    Url,           \* what they ask about
    Cooldown,      \* _COOLDOWN, in clock units
    MaxCalls,      \* bound: calls begun in all
    MaxTime,       \* bound: the clock stops here
    MayCrash,      \* may a helper die by itself?
    MayClose,      \* is close() called?
    MayInterrupt,  \* may an exception (a signal handler's) cut a wait short?
    NoThread       \* no owner, for a lock

ASSUME CooldownAssumption == Cooldown \in Nat \ {0}
ASSUME BoundsAssumption == MaxCalls \in Nat /\ MaxTime \in Nat
ASSUME NamesAssumption == NoThread \notin Thread /\ Url \cap {"start", "init"} = {}

VARIABLES
    runner,       \* PacScript._runner: a helper, or 0 when no engine is installed
    failed,       \* PacScript._failed is set
    retryAt,      \* PacScript._retry_at
    restartLock,  \* PacScript._restart_lock: its owner
    spawned,      \* helpers created so far
    helper,       \* [Helper -> "unborn", "running" or "dead"]
    pipes,        \* [Helper -> state of the parent's ends of its pipes]
    requests,     \* [Helper -> requests in the stdin pipe]
    replies,      \* [Helper -> _Runner._replies]
    ended,        \* [Helper -> its reader thread is done]
    lock,         \* [Helper -> owner of _Runner._lock]
    now,          \* time.monotonic()
    pc,           \* [Thread -> where the thread is]
    url,          \* [Thread -> the URL of its call]
    mine,         \* [Thread -> its local variable runner, or the helper it starts]
    outcome,      \* [Thread -> how its last operation ended]
    calls,        \* calls begun so far
    overrunAt,    \* history: when a call or a load last overran
    closed        \* history: close() returned and no call began since

scriptVars == <<runner, failed, retryAt, restartLock>>
helperVars == <<spawned, helper, pipes, requests, replies, ended, lock>>
threadVars == <<pc, url, mine, outcome>>
histVars == <<calls, overrunAt, closed>>
vars == <<scriptVars, helperVars, threadVars, histVars, now>>

Helper == 1 .. (MaxCalls + 1)    \* each call starts at most one helper

Request == {"start", "init"} \cup Url
Reply == {"ok", "err"} \X Request
Eof == <<"eof", "start">>

Outcome == {"none", "PACError", "OSError", "interrupted", "DIRECT", "closed",
             "closeError"} \X Url
             \cup {"answer"} \X Request

PC == {"idle", "restart", "starting", "init", "loading", "loadOverrun", "publish", "clear",
       "take", "send", "wait", "overrun", "cooldown", "closing"}

TypeOK ==
    /\ runner \in Helper \cup {0} /\ failed \in BOOLEAN /\ retryAt \in Nat
    /\ restartLock \in Thread \cup {NoThread} /\ spawned \in 0 .. MaxCalls + 1
    /\ helper \in [Helper -> {"unborn", "running", "dead"}]
    /\ pipes \in [Helper -> {"open", "unflushed", "halfclosed", "closed"}]
    /\ requests \in [Helper -> Seq(Request)]
    /\ replies \in [Helper -> Seq(Reply \cup {Eof})]
    /\ ended \in [Helper -> BOOLEAN] /\ lock \in [Helper -> Thread \cup {NoThread}]
    /\ now \in Nat /\ calls \in Nat /\ overrunAt \in Int /\ closed \in BOOLEAN
    /\ pc \in [Thread -> PC]
    /\ url \in [Thread -> Url] /\ mine \in [Thread -> Helper \cup {0}]
    /\ outcome \in [Thread -> Outcome]
    /\ \A t \in Thread :
        /\ pc[t] # "idle" => runner # 0
        /\ pc[t] \notin {"idle", "restart", "take"} => mine[t] \in Helper

(* PacScript.__init__ has returned: with a loaded script, or without engine. *)
Init ==
    /\ runner \in {0, 1} /\ failed = FALSE /\ retryAt = 0 /\ restartLock = NoThread
    /\ spawned = runner
    /\ helper = [h \in Helper |-> IF h <= runner THEN "running" ELSE "unborn"]
    /\ pipes = [h \in Helper |-> "open"]
    /\ requests = [h \in Helper |-> << >>]
    /\ replies = [h \in Helper |-> << >>]
    /\ ended = [h \in Helper |-> FALSE] /\ lock = [h \in Helper |-> NoThread]
    /\ now = 0 /\ calls = 0 /\ overrunAt = -Cooldown /\ closed = FALSE
    /\ pc = [t \in Thread |-> "idle"] /\ url \in [Thread -> Url]
    /\ mine = [t \in Thread |-> 0] /\ outcome = [t \in Thread |-> <<"none", url[t]>>]

-----------------------------------------------------------------------------
(* _Runner.close: end the process, close both pipes.  stdin.close() flushes: *)
(* with a frame a failed write left in its buffer it raises, so stdout stays *)
(* open.                                                                     *)
Closed(p) == CASE p = "open" -> "closed"
               [] p = "unflushed" -> "halfclosed"
               [] OTHER -> "closed"

KillHelper(h) == helper' = [helper EXCEPT ![h] = "dead"]
                 /\ requests' = [requests EXCEPT ![h] = << >>]

CloseRunner(h) == KillHelper(h) /\ pipes' = [pipes EXCEPT ![h] = Closed(@)]

CloseRaises(h) == pipes[h] = "unflushed"

Goto(t, place) == pc' = [pc EXCEPT ![t] = place]

End(t, result) == Goto(t, "idle") /\ outcome' = [outcome EXCEPT ![t] = result]

(* write_frame to a helper's stdin: a dead helper's pipe keeps the frame in  *)
(* the buffer (EPIPE), a closed one refuses it (ValueError).                 *)
CanWrite(h) == helper[h] = "running" /\ pipes[h] = "open"
FailWrite(h) == pipes' = [pipes EXCEPT ![h] = IF @ = "open" THEN "unflushed" ELSE @]

-----------------------------------------------------------------------------
(* find_proxy_for_url, and _restart when the script has failed. *)

Call(t) ==
    /\ pc[t] = "idle" /\ calls < MaxCalls
    /\ \E u \in Url :
        /\ url' = [url EXCEPT ![t] = u]
        /\ outcome' = [outcome EXCEPT ![t] = <<IF runner = 0 THEN "DIRECT" ELSE "none", u>>]
        /\ Goto(t, IF runner = 0 THEN "idle" ELSE IF failed THEN "restart" ELSE "take")
    /\ calls' = calls + 1 /\ closed' = FALSE
    /\ UNCHANGED <<scriptVars, helperVars, mine, overrunAt, now>>

(* _restart, another thread having restarted the script *)
AlreadyRestarted(t) ==
    /\ pc[t] = "restart" /\ restartLock = NoThread /\ ~failed
    /\ Goto(t, "take")
    /\ UNCHANGED <<scriptVars, helperVars, url, mine, outcome, histVars, now>>

CooledDown == now >= retryAt

CoolingDown(t) ==
    /\ pc[t] = "restart" /\ restartLock = NoThread /\ failed /\ ~CooledDown
    /\ End(t, <<"PACError", url[t]>>)
    /\ UNCHANGED <<scriptVars, helperVars, url, mine, histVars, now>>

(* _Runner.__init__: the process and its reader thread exist from here on *)
Spawn(t) ==
    /\ pc[t] = "restart" /\ restartLock = NoThread /\ failed /\ CooledDown
    /\ spawned <= MaxCalls   \* never in the way: each call spawns once at most
    /\ restartLock' = t
    /\ spawned' = spawned + 1
    /\ mine' = [mine EXCEPT ![t] = spawned']
    /\ helper' = [helper EXCEPT ![spawned'] = "running"]
    /\ requests' = [requests EXCEPT ![spawned'] = <<"start">>]
    /\ Goto(t, "starting")
    /\ UNCHANGED <<runner, failed, retryAt, pipes, replies, ended, lock, url, outcome,
                   histVars, now>>

(* _wait_reply's queue.get: the head of the queue, or Empty at the deadline *)
Reads(t) == replies[mine[t]] # << >>
HeadOf(t) == Head(replies[mine[t]])
PopReply(t) == replies' = [replies EXCEPT ![mine[t]] = Tail(@)]

Started(t) ==
    /\ pc[t] = "starting" /\ Reads(t) /\ HeadOf(t)[1] = "ok"
    /\ PopReply(t) /\ Goto(t, "init")
    /\ UNCHANGED <<scriptVars, spawned, helper, pipes, requests, ended, lock, url, mine,
                   outcome, histVars, now>>

SendInit(t) ==
    /\ pc[t] = "init" /\ CanWrite(mine[t])
    /\ requests' = [requests EXCEPT ![mine[t]] = Append(@, "init")]
    /\ Goto(t, "loading")
    /\ UNCHANGED <<scriptVars, spawned, helper, pipes, replies, ended, lock, url, mine,
                   outcome, histVars, now>>

(* the write fails, and so does the close() that follows it, with OSError *)
InitWriteFails(t) ==
    /\ pc[t] = "init" /\ ~CanWrite(mine[t])
    /\ KillHelper(mine[t]) /\ pipes' = [pipes EXCEPT ![mine[t]] = "halfclosed"]
    /\ restartLock' = NoThread
    /\ End(t, <<"OSError", url[t]>>)
    /\ UNCHANGED <<runner, failed, retryAt, spawned, replies, ended, lock, url, mine,
                   histVars, now>>

(* the helper exits, or the script raises while it loads *)
LoadFails(t) ==
    /\ pc[t] \in {"starting", "loading"} /\ Reads(t) /\ HeadOf(t)[1] # "ok"
    /\ PopReply(t) /\ CloseRunner(mine[t])
    /\ restartLock' = NoThread
    /\ End(t, <<"PACError", url[t]>>)
    /\ UNCHANGED <<runner, failed, retryAt, spawned, ended, lock, url, mine, histVars, now>>

(* Mutant: __init__ does not close a helper that overran while loading. *)
LoadTimeoutLeaks(t) ==
    /\ pc[t] \in {"starting", "loading"} /\ ~Reads(t)
    /\ Goto(t, "loadOverrun") /\ overrunAt' = now
    /\ UNCHANGED <<scriptVars, helperVars, url, mine, outcome, calls, closed, now>>

LoadTimeout(t) ==
    /\ pc[t] \in {"starting", "loading"} /\ ~Reads(t)
    /\ CloseRunner(mine[t]) /\ Goto(t, "loadOverrun")
    /\ overrunAt' = now
    /\ UNCHANGED <<scriptVars, spawned, replies, ended, lock, url, mine, outcome, calls,
                   closed, now>>

(* Mutant: an overrun while loading starts no cool-down. *)
LoadOverrunNoCooldown(t) ==
    /\ pc[t] = "loadOverrun"
    /\ restartLock' = NoThread /\ End(t, <<"PACError", url[t]>>)
    /\ UNCHANGED <<runner, failed, retryAt, helperVars, url, mine, histVars, now>>

LoadOverrun(t) ==
    /\ pc[t] = "loadOverrun"
    /\ retryAt' = now + Cooldown /\ restartLock' = NoThread
    /\ End(t, <<"PACError", url[t]>>)
    /\ UNCHANGED <<runner, failed, helperVars, url, mine, histVars, now>>

(* any other exception while loading: the new helper is ended all the same *)
InterruptLoad(t) ==
    /\ MayInterrupt /\ pc[t] \in {"starting", "loading"}
    /\ CloseRunner(mine[t])
    /\ restartLock' = NoThread
    /\ End(t, <<"interrupted", url[t]>>)
    /\ UNCHANGED <<runner, failed, retryAt, spawned, replies, ended, lock, url, mine,
                   histVars, now>>

Loaded(t) ==
    /\ pc[t] = "loading" /\ Reads(t) /\ HeadOf(t)[1] = "ok"
    /\ PopReply(t) /\ Goto(t, "publish")
    /\ UNCHANGED <<scriptVars, spawned, helper, pipes, requests, ended, lock, url, mine,
                   outcome, histVars, now>>

Publish(t) ==
    /\ pc[t] = "publish"
    /\ runner' = mine[t] /\ Goto(t, "clear")
    /\ UNCHANGED <<failed, retryAt, restartLock, helperVars, url, mine, outcome, histVars, now>>

(* Mutant: the mark is not reset. *)
ClearFailedForgets(t) ==
    /\ pc[t] = "clear"
    /\ restartLock' = NoThread /\ Goto(t, "take")
    /\ UNCHANGED <<runner, failed, retryAt, helperVars, url, mine, outcome, histVars, now>>

ClearFailed(t) ==
    /\ pc[t] = "clear"
    /\ failed' = FALSE /\ restartLock' = NoThread /\ Goto(t, "take")
    /\ UNCHANGED <<runner, retryAt, helperVars, url, mine, outcome, histVars, now>>

TakeRunner(t) ==
    /\ pc[t] = "take"
    /\ mine' = [mine EXCEPT ![t] = runner] /\ Goto(t, "send")
    /\ UNCHANGED <<scriptVars, helperVars, url, outcome, histVars, now>>

-----------------------------------------------------------------------------
(* Mutant: the request is sent without the runner's lock. *)
SendUnlocked(t) ==
    /\ pc[t] = "send" /\ CanWrite(mine[t])
    /\ requests' = [requests EXCEPT ![mine[t]] = Append(@, url[t])]
    /\ Goto(t, "wait")
    /\ UNCHANGED <<scriptVars, spawned, helper, pipes, replies, ended, lock, url, mine, outcome,
                   histVars, now>>

(* _Runner._request under the runner's lock, then what the caller does. *)

Send(t) ==
    /\ pc[t] = "send" /\ lock[mine[t]] = NoThread /\ CanWrite(mine[t])
    /\ lock' = [lock EXCEPT ![mine[t]] = t]
    /\ requests' = [requests EXCEPT ![mine[t]] = Append(@, url[t])]
    /\ Goto(t, "wait")
    /\ UNCHANGED <<scriptVars, spawned, ended, helper, pipes, replies, url, mine, outcome,
                   histVars, now>>

(* Mutant: a helper that is gone counts as DIRECT. *)
SendFailsDirect(t) ==
    /\ pc[t] = "send" /\ lock[mine[t]] = NoThread /\ ~CanWrite(mine[t])
    /\ FailWrite(mine[t])
    /\ End(t, <<"DIRECT", url[t]>>)
    /\ UNCHANGED <<scriptVars, spawned, helper, requests, replies, ended, lock, url, mine,
                   histVars, now>>

SendFails(t) ==
    /\ pc[t] = "send" /\ lock[mine[t]] = NoThread /\ ~CanWrite(mine[t])
    /\ FailWrite(mine[t])
    /\ End(t, <<"PACError", url[t]>>)
    /\ UNCHANGED <<scriptVars, spawned, helper, requests, replies, ended, lock, url, mine,
                   histVars, now>>

Unlock(t) == lock' = [lock EXCEPT ![mine[t]] = NoThread]

Receive(t) ==
    /\ pc[t] = "wait" /\ Reads(t)
    /\ PopReply(t) /\ Unlock(t)
    /\ End(t, IF HeadOf(t)[1] = "ok" THEN <<"answer", HeadOf(t)[2]>> ELSE <<"PACError", url[t]>>)
    /\ UNCHANGED <<scriptVars, spawned, ended, helper, pipes, requests, url, mine, histVars,
                   now>>

(* Mutant: an overrun leaves the helper and its pipes as they are. *)
TimeoutKeepsHelper(t) ==
    /\ pc[t] = "wait" /\ ~Reads(t)
    /\ Unlock(t) /\ Goto(t, "overrun") /\ overrunAt' = now
    /\ UNCHANGED <<scriptVars, spawned, helper, pipes, requests, replies, ended, url, mine,
                   outcome, calls, closed, now>>

(* Mutant: an overrun leaves the runner locked. *)
TimeoutKeepsLock(t) ==
    /\ pc[t] = "wait" /\ ~Reads(t)
    /\ CloseRunner(mine[t]) /\ Goto(t, "overrun") /\ overrunAt' = now
    /\ UNCHANGED <<scriptVars, spawned, replies, ended, lock, url, mine, outcome, calls, closed,
                   now>>

Timeout(t) ==
    /\ pc[t] = "wait" /\ ~Reads(t)
    /\ CloseRunner(mine[t]) /\ Unlock(t) /\ Goto(t, "overrun")
    /\ overrunAt' = now
    /\ UNCHANGED <<scriptVars, spawned, ended, replies, url, mine, outcome, calls, closed, now>>

(* the lock is released, the unread reply stays on its way *)
InterruptCall(t) ==
    /\ MayInterrupt /\ pc[t] = "wait"
    /\ Unlock(t) /\ End(t, <<"interrupted", url[t]>>)
    /\ UNCHANGED <<scriptVars, spawned, ended, helper, pipes, requests, replies, url, mine,
                   histVars, now>>

SetFailed(t) ==
    /\ pc[t] = "overrun"
    /\ failed' = TRUE /\ Goto(t, "cooldown")
    /\ UNCHANGED <<runner, retryAt, restartLock, helperVars, url, mine, outcome, histVars, now>>

(* Mutant: the sign of the cool-down is wrong. *)
SetRetryAtBackwards(t) ==
    /\ pc[t] = "cooldown"
    /\ retryAt' = now - Cooldown
    /\ End(t, <<"PACError", url[t]>>)
    /\ UNCHANGED <<runner, failed, restartLock, helperVars, url, mine, histVars, now>>

(* with the second runner.close(), which finds the runner closed *)
SetRetryAt(t) ==
    /\ pc[t] = "cooldown"
    /\ retryAt' = now + Cooldown
    /\ End(t, <<"PACError", url[t]>>)
    /\ UNCHANGED <<runner, failed, restartLock, helperVars, url, mine, histVars, now>>

-----------------------------------------------------------------------------
(* PacScript.close, by any thread at any time. *)

BeginClose(t) ==
    /\ MayClose /\ pc[t] = "idle" /\ runner # 0 /\ ~closed
    /\ mine' = [mine EXCEPT ![t] = runner] /\ Goto(t, "closing")
    /\ UNCHANGED <<scriptVars, helperVars, url, outcome, histVars, now>>

EndClose(t) ==
    /\ pc[t] = "closing"
    /\ CloseRunner(mine[t])
    /\ End(t, <<IF CloseRaises(mine[t]) THEN "closeError" ELSE "closed", url[t]>>)
    /\ closed' = TRUE
    /\ UNCHANGED <<scriptVars, spawned, replies, ended, lock, url, mine, calls, overrunAt, now>>

-----------------------------------------------------------------------------
(* _child.main in the helper, and _Runner._read in its reader thread.  A    *)
(* script that hangs is a helper that takes no step.                        *)

HelperReplies(h) ==
    /\ helper[h] = "running" /\ requests[h] # << >>
    /\ \E status \in {"ok", "err"} :
        /\ Head(requests[h]) = "start" => status = "ok"
        /\ replies' = [replies EXCEPT ![h] = Append(@, <<status, Head(requests[h])>>)]
    /\ requests' = [requests EXCEPT ![h] = Tail(@)]
    /\ UNCHANGED <<scriptVars, spawned, helper, pipes, ended, lock, threadVars, histVars, now>>

HelperCrashes(h) ==
    /\ MayCrash /\ helper[h] = "running"
    /\ KillHelper(h)
    /\ UNCHANGED <<scriptVars, spawned, pipes, replies, ended, lock, threadVars, histVars, now>>

ReaderEnds(h) ==
    /\ helper[h] = "dead" /\ ~ended[h]
    /\ replies' = [replies EXCEPT ![h] = Append(@, Eof)]
    /\ ended' = [ended EXCEPT ![h] = TRUE]
    /\ UNCHANGED <<scriptVars, spawned, helper, pipes, requests, lock, threadVars,
                   histVars, now>>

Tick ==
    /\ now < MaxTime /\ now' = now + 1
    /\ UNCHANGED <<scriptVars, helperVars, threadVars, histVars>>

-----------------------------------------------------------------------------
Begin(t) == Call(t) \/ BeginClose(t)

Disturb(t) == InterruptLoad(t) \/ InterruptCall(t)

(* what a thread inside an operation does next, by itself *)
Advance(t) ==
    \/ AlreadyRestarted(t) \/ CoolingDown(t) \/ Spawn(t)
    \/ Started(t) \/ SendInit(t) \/ InitWriteFails(t) \/ LoadFails(t) \/ LoadTimeout(t)
    \/ LoadOverrun(t) \/ Loaded(t) \/ Publish(t) \/ ClearFailed(t)
    \/ TakeRunner(t) \/ Send(t) \/ SendFails(t) \/ Receive(t) \/ Timeout(t)
    \/ SetFailed(t) \/ SetRetryAt(t) \/ EndClose(t)

Helpers(h) == HelperReplies(h) \/ HelperCrashes(h) \/ ReaderEnds(h)

Next ==
    \/ \E t \in Thread : Begin(t) \/ Disturb(t) \/ Advance(t)
    \/ \E h \in Helper : Helpers(h)
    \/ Tick

Spec == Init /\ [][Next]_vars

(* The scheduler runs every thread that can run, and a queue.get has a       *)
(* deadline.  Nothing is assumed of the helper, the reader or the clock.     *)
FairSpec == Spec /\ \A t \in Thread : WF_vars(Advance(t))

-----------------------------------------------------------------------------
(* A call that answers was given the script's answer for its own URL, never  *)
(* a late reply to an earlier call (script.py:100-119).                      *)
OwnAnswer ==
    \A t \in Thread : pc[t] = "idle" /\ outcome[t][1] = "answer" => outcome[t][2] = url[t]

(* However overruns, restarts and close() interleave, at most one helper     *)
(* process of a script is alive (script.py:221-238).                         *)
OneHelper == \A g, h \in Helper : helper[g] = "running" /\ helper[h] = "running" => g = h

(* Calls are serialised (class docstring), across helpers as well as on one. *)
OneCaller == \A s, t \in Thread : pc[s] = "wait" /\ pc[t] = "wait" => s = t

(* A script marked failed has no live helper, except one a restart has just  *)
(* published and is about to clear the mark for (script.py:221-238).         *)
FailedIsEnded ==
    failed /\ runner # 0 /\ helper[runner] = "running" => \E t \in Thread : pc[t] = "clear"

(* Without crashes, close() and interrupts: a dead helper is always marked   *)
(* failed, or its overrun is just being handled, so a later call restarts    *)
(* it; the script never stays unusable (docstring: "started afresh").        *)
StaysUsable ==
    runner # 0 /\ helper[runner] = "dead" /\ ~failed => \E t \in Thread : pc[t] = "overrun"

(* No helper is started within Cooldown of an overrun, unless a thread is    *)
(* between marking the script failed and setting the end of the cool-down.   *)
CooldownOutsideTheGap ==
    [][spawned' # spawned =>
          now >= overrunAt + Cooldown \/ \E t \in Thread : pc[t] = "cooldown"]_vars

(* The docstring's claim: for Cooldown after an overrun every call raises at *)
(* once, none starts a helper (script.py:36-38, 146-148).                    *)
CooldownHonoured == [][spawned' # spawned => now >= overrunAt + Cooldown]_vars

(* The docstring's claim: close() releases the engine.  Once it has returned *)
(* and the calls it raced with have ended, no helper is left alive.          *)
CloseReleases ==
    closed /\ (\A t \in Thread : pc[t] = "idle") => \A h \in Helper : helper[h] # "running"

(* Every call and every close returns, whatever the script does.             *)
EveryCallReturns == \A t \in Thread : pc[t] # "idle" ~> pc[t] = "idle"

(* PacScript implements PacService: see there for what it promises.          *)
Promise(t) ==
    CASE pc[t] \in {"idle", "closing"} -> "idle"
      [] pc[t] = "wait" -> "running"
      [] pc[t] \in {"overrun", "cooldown"} -> "lost"
      [] OTHER -> "asked"

Service == INSTANCE PacService WITH
    call <- [t \in Thread |-> Promise(t)],
    result <- [t \in Thread |->
                 IF outcome[t][1] \in {"closed", "closeError"}
                 THEN <<"none", url[t]>> ELSE outcome[t]],
    engine <- runner # 0

ServiceSpec == Service!Spec
=============================================================================
