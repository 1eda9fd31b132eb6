-------------------------- MODULE PacScriptProofs --------------------------
(***************************************************************************)
(* What PacScript keeps for any number of threads, URLs, calls and         *)
(* helpers.  The argument has three layers, each using those before it:    *)
(* TypeOK; Control, who may be where while which helper lives; and         *)
(* Queues, what is on its way through the pipes of a helper.               *)
(***************************************************************************)
EXTENDS PacScript, PacFunctions, TLAPS

Loading == {"starting", "init", "loading", "loadOverrun", "publish"}
Restarting == Loading \cup {"clear"}
Clearing == \E t \in Thread : pc[t] = "clear"

(* The restart lock is held exactly while a thread restarts, the script      *)
(* being marked failed throughout; the helper it loads is the newest one and *)
(* not yet the published one.                                                *)
RestartInv ==
    \A t \in Thread :
        /\ pc[t] \in Restarting <=> restartLock = t
        /\ pc[t] \in Restarting => failed
        /\ pc[t] \in Loading => mine[t] = spawned /\ runner < spawned
        /\ pc[t] = "loadOverrun" => helper[spawned] = "dead"
        /\ pc[t] = "clear" => mine[t] = runner

(* A live helper is the published one, or the one being loaded; a script     *)
(* marked failed has no live published helper unless the mark is about to go.*)
AliveInv ==
    /\ runner <= spawned
    /\ \A h \in Helper : helper[h] = "running" =>
          \/ h = runner
          \/ h = spawned /\ \E t \in Thread : pc[t] \in Loading
    /\ failed /\ runner # 0 /\ helper[runner] = "running" => Clearing

(* A thread that waits, or has overrun, is alone, on the published helper,   *)
(* and the script is not marked failed, or only by a restart about to end.   *)
CallerInv ==
    /\ \A t \in Thread :
        /\ pc[t] \in {"send", "closing"} => mine[t] <= runner
        /\ pc[t] = "wait" => lock[runner] = t
        /\ pc[t] = "overrun" => helper[runner] = "dead"
        /\ pc[t] \in {"wait", "overrun"} => mine[t] = runner /\ (failed => Clearing)
    /\ \A s, t \in Thread :
        pc[s] \in {"wait", "overrun"} /\ pc[t] \in {"wait", "overrun"} => s = t

Control == RestartInv /\ AliveInv /\ CallerInv

-----------------------------------------------------------------------------
(* Helpers are numbered from 1. *)
LEMMA HelperNumbers == \A h \in Helper : h \in Nat /\ h # 0 /\ h <= MaxCalls + 1
BY BoundsAssumption DEF Helper

(* The parts a step is made of keep the types of what they change. *)
LEMMA OutcomeKinds ==
    ASSUME NEW u \in Url
    PROVE  /\ \A kind \in {"none", "PACError", "OSError", "interrupted", "DIRECT", "closed",
                            "closeError"} : <<kind, u>> \in Outcome
           /\ \A r \in Request : <<"answer", r>> \in Outcome
BY DEF Outcome

(* A call that ends is idle with an outcome. *)
LEMMA EndTypes ==
    ASSUME TypeOK, NEW t \in Thread, NEW r \in Outcome, End(t, r)
    PROVE  pc' \in [Thread -> PC] /\ outcome' \in [Thread -> Outcome]
BY DEF TypeOK, End, Goto, PC

(* A pipe with one more request holds requests. *)
LEMMA PutTypes ==
    ASSUME TypeOK, NEW h \in Helper, NEW r \in Request,
           requests' = [requests EXCEPT ![h] = Append(@, r)]
    PROVE  requests' \in [Helper -> Seq(Request)]
<1>1. Append(requests[h], r) \in Seq(Request)
  BY DEF TypeOK
<1>2. QED
  BY <1>1 DEF TypeOK

(* A pipe with one reply less holds replies. *)
LEMMA PopTypes ==
    ASSUME TypeOK, NEW t \in Thread, mine[t] \in Helper, Reads(t), PopReply(t)
    PROVE  replies' \in [Helper -> Seq(Reply \cup {Eof})]
BY DEF TypeOK, Reads, PopReply

(* What a thread reads is about a request, the end of the pipe too. *)
LEMMA HeadTypes ==
    ASSUME TypeOK, NEW t \in Thread, mine[t] \in Helper, Reads(t)
    PROVE  HeadOf(t)[2] \in Request
<1>1. HeadOf(t) \in Reply \cup {Eof}
  BY DEF TypeOK, Reads, HeadOf
<1>2. \A r \in Reply \cup {Eof} : r[2] \in Request
  BY DEF Reply, Eof, Request
<1>3. QED
  BY <1>1, <1>2

(* A helper that is killed is dead, with no requests. *)
LEMMA KillTypes ==
    ASSUME TypeOK, NEW h \in Helper, KillHelper(h)
    PROVE  /\ helper' \in [Helper -> {"unborn", "running", "dead"}]
           /\ requests' \in [Helper -> Seq(Request)]
BY DEF TypeOK, KillHelper

(* A runner that is closed has its helper dead and its pipes closed or half closed. *)
LEMMA CloseTypes ==
    ASSUME TypeOK, NEW h \in Helper, CloseRunner(h)
    PROVE  /\ helper' \in [Helper -> {"unborn", "running", "dead"}]
           /\ requests' \in [Helper -> Seq(Request)]
           /\ pipes' \in [Helper -> {"open", "unflushed", "halfclosed", "closed"}]
<1>1. \A p : Closed(p) \in {"closed", "halfclosed"}
  BY DEF Closed
<1>2. QED
  BY <1>1, KillTypes DEF TypeOK, CloseRunner

-----------------------------------------------------------------------------
(* Every variable keeps its type, whatever the threads, the helpers and the  *)
(* clock do: no step takes a message from an empty queue, starts more        *)
(* helpers than there are calls, or uses a helper a thread does not have.    *)
THEOREM TypeInvariant == Spec => []TypeOK
<1>1. Init => TypeOK
  <2>1. \A u \in Url : <<"none", u>> \in Outcome
    BY OutcomeKinds
  <2>2. {0, 1} \subseteq Helper \cup {0} /\ {0, 1} \subseteq 0 .. MaxCalls + 1
    BY BoundsAssumption DEF Helper
  <2> SUFFICES ASSUME Init PROVE TypeOK
    OBVIOUS
  <2>3. /\ runner \in Helper \cup {0} /\ retryAt \in Nat /\ spawned \in 0 .. MaxCalls + 1
        /\ now \in Nat /\ calls \in Nat
    BY <2>2 DEF Init
  <2> overrunAt \in Int
    BY CooldownAssumption DEF Init
  <2>4. /\ requests \in [Helper -> Seq(Request)]
        /\ replies \in [Helper -> Seq(Reply \cup {Eof})]
    BY DEF Init
  <2>5. /\ helper \in [Helper -> {"unborn", "running", "dead"}]
        /\ pipes \in [Helper -> {"open", "unflushed", "halfclosed", "closed"}]
        /\ ended \in [Helper -> BOOLEAN] /\ lock \in [Helper -> Thread \cup {NoThread}]
    BY DEF Init
  <2>6. /\ pc \in [Thread -> PC] /\ url \in [Thread -> Url]
        /\ mine \in [Thread -> Helper \cup {0}]
        /\ outcome \in [Thread -> Outcome]
    BY <2>1 DEF Init, PC
  <2>7. QED
    BY <2>3, <2>4, <2>5, <2>6 DEF Init, TypeOK
<1>2. TypeOK /\ [Next]_vars => TypeOK'
  <2> SUFFICES ASSUME TypeOK, [Next]_vars PROVE TypeOK'
    OBVIOUS
  <2> USE DEF scriptVars, helperVars, threadVars, histVars
  <2>1. CASE UNCHANGED vars
    BY <2>1 DEF TypeOK, vars
  <2>2. ASSUME NEW t \in Thread, Call(t) PROVE TypeOK'
    <3>1. PICK u \in Url : /\ url' = [url EXCEPT ![t] = u]
                           /\ outcome' = [outcome EXCEPT ![t] =
                                <<IF runner = 0 THEN "DIRECT" ELSE "none", u>>]
      BY <2>2 DEF Call
    <3>2. outcome' \in [Thread -> Outcome]
      BY <3>1, OutcomeKinds DEF TypeOK
    <3>3. PICK place \in {"idle", "restart", "take"} :
             Goto(t, place) /\ (place # "idle" => runner # 0)
      BY <2>2 DEF Call
    <3>4. pc' \in [Thread -> PC]
      BY <3>3 DEF TypeOK, PC, Goto
    <3>5. url' \in [Thread -> Url] /\ calls' \in Nat /\ closed' = FALSE
      BY <2>2, <3>1 DEF TypeOK, Call
    <3>6. UNCHANGED <<scriptVars, helperVars, mine, overrunAt, now>>
      BY <2>2 DEF Call
    <3>7. \A s \in Thread :
            /\ pc'[s] # "idle" => runner' # 0
            /\ pc'[s] \notin {"idle", "restart", "take"} => mine'[s] \in Helper
      BY <3>3, <3>6 DEF TypeOK, Goto
    <3>8. QED
      BY <3>2, <3>4, <3>5, <3>6, <3>7 DEF TypeOK
  <2>3. ASSUME NEW t \in Thread, BeginClose(t) PROVE TypeOK'
    BY <2>3 DEF TypeOK, PC, Goto, BeginClose
  <2>4. ASSUME NEW t \in Thread, InterruptLoad(t) PROVE TypeOK'
    <3>1. <<"interrupted", url[t]>> \in Outcome
      BY OutcomeKinds DEF TypeOK
    <3>2. pc' \in [Thread -> PC] /\ outcome' \in [Thread -> Outcome] /\ pc'[t] = "idle"
      BY <2>4, <3>1, EndTypes DEF TypeOK, InterruptLoad, End, Goto
    <3>3. QED
      BY <2>4, <3>2, CloseTypes DEF TypeOK, InterruptLoad, End, Goto
  <2>5. ASSUME NEW t \in Thread, InterruptCall(t) PROVE TypeOK'
    <3>1. <<"interrupted", url[t]>> \in Outcome
      BY OutcomeKinds DEF TypeOK
    <3>2. pc' \in [Thread -> PC] /\ outcome' \in [Thread -> Outcome] /\ pc'[t] = "idle"
      BY <2>5, <3>1, EndTypes DEF TypeOK, InterruptCall, End, Goto
    <3>3. QED
      BY <2>5, <3>2 DEF TypeOK, InterruptCall, End, Goto, Unlock
  <2>6. ASSUME NEW t \in Thread, AlreadyRestarted(t) PROVE TypeOK'
    BY <2>6 DEF TypeOK, PC, Goto, AlreadyRestarted
  <2>7. ASSUME NEW t \in Thread, CoolingDown(t) PROVE TypeOK'
    <3>1. <<"PACError", url[t]>> \in Outcome
      BY OutcomeKinds DEF TypeOK
    <3>2. pc' \in [Thread -> PC] /\ outcome' \in [Thread -> Outcome] /\ pc'[t] = "idle"
      BY <2>7, <3>1, EndTypes DEF TypeOK, CoolingDown, End, Goto
    <3>3. QED
      BY <2>7, <3>2 DEF TypeOK, CoolingDown, End, Goto
  <2>8. ASSUME NEW t \in Thread, Spawn(t) PROVE TypeOK'
    <3>1. spawned' \in Helper /\ spawned' \in 0 .. MaxCalls + 1
      BY <2>8, BoundsAssumption DEF TypeOK, Spawn, Helper
    <3>2. <<"start">> \in Seq(Request)
      BY DEF Request
    <3>3. QED
      BY <2>8, <3>1, <3>2 DEF TypeOK, PC, Spawn, Goto
  <2>9. ASSUME NEW t \in Thread, Started(t) PROVE TypeOK'
    BY <2>9, PopTypes DEF TypeOK, PC, Goto, Started
  <2>10. ASSUME NEW t \in Thread, SendInit(t) PROVE TypeOK'
    <3>1. requests' \in [Helper -> Seq(Request)]
      <4>1. "init" \in Request /\ mine[t] \in Helper
        BY <2>10 DEF TypeOK, Request, SendInit
      <4>2. QED
        BY <2>10, <4>1, PutTypes DEF SendInit
    <3>2. QED
      BY <2>10, <3>1 DEF TypeOK, PC, SendInit, Goto
  <2>11. ASSUME NEW t \in Thread, InitWriteFails(t) PROVE TypeOK'
    <3>1. <<"OSError", url[t]>> \in Outcome
      BY OutcomeKinds DEF TypeOK
    <3>2. pc' \in [Thread -> PC] /\ outcome' \in [Thread -> Outcome] /\ pc'[t] = "idle"
      BY <2>11, <3>1, EndTypes DEF TypeOK, InitWriteFails, End, Goto
    <3>3. QED
      BY <2>11, <3>2, KillTypes DEF TypeOK, InitWriteFails, End, Goto
  <2>12. ASSUME NEW t \in Thread, LoadFails(t) PROVE TypeOK'
    <3>1. <<"PACError", url[t]>> \in Outcome
      BY OutcomeKinds DEF TypeOK
    <3>2. pc' \in [Thread -> PC] /\ outcome' \in [Thread -> Outcome] /\ pc'[t] = "idle"
      BY <2>12, <3>1, EndTypes DEF TypeOK, LoadFails, End, Goto
    <3>3. QED
      BY <2>12, <3>2, CloseTypes, PopTypes DEF TypeOK, LoadFails, End, Goto
  <2>13. ASSUME NEW t \in Thread, LoadTimeout(t) PROVE TypeOK'
    <3>1. mine[t] \in Helper /\ CloseRunner(mine[t])
      BY <2>13 DEF TypeOK, LoadTimeout
    <3> pc' \in [Thread -> PC] /\ overrunAt' \in Int
      BY <2>13 DEF TypeOK, PC, Goto, LoadTimeout
    <3>2. QED
      BY <2>13, <3>1, CloseTypes DEF TypeOK, Goto, LoadTimeout
  <2>14. ASSUME NEW t \in Thread, LoadOverrun(t) PROVE TypeOK'
    <3>1. <<"PACError", url[t]>> \in Outcome
      BY OutcomeKinds DEF TypeOK
    <3>2. pc' \in [Thread -> PC] /\ outcome' \in [Thread -> Outcome] /\ pc'[t] = "idle"
      BY <2>14, <3>1, EndTypes DEF TypeOK, LoadOverrun, End, Goto
    <3>3. QED
      BY <2>14, <3>2, CooldownAssumption DEF TypeOK, LoadOverrun, End, Goto
  <2>15. ASSUME NEW t \in Thread, Loaded(t) PROVE TypeOK'
    BY <2>15, PopTypes DEF TypeOK, PC, Goto, Loaded
  <2>16. ASSUME NEW t \in Thread, Publish(t) PROVE TypeOK'
    <3>1. mine[t] \in Helper /\ mine[t] # 0
      BY <2>16, HelperNumbers DEF TypeOK, Publish
    <3>2. QED
      BY <2>16, <3>1 DEF TypeOK, PC, Goto, Publish
  <2>17. ASSUME NEW t \in Thread, ClearFailed(t) PROVE TypeOK'
    BY <2>17 DEF TypeOK, PC, Goto, ClearFailed
  <2>18. ASSUME NEW t \in Thread, TakeRunner(t) PROVE TypeOK'
    BY <2>18 DEF TypeOK, PC, Goto, TakeRunner
  <2>19. ASSUME NEW t \in Thread, Send(t) PROVE TypeOK'
    <3>1. requests' \in [Helper -> Seq(Request)]
      <4>1. url[t] \in Request /\ mine[t] \in Helper
        BY <2>19 DEF TypeOK, Request, Send
      <4>2. QED
        BY <2>19, <4>1, PutTypes DEF Send
    <3>2. QED
      BY <2>19, <3>1 DEF TypeOK, PC, Send, Goto
  <2>20. ASSUME NEW t \in Thread, SendFails(t) PROVE TypeOK'
    <3>1. <<"PACError", url[t]>> \in Outcome
      BY OutcomeKinds DEF TypeOK
    <3>2. pc' \in [Thread -> PC] /\ outcome' \in [Thread -> Outcome] /\ pc'[t] = "idle"
      BY <2>20, <3>1, EndTypes DEF TypeOK, SendFails, End, Goto
    <3>3. QED
      BY <2>20, <3>2 DEF TypeOK, SendFails, End, Goto, FailWrite
  <2>21. ASSUME NEW t \in Thread, Receive(t) PROVE TypeOK'
    <3>1. HeadOf(t)[2] \in Request /\ replies' \in [Helper -> Seq(Reply \cup {Eof})]
      BY <2>21, HeadTypes, PopTypes DEF TypeOK, Receive
    <3>2. pc' \in [Thread -> PC] /\ outcome' \in [Thread -> Outcome] /\ pc'[t] = "idle"
      BY <2>21, <3>1, OutcomeKinds DEF TypeOK, PC, Receive, End, Goto
    <3>3. QED
      BY <2>21, <3>1, <3>2 DEF TypeOK, Receive, End, Goto, Unlock
  <2>22. ASSUME NEW t \in Thread, Timeout(t) PROVE TypeOK'
    <3>1. mine[t] \in Helper /\ CloseRunner(mine[t])
      BY <2>22 DEF TypeOK, Timeout
    <3> pc' \in [Thread -> PC] /\ overrunAt' \in Int
      BY <2>22 DEF TypeOK, PC, Goto, Timeout
    <3>2. QED
      BY <2>22, <3>1, CloseTypes DEF TypeOK, Goto, Timeout, Unlock
  <2>23. ASSUME NEW t \in Thread, SetFailed(t) PROVE TypeOK'
    BY <2>23 DEF TypeOK, PC, Goto, SetFailed
  <2>24. ASSUME NEW t \in Thread, SetRetryAt(t) PROVE TypeOK'
    <3>1. <<"PACError", url[t]>> \in Outcome
      BY OutcomeKinds DEF TypeOK
    <3>2. pc' \in [Thread -> PC] /\ outcome' \in [Thread -> Outcome] /\ pc'[t] = "idle"
      BY <2>24, <3>1, EndTypes DEF TypeOK, SetRetryAt, End, Goto
    <3>3. QED
      BY <2>24, <3>2, CooldownAssumption DEF TypeOK, SetRetryAt, End, Goto
  <2>25. ASSUME NEW t \in Thread, EndClose(t) PROVE TypeOK'
    <3>1. <<IF CloseRaises(mine[t]) THEN "closeError" ELSE "closed", url[t]>> \in Outcome
      BY OutcomeKinds DEF TypeOK
    <3>2. pc' \in [Thread -> PC] /\ outcome' \in [Thread -> Outcome] /\ pc'[t] = "idle"
      BY <2>25, <3>1, EndTypes DEF TypeOK, EndClose, End, Goto
    <3>3. QED
      BY <2>25, <3>2, CloseTypes DEF TypeOK, EndClose, End, Goto
  <2>26. ASSUME NEW h \in Helper, HelperReplies(h) PROVE TypeOK'
    <3>1. Head(requests[h]) \in Request /\ Tail(requests[h]) \in Seq(Request)
      BY <2>26 DEF TypeOK, HelperReplies
    <3>2. \A status \in {"ok", "err"} : <<status, Head(requests[h])>> \in Reply
      BY <3>1 DEF Reply
    <3>3. PICK reply \in Reply : replies' = [replies EXCEPT ![h] = Append(@, reply)]
      BY <2>26, <3>2 DEF HelperReplies
    <3>4. replies' \in [Helper -> Seq(Reply \cup {Eof})]
      BY <3>3 DEF TypeOK
    <3>5. QED
      BY <2>26, <3>1, <3>4 DEF TypeOK, HelperReplies
  <2>27. ASSUME NEW h \in Helper, HelperCrashes(h) PROVE TypeOK'
    BY <2>27, KillTypes DEF TypeOK, HelperCrashes
  <2>28. ASSUME NEW h \in Helper, ReaderEnds(h) PROVE TypeOK'
    BY <2>28 DEF TypeOK, ReaderEnds
  <2>29. CASE Tick
    BY <2>29 DEF TypeOK, Tick
  <2>30. QED
    BY <2>1, <2>2, <2>3, <2>4, <2>5, <2>6, <2>7, <2>8, <2>9, <2>10, <2>11, <2>12, <2>13,
       <2>14, <2>15, <2>16, <2>17, <2>18, <2>19, <2>20, <2>21, <2>22, <2>23, <2>24,
       <2>25, <2>26, <2>27, <2>28, <2>29
    DEF Next, Begin, Disturb, Advance, Helpers
<1>3. QED
  BY <1>1, <1>2, PTL DEF Spec

-----------------------------------------------------------------------------
(* What the next layers need of the types. *)
Types ==
    /\ pc \in [Thread -> PC] /\ mine \in [Thread -> Helper \cup {0}]
    /\ helper \in [Helper -> {"unborn", "running", "dead"}]
    /\ lock \in [Helper -> Thread \cup {NoThread}] /\ restartLock \in Thread \cup {NoThread}
    /\ runner \in Helper \cup {0} /\ spawned \in Nat /\ failed \in BOOLEAN
    /\ \A h \in Helper : h \in Nat /\ h # 0
    /\ \A t \in Thread :
        /\ pc[t] # "idle" => runner # 0
        /\ pc[t] \notin {"idle", "restart", "take"} => mine[t] \in Helper

(* They follow from the type invariant. *)
LEMMA TypesFollow == TypeOK => Types
BY HelperNumbers DEF TypeOK, Types

(* The restart lock, the mark and the published helper agree on who may run  *)
(* a helper and who may ask one.                                             *)
THEOREM ControlInvariant == Spec => []Control
<1>1. Init => Control
  <2> SUFFICES ASSUME Init PROVE Control
    OBVIOUS
  <2>1. RestartInv
    BY NamesAssumption DEF Init, RestartInv, Restarting, Loading
  <2>2. AliveInv
    BY HelperNumbers DEF Init, AliveInv
  <2>3. CallerInv
    BY DEF Init, CallerInv
  <2>4. QED
    BY <2>1, <2>2, <2>3 DEF Control
<1>2. TypeOK /\ TypeOK' /\ Control /\ [Next]_vars => Control'
  <2> SUFFICES ASSUME Types, Types', Control, [Next]_vars PROVE Control'
    BY TypesFollow, PTL
  <2> USE NamesAssumption DEF Types, Control, RestartInv, AliveInv, CallerInv, Restarting,
            Loading, Clearing, scriptVars, helperVars, threadVars, histVars
  <2>1. CASE UNCHANGED vars
    BY <2>1 DEF vars
  <2>2. ASSUME NEW t \in Thread, Call(t) PROVE Control'
    BY <2>2 DEF Call, Goto
  <2>3. ASSUME NEW t \in Thread, BeginClose(t) PROVE Control'
    BY <2>3 DEF BeginClose, Goto
  <2>4. ASSUME NEW t \in Thread, InterruptLoad(t) PROVE Control'
    BY <2>4 DEF InterruptLoad, End, Goto, CloseRunner, KillHelper
  <2>5. ASSUME NEW t \in Thread, InterruptCall(t) PROVE Control'
    BY <2>5 DEF InterruptCall, End, Goto, Unlock
  <2>6. ASSUME NEW t \in Thread, AlreadyRestarted(t) PROVE Control'
    BY <2>6 DEF AlreadyRestarted, Goto
  <2>7. ASSUME NEW t \in Thread, CoolingDown(t) PROVE Control'
    BY <2>7 DEF CoolingDown, End, Goto
  <2>8. ASSUME NEW t \in Thread, Spawn(t) PROVE Control'
    BY <2>8 DEF Spawn, Goto
  <2>9. ASSUME NEW t \in Thread, Started(t) PROVE Control'
    BY <2>9 DEF Started, Goto
  <2>10. ASSUME NEW t \in Thread, SendInit(t) PROVE Control'
    BY <2>10 DEF SendInit, Goto
  <2>11. ASSUME NEW t \in Thread, InitWriteFails(t) PROVE Control'
    BY <2>11 DEF InitWriteFails, End, Goto, KillHelper
  <2>12. ASSUME NEW t \in Thread, LoadFails(t) PROVE Control'
    BY <2>12 DEF LoadFails, End, Goto, CloseRunner, KillHelper
  <2>13. ASSUME NEW t \in Thread, LoadTimeout(t) PROVE Control'
    BY <2>13 DEF LoadTimeout, Goto, CloseRunner, KillHelper
  <2>14. ASSUME NEW t \in Thread, LoadOverrun(t) PROVE Control'
    BY <2>14 DEF LoadOverrun, End, Goto
  <2>15. ASSUME NEW t \in Thread, Loaded(t) PROVE Control'
    BY <2>15 DEF Loaded, Goto
  <2>16. ASSUME NEW t \in Thread, Publish(t) PROVE Control'
    BY <2>16 DEF Publish, Goto
  <2>17. ASSUME NEW t \in Thread, ClearFailed(t) PROVE Control'
    BY <2>17 DEF ClearFailed, Goto
  <2>18. ASSUME NEW t \in Thread, TakeRunner(t) PROVE Control'
    BY <2>18 DEF TakeRunner, Goto
  <2>19. ASSUME NEW t \in Thread, Send(t) PROVE Control'
    BY <2>19 DEF Send, Goto, CanWrite
  <2>20. ASSUME NEW t \in Thread, SendFails(t) PROVE Control'
    BY <2>20 DEF SendFails, End, Goto
  <2>21. ASSUME NEW t \in Thread, Receive(t) PROVE Control'
    BY <2>21 DEF Receive, End, Goto, Unlock
  <2>22. ASSUME NEW t \in Thread, Timeout(t) PROVE Control'
    BY <2>22 DEF Timeout, Goto, CloseRunner, KillHelper, Unlock
  <2>23. ASSUME NEW t \in Thread, SetFailed(t) PROVE Control'
    BY <2>23 DEF SetFailed, Goto
  <2>24. ASSUME NEW t \in Thread, SetRetryAt(t) PROVE Control'
    BY <2>24 DEF SetRetryAt, End, Goto
  <2>25. ASSUME NEW t \in Thread, EndClose(t) PROVE Control'
    BY <2>25 DEF EndClose, End, Goto, CloseRunner, KillHelper
  <2>26. ASSUME NEW h \in Helper, HelperReplies(h) PROVE Control'
    BY <2>26 DEF HelperReplies
  <2>27. ASSUME NEW h \in Helper, HelperCrashes(h) PROVE Control'
    BY <2>27 DEF HelperCrashes, KillHelper
  <2>28. ASSUME NEW h \in Helper, ReaderEnds(h) PROVE Control'
    BY <2>28 DEF ReaderEnds
  <2>29. CASE Tick
    BY <2>29 DEF Tick
  <2>30. QED
    BY <2>1, <2>2, <2>3, <2>4, <2>5, <2>6, <2>7, <2>8, <2>9, <2>10, <2>11, <2>12, <2>13,
       <2>14, <2>15, <2>16, <2>17, <2>18, <2>19, <2>20, <2>21, <2>22, <2>23, <2>24,
       <2>25, <2>26, <2>27, <2>28, <2>29
    DEF Next, Begin, Disturb, Advance, Helpers
<1>3. QED
  BY <1>1, <1>2, TypeInvariant, PTL DEF Spec

(* At most one helper process of a script is alive, however overruns,        *)
(* restarts, crashes and close() interleave (script.py:221-238).             *)
THEOREM OneHelperAlive == Spec => []OneHelper
<1>1. Control => OneHelper
  BY HelperNumbers DEF Control, RestartInv, AliveInv, OneHelper, Restarting, Loading,
     Clearing
<1>2. QED
  BY <1>1, ControlInvariant, PTL

(* Calls are serialised, across helpers as well as on one.                   *)
THEOREM CallsSerialised == Spec => []OneCaller
<1>1. Control => OneCaller
  BY DEF Control, CallerInv, OneCaller
<1>2. QED
  BY <1>1, ControlInvariant, PTL

(* A script marked failed has no live helper but one whose restart ends.     *)
THEOREM FailedScriptIsEnded == Spec => []FailedIsEnded
<1>1. Control => FailedIsEnded
  BY DEF Control, AliveInv, FailedIsEnded, Clearing
<1>2. QED
  BY <1>1, ControlInvariant, PTL

-----------------------------------------------------------------------------
(* A thread waits for a helper's next reply. *)
Awaited(h) == \E t \in Thread : pc[t] \in {"starting", "loading", "wait"} /\ mine[t] = h

(* A live helper has one message on its way if it is awaited, and none       *)
(* otherwise.                                                                *)
CountInv ==
    \A h \in Helper : helper[h] = "running" =>
        Len(requests[h]) + Len(replies[h]) = IF Awaited(h) THEN 1 ELSE 0

(* Helpers come into being in order, with nothing in their pipes.            *)
BornInv ==
    \A h \in Helper :
        /\ h <= spawned <=> helper[h] # "unborn"
        /\ helper[h] = "unborn" => requests[h] = << >> /\ replies[h] = << >>

(* All that is on its way to a waiting caller is about the caller's URL.     *)
OwnInv ==
    \A t \in Thread : pc[t] = "wait" =>
        /\ \A i \in 1 .. Len(requests[mine[t]]) : requests[mine[t]][i] = url[t]
        /\ \A i \in 1 .. Len(replies[mine[t]]) :
            replies[mine[t]][i][1] = "ok" => replies[mine[t]][i][2] = url[t]

Queues == CountInv /\ BornInv /\ OwnInv /\ OwnAnswer

(* What the layer of the queues uses of the layers below it. *)
QueueTypes ==
    /\ Types /\ Control
    /\ requests \in [Helper -> Seq(Request)] /\ replies \in [Helper -> Seq(Reply \cup {Eof})]
    /\ url \in [Thread -> Url] /\ outcome \in [Thread -> Outcome]

(* It follows from them. *)
LEMMA QueueTypesFollow == TypeOK /\ Control => QueueTypes
BY TypesFollow DEF TypeOK, QueueTypes

(* A thread that may send to a live helper is the only one there.            *)
LEMMA SenderIsAlone ==
    ASSUME QueueTypes, NEW t \in Thread, pc[t] = "send",
           lock[mine[t]] = NoThread, CanWrite(mine[t])
    PROVE  (\A s \in Thread : pc[s] # "wait") /\ ~Awaited(mine[t])
<1>1. RestartInv /\ AliveInv /\ CallerInv
  BY DEF QueueTypes, Control
<1>2. mine[t] \in Helper /\ mine[t] <= runner /\ helper[mine[t]] = "running"
  BY <1>1 DEF QueueTypes, Types, CallerInv, CanWrite
<1>3. \A s \in Thread : pc[s] \in Loading => mine[s] = spawned /\ runner < spawned
  BY <1>1 DEF RestartInv
<1>4. runner \in Nat /\ spawned \in Nat /\ mine[t] \in Nat
  BY <1>2 DEF QueueTypes, Types
<1>5. mine[t] = runner
  BY <1>1, <1>2, <1>3, <1>4 DEF AliveInv
<1>6. \A s \in Thread : pc[s] # "wait"
  BY <1>1, <1>5, NamesAssumption DEF CallerInv
<1>7. \A s \in Thread : pc[s] \in {"starting", "loading"} => mine[s] # mine[t]
  BY <1>3, <1>4, <1>5 DEF Loading
<1>8. QED
  BY <1>6, <1>7 DEF Awaited

(* A call that answers gives the script's answer for its own URL, unless an  *)
(* exception from elsewhere cuts a wait short (script.py:100-119).           *)
THEOREM AnswersAreOwn == ASSUME MayInterrupt = FALSE PROVE Spec => []OwnAnswer
<1>1. Init => Queues
  BY HelperNumbers DEF Init, Queues, CountInv, BornInv, OwnInv, OwnAnswer, Awaited
<1>2. QueueTypes /\ QueueTypes' /\ Queues /\ [Next]_vars => Queues'
  <2> SUFFICES ASSUME QueueTypes, QueueTypes', Queues, [Next]_vars PROVE Queues'
    OBVIOUS
  <2> USE HelperNumbers DEF QueueTypes, Types, Control, Queues,
            scriptVars, helperVars, threadVars, histVars
  <2>1. CASE UNCHANGED vars
    BY <2>1 DEF vars, CountInv, BornInv, OwnInv, OwnAnswer, Awaited
  <2>2. ASSUME NEW t \in Thread, Call(t) PROVE Queues'
    BY <2>2 DEF Awaited, CountInv, BornInv, OwnInv, OwnAnswer, RestartInv, AliveInv,
       CallerInv, Restarting, Loading, Call, Goto
  <2>3. ASSUME NEW t \in Thread, BeginClose(t) PROVE Queues'
    BY <2>3 DEF Awaited, CountInv, BornInv, OwnInv, OwnAnswer, RestartInv, AliveInv,
       CallerInv, Restarting, Loading, BeginClose, Goto
  <2>4. ASSUME NEW t \in Thread, InterruptLoad(t) PROVE Queues'
    BY <2>4 DEF InterruptLoad
  <2>5. ASSUME NEW t \in Thread, InterruptCall(t) PROVE Queues'
    BY <2>5 DEF InterruptCall
  <2>6. ASSUME NEW t \in Thread, AlreadyRestarted(t) PROVE Queues'
    BY <2>6 DEF Awaited, CountInv, BornInv, OwnInv, OwnAnswer, RestartInv, AliveInv,
       CallerInv, Restarting, Loading, AlreadyRestarted, Goto
  <2>7. ASSUME NEW t \in Thread, CoolingDown(t) PROVE Queues'
    BY <2>7 DEF Awaited, CountInv, BornInv, OwnInv, OwnAnswer, RestartInv, AliveInv,
       CallerInv, Restarting, Loading, CoolingDown, End, Goto
  <2>8. ASSUME NEW t \in Thread, Spawn(t) PROVE Queues'
    <3>1. CountInv'
      <4>1. \A h \in Helper : h # spawned' => (Awaited(h)' <=> Awaited(h))
        BY <2>8 DEF Awaited, Spawn, Goto
      <4>2. ASSUME NEW h \in Helper, h = spawned'
            PROVE  Awaited(h)' /\ Len(requests'[h]) = 1 /\ Len(replies'[h]) = 0
        <5>1. mine'[t] = h /\ pc'[t] = "starting"
          BY <2>8, <4>2 DEF Spawn, Goto
        <5>2. requests'[h] = <<"start">>
          BY <2>8, <4>2 DEF Spawn
        <5>3. replies[h] = << >> /\ replies' = replies
          BY <2>8, <4>2 DEF Spawn, BornInv
        <5>4. QED
          BY <5>1, <5>2, <5>3 DEF Awaited
      <4>3. ASSUME NEW h \in Helper, h # spawned'
            PROVE  /\ helper'[h] = helper[h] /\ requests'[h] = requests[h]
                   /\ replies'[h] = replies[h]
        BY <2>8, <4>3 DEF Spawn
      <4>4. ASSUME NEW h \in Helper, helper'[h] = "running"
            PROVE  Len(requests'[h]) + Len(replies'[h]) = IF Awaited(h)' THEN 1 ELSE 0
        <5>1. CASE h = spawned'
          <6>1. Awaited(h)' /\ Len(requests'[h]) = 1 /\ Len(replies'[h]) = 0
            BY <5>1, <4>2
          <6>2. QED
            BY <6>1
        <5>2. CASE h # spawned'
          BY <5>2, <4>1, <4>3, <4>4 DEF CountInv
        <5>3. QED
          BY <5>1, <5>2
      <4>5. QED
        BY <4>4 DEF CountInv
    <3>2. BornInv'
      BY <2>8 DEF BornInv, Spawn, Goto, RestartInv, AliveInv, CallerInv, Restarting, Loading
    <3>3. OwnInv'
      BY <2>8 DEF OwnInv, Spawn, Goto, RestartInv, AliveInv, CallerInv, Restarting, Loading
    <3>4. OwnAnswer'
      BY <2>8 DEF OwnAnswer, Spawn, Goto
    <3>5. QED
      BY <3>1, <3>2, <3>3, <3>4
  <2>9. ASSUME NEW t \in Thread, Started(t) PROVE Queues'
    <3>1. CountInv'
      <4>1. Awaited(mine[t]) /\ ~Awaited(mine[t])'
        BY <2>9 DEF Awaited, Started, Goto, RestartInv, AliveInv, CallerInv, Restarting,
           Loading
      <4>2. \A h \in Helper : h # mine[t] => (Awaited(h)' <=> Awaited(h))
        BY <2>9 DEF Awaited, Started, Goto
      <4>3. /\ replies'[mine[t]] = Tail(replies[mine[t]]) /\ replies[mine[t]] # << >>
            /\ \A h \in Helper : h # mine[t] => replies'[h] = replies[h]
        BY <2>9 DEF Started, PopReply, Reads
      <4>4. Len(replies'[mine[t]]) = Len(replies[mine[t]]) - 1
        BY <2>9, <4>3 DEF Started
      <4>5. mine[t] \in Helper /\ UNCHANGED <<helper, requests, mine>>
        BY <2>9 DEF Started
      <4>6. ASSUME NEW h \in Helper, helper'[h] = "running"
            PROVE  Len(requests'[h]) + Len(replies'[h]) = IF Awaited(h)' THEN 1 ELSE 0
        <5>1. Len(requests[h]) + Len(replies[h]) = IF Awaited(h) THEN 1 ELSE 0
          BY <4>5, <4>6 DEF CountInv
        <5>2. CASE h = mine[t]
          <6>1. Len(requests[h]) \in Nat /\ Len(replies[h]) \in Nat
            BY SMTT(30), <4>5
          <6>2. ~Awaited(h)' /\ Awaited(h)
            BY <4>1, <4>5, <5>2
          <6>3. requests'[h] = requests[h] /\ Len(replies'[h]) = Len(replies[h]) - 1
            BY <4>4, <4>5, <5>2
          <6>4. QED
            BY <5>1, <6>1, <6>2, <6>3
        <5>3. CASE h # mine[t]
          BY <4>2, <4>3, <4>5, <5>1, <5>3
        <5>4. QED
          BY <5>2, <5>3
      <4>7. QED
        BY <4>6 DEF CountInv
    <3>2. BornInv'
      BY <2>9 DEF BornInv, Started, Goto, PopReply, Reads, RestartInv, AliveInv,
         CallerInv, Restarting, Loading
    <3>3. OwnInv'
      BY <2>9 DEF OwnInv, Started, Goto, PopReply, Reads, RestartInv, AliveInv, CallerInv,
         Restarting, Loading
    <3>4. OwnAnswer'
      BY <2>9 DEF OwnAnswer, Started, Goto, PopReply, Reads
    <3>5. QED
      BY <3>1, <3>2, <3>3, <3>4
  <2>10. ASSUME NEW t \in Thread, SendInit(t) PROVE Queues'
    <3>1. CountInv'
      <4>1. Awaited(mine[t])' /\ ~Awaited(mine[t])
        BY <2>10 DEF Awaited, SendInit, Goto, CanWrite, RestartInv, AliveInv, CallerInv,
           Restarting, Loading
      <4>2. \A h \in Helper : h # mine[t] => (Awaited(h)' <=> Awaited(h))
        BY <2>10 DEF Awaited, SendInit, Goto
      <4>3. Len(requests[mine[t]]) = 0 /\ Len(replies[mine[t]]) = 0
        BY <2>10, <4>1 DEF CountInv, SendInit, CanWrite
      <4>4. Len(requests'[mine[t]]) = 1
        BY <2>10, <4>3 DEF SendInit
      <4>5. QED
        BY <2>10, <4>1, <4>2, <4>3, <4>4 DEF CountInv, SendInit
    <3>2. BornInv'
      BY <2>10 DEF BornInv, SendInit, Goto, CanWrite, RestartInv, AliveInv, CallerInv,
         Restarting, Loading
    <3>3. OwnInv'
      BY <2>10 DEF OwnInv, SendInit, Goto, CanWrite, RestartInv, AliveInv, CallerInv,
         Restarting, Loading
    <3>4. OwnAnswer'
      BY <2>10 DEF OwnAnswer, SendInit, Goto, CanWrite
    <3>5. QED
      BY <3>1, <3>2, <3>3, <3>4
  <2>11. ASSUME NEW t \in Thread, InitWriteFails(t) PROVE Queues'
    BY <2>11, SMTT(30) DEF Awaited, CountInv, BornInv, OwnInv, OwnAnswer, RestartInv, AliveInv,
       CallerInv, Restarting, Loading, InitWriteFails, End, Goto, KillHelper
  <2>12. ASSUME NEW t \in Thread, LoadFails(t) PROVE Queues'
    <3>1. CountInv'
      BY <2>12 DEF CountInv, Awaited, LoadFails, End, Goto, CloseRunner, KillHelper,
         PopReply, Reads, RestartInv, AliveInv, CallerInv, Restarting, Loading
    <3>2. BornInv'
      BY <2>12 DEF BornInv, LoadFails, CloseRunner, KillHelper, PopReply, Reads
    <3>3. OwnInv'
      <4>1. \A s \in Thread : pc'[s] = "wait" => pc[s] = "wait" /\ mine[s] # mine[t]
        BY <2>12 DEF LoadFails, End, Goto, RestartInv, CallerInv, Restarting, Loading
      <4>2. QED
        BY <2>12, <4>1 DEF OwnInv, LoadFails, CloseRunner, KillHelper, PopReply, Reads
    <3>4. OwnAnswer'
      BY <2>12 DEF OwnAnswer, LoadFails, End, Goto
    <3>5. QED
      BY <3>1, <3>2, <3>3, <3>4
  <2>13. ASSUME NEW t \in Thread, LoadTimeout(t) PROVE Queues'
    <3>1. CountInv'
      BY <2>13 DEF CountInv, Awaited, LoadTimeout, Goto, CloseRunner, KillHelper,
         RestartInv, AliveInv, CallerInv, Restarting, Loading
    <3>2. BornInv'
      BY <2>13 DEF BornInv, LoadTimeout, Goto, CloseRunner, KillHelper, RestartInv,
         AliveInv, CallerInv, Restarting, Loading
    <3>3. OwnInv'
      <4>1. \A s \in Thread : pc'[s] = "wait" => pc[s] = "wait" /\ mine[s] # mine[t]
        BY <2>13 DEF LoadTimeout, Goto, RestartInv, CallerInv, Restarting, Loading
      <4>2. QED
        BY <2>13, <4>1 DEF OwnInv, LoadTimeout, CloseRunner, KillHelper
    <3>4. OwnAnswer'
      BY <2>13 DEF OwnAnswer, LoadTimeout, Goto, CloseRunner, KillHelper
    <3>5. QED
      BY <3>1, <3>2, <3>3, <3>4
  <2>14. ASSUME NEW t \in Thread, LoadOverrun(t) PROVE Queues'
    BY <2>14 DEF Awaited, CountInv, BornInv, OwnInv, OwnAnswer, RestartInv, AliveInv,
       CallerInv, Restarting, Loading, LoadOverrun, End, Goto
  <2>15. ASSUME NEW t \in Thread, Loaded(t) PROVE Queues'
    <3>1. CountInv'
      <4>1. Awaited(mine[t]) /\ ~Awaited(mine[t])'
        BY <2>15 DEF Awaited, Loaded, Goto, RestartInv, AliveInv, CallerInv, Restarting,
           Loading
      <4>2. \A h \in Helper : h # mine[t] => (Awaited(h)' <=> Awaited(h))
        BY <2>15 DEF Awaited, Loaded, Goto
      <4>3. /\ replies'[mine[t]] = Tail(replies[mine[t]]) /\ replies[mine[t]] # << >>
            /\ \A h \in Helper : h # mine[t] => replies'[h] = replies[h]
        BY <2>15 DEF Loaded, PopReply, Reads
      <4>4. Len(replies'[mine[t]]) = Len(replies[mine[t]]) - 1
        BY <2>15, <4>3 DEF Loaded
      <4>5. mine[t] \in Helper /\ UNCHANGED <<helper, requests, mine>>
        BY <2>15 DEF Loaded
      <4>6. ASSUME NEW h \in Helper, helper'[h] = "running"
            PROVE  Len(requests'[h]) + Len(replies'[h]) = IF Awaited(h)' THEN 1 ELSE 0
        <5>1. Len(requests[h]) + Len(replies[h]) = IF Awaited(h) THEN 1 ELSE 0
          BY <4>5, <4>6 DEF CountInv
        <5>2. CASE h = mine[t]
          <6>1. Len(requests[h]) \in Nat /\ Len(replies[h]) \in Nat
            BY SMTT(30), <4>5
          <6>2. ~Awaited(h)' /\ Awaited(h)
            BY <4>1, <4>5, <5>2
          <6>3. requests'[h] = requests[h] /\ Len(replies'[h]) = Len(replies[h]) - 1
            BY <4>4, <4>5, <5>2
          <6>4. QED
            BY <5>1, <6>1, <6>2, <6>3
        <5>3. CASE h # mine[t]
          BY <4>2, <4>3, <4>5, <5>1, <5>3
        <5>4. QED
          BY <5>2, <5>3
      <4>7. QED
        BY <4>6 DEF CountInv
    <3>2. BornInv'
      BY <2>15 DEF BornInv, Loaded, Goto, PopReply, Reads, RestartInv, AliveInv,
         CallerInv, Restarting, Loading
    <3>3. OwnInv'
      BY <2>15 DEF OwnInv, Loaded, Goto, PopReply, Reads, RestartInv, AliveInv, CallerInv,
         Restarting, Loading
    <3>4. OwnAnswer'
      BY <2>15 DEF OwnAnswer, Loaded, Goto, PopReply, Reads
    <3>5. QED
      BY <3>1, <3>2, <3>3, <3>4
  <2>16. ASSUME NEW t \in Thread, Publish(t) PROVE Queues'
    <3>1. CountInv'
      <4>1. \A h \in Helper : Awaited(h)' <=> Awaited(h)
        BY <2>16 DEF Awaited, Publish, Goto
      <4>2. QED
        BY <2>16, <4>1 DEF CountInv, Publish
    <3>2. BornInv'
      BY <2>16 DEF BornInv, Publish, Goto, RestartInv, AliveInv, CallerInv, Restarting,
         Loading
    <3>3. OwnInv'
      BY <2>16 DEF OwnInv, Publish, Goto, RestartInv, AliveInv, CallerInv, Restarting,
         Loading
    <3>4. OwnAnswer'
      BY <2>16 DEF OwnAnswer, Publish, Goto
    <3>5. QED
      BY <3>1, <3>2, <3>3, <3>4
  <2>17. ASSUME NEW t \in Thread, ClearFailed(t) PROVE Queues'
    <3>1. CountInv'
      <4>1. \A h \in Helper : Awaited(h)' <=> Awaited(h)
        BY <2>17 DEF Awaited, ClearFailed, Goto
      <4>2. QED
        BY <2>17, <4>1 DEF CountInv, ClearFailed
    <3>2. BornInv'
      BY <2>17 DEF BornInv, ClearFailed, Goto, RestartInv, AliveInv, CallerInv,
         Restarting, Loading
    <3>3. OwnInv'
      BY <2>17 DEF OwnInv, ClearFailed, Goto, RestartInv, AliveInv, CallerInv, Restarting,
         Loading
    <3>4. OwnAnswer'
      BY <2>17 DEF OwnAnswer, ClearFailed, Goto
    <3>5. QED
      BY <3>1, <3>2, <3>3, <3>4
  <2>18. ASSUME NEW t \in Thread, TakeRunner(t) PROVE Queues'
    BY <2>18 DEF Awaited, CountInv, BornInv, OwnInv, OwnAnswer, RestartInv, AliveInv,
       CallerInv, Restarting, Loading, TakeRunner, Goto
  <2>19. ASSUME NEW t \in Thread, Send(t) PROVE Queues'
    <3>1. CountInv'
      <4>1. Awaited(mine[t])' /\ ~Awaited(mine[t])
        BY <2>19 DEF Awaited, Send, Goto, CanWrite, RestartInv, AliveInv, CallerInv,
           Restarting, Loading
      <4>2. \A h \in Helper : h # mine[t] => (Awaited(h)' <=> Awaited(h))
        BY <2>19 DEF Awaited, Send, Goto
      <4>3. Len(requests[mine[t]]) = 0 /\ Len(replies[mine[t]]) = 0
        BY <2>19, <4>1 DEF CountInv, Send, CanWrite
      <4>4. Len(requests'[mine[t]]) = 1
        BY <2>19, <4>3 DEF Send
      <4>5. QED
        BY <2>19, <4>1, <4>2, <4>3, <4>4 DEF CountInv, Send
    <3>2. BornInv'
      BY <2>19 DEF BornInv, Send, Goto, CanWrite, RestartInv, AliveInv, CallerInv,
         Restarting, Loading
    <3>3. OwnInv'
      <4>1. (\A s \in Thread : pc[s] # "wait") /\ ~Awaited(mine[t])
        BY <2>19, SenderIsAlone DEF Send
      <4>2. mine[t] \in Helper
        BY <2>19 DEF Send
      <4>3. requests[mine[t]] = << >> /\ replies[mine[t]] = << >>
        BY <2>19, <4>1, <4>2 DEF CountInv, Send, CanWrite
      <4>4. requests'[mine[t]] = <<url[t]>> /\ replies'[mine[t]] = << >>
        BY <2>19, <4>3 DEF Send
      <4>5. QED
        <5>1. \A s \in Thread : pc'[s] = "wait" => s = t
          BY <2>19, <4>1 DEF Send, Goto
        <5>2. mine' = mine /\ url' = url
          BY <2>19 DEF Send
        <5>3. QED
          BY SMTT(30), <5>1, <5>2, <4>4 DEF OwnInv
    <3>4. OwnAnswer'
      BY <2>19 DEF OwnAnswer, Send, Goto, CanWrite
    <3>5. QED
      BY <3>1, <3>2, <3>3, <3>4
  <2>20. ASSUME NEW t \in Thread, SendFails(t) PROVE Queues'
    BY <2>20 DEF Awaited, CountInv, BornInv, OwnInv, OwnAnswer, RestartInv, AliveInv,
       CallerInv, Restarting, Loading, SendFails, End, Goto
  <2>21. ASSUME NEW t \in Thread, Receive(t) PROVE Queues'
    BY <2>21, SMTT(30) DEF Awaited, CountInv, BornInv, OwnInv, OwnAnswer, RestartInv, AliveInv,
       CallerInv, Restarting, Loading, Receive, End, Goto, PopReply, Reads, HeadOf
  <2>22. ASSUME NEW t \in Thread, Timeout(t) PROVE Queues'
    BY <2>22 DEF Awaited, CountInv, BornInv, OwnInv, OwnAnswer, RestartInv, AliveInv,
       CallerInv, Restarting, Loading, Timeout, Goto, CloseRunner, KillHelper
  <2>23. ASSUME NEW t \in Thread, SetFailed(t) PROVE Queues'
    BY <2>23 DEF Awaited, CountInv, BornInv, OwnInv, OwnAnswer, RestartInv, AliveInv,
       CallerInv, Restarting, Loading, SetFailed, Goto
  <2>24. ASSUME NEW t \in Thread, SetRetryAt(t) PROVE Queues'
    BY <2>24 DEF Awaited, CountInv, BornInv, OwnInv, OwnAnswer, RestartInv, AliveInv,
       CallerInv, Restarting, Loading, SetRetryAt, End, Goto
  <2>25. ASSUME NEW t \in Thread, EndClose(t) PROVE Queues'
    BY <2>25 DEF Awaited, CountInv, BornInv, OwnInv, OwnAnswer, RestartInv, AliveInv,
       CallerInv, Restarting, Loading, EndClose, End, Goto, CloseRunner, KillHelper
  <2>26. ASSUME NEW h \in Helper, HelperReplies(h) PROVE Queues'
    <3>1. CountInv'
      BY <2>26 DEF CountInv, Awaited, HelperReplies
    <3>2. BornInv'
      BY <2>26 DEF BornInv, HelperReplies
    <3>3. OwnInv'
      <4>0. pc' = pc /\ mine' = mine /\ url' = url
        BY <2>26 DEF HelperReplies
      <4> SUFFICES ASSUME NEW t \in Thread, pc[t] = "wait"
                   PROVE  /\ \A i \in 1 .. Len(requests'[mine[t]]) :
                                requests'[mine[t]][i] = url[t]
                          /\ \A i \in 1 .. Len(replies'[mine[t]]) :
                                replies'[mine[t]][i][1] = "ok"
                                    => replies'[mine[t]][i][2] = url[t]
        BY <4>0 DEF OwnInv
      <4>1. /\ \A i \in 1 .. Len(requests[mine[t]]) : requests[mine[t]][i] = url[t]
            /\ \A i \in 1 .. Len(replies[mine[t]]) :
                replies[mine[t]][i][1] = "ok" => replies[mine[t]][i][2] = url[t]
        BY DEF OwnInv
      <4>2. CASE mine[t] # h
        <5>1. requests'[mine[t]] = requests[mine[t]] /\ replies'[mine[t]] = replies[mine[t]]
          BY <2>26, <4>2 DEF HelperReplies
        <5>2. QED
          BY <4>1, <5>1
      <4>3. CASE mine[t] = h
        <5>1. /\ requests'[h] = Tail(requests[h]) /\ requests[h] # << >>
              /\ Head(requests[h]) = url[t]
          <6>1. requests'[h] = Tail(requests[h]) /\ requests[h] # << >>
            BY <2>26 DEF HelperReplies
          <6>2. requests[h] \in Seq(Request)
            OBVIOUS
          <6>3. Len(requests[h]) >= 1 /\ Head(requests[h]) = requests[h][1]
            BY <6>1, <6>2
          <6>4. QED
            BY <4>1, <4>3, <6>1, <6>3
        <5>2. \A i \in 1 .. Len(requests'[h]) : requests'[h][i] = url[t]
          BY <4>1, <4>3, <5>1
        <5>3. PICK status \in {"ok", "err"} :
                 replies'[h] = Append(replies[h], <<status, url[t]>>)
          BY <2>26, <5>1 DEF HelperReplies
        <5>4. QED
          BY SMTT(30), <4>1, <4>3, <5>2, <5>3
      <4>4. QED
        BY <4>2, <4>3
    <3>4. OwnAnswer'
      BY <2>26 DEF OwnAnswer, HelperReplies
    <3>5. QED
      BY <3>1, <3>2, <3>3, <3>4
  <2>27. ASSUME NEW h \in Helper, HelperCrashes(h) PROVE Queues'
    <3>1. CountInv'
      BY <2>27 DEF CountInv, Awaited, HelperCrashes, KillHelper
    <3>2. BornInv'
      BY <2>27 DEF BornInv, HelperCrashes, KillHelper
    <3>3. OwnInv'
      BY <2>27 DEF OwnInv, CountInv, Awaited, HelperCrashes, KillHelper
    <3>4. OwnAnswer'
      BY <2>27 DEF OwnAnswer, HelperCrashes, KillHelper
    <3>5. QED
      BY <3>1, <3>2, <3>3, <3>4
  <2>28. ASSUME NEW h \in Helper, ReaderEnds(h) PROVE Queues'
    <3>1. CountInv'
      BY <2>28 DEF CountInv, Awaited, ReaderEnds, Eof
    <3>2. BornInv'
      BY <2>28 DEF BornInv, ReaderEnds, Eof
    <3>3. OwnInv'
      BY <2>28 DEF OwnInv, CountInv, Awaited, ReaderEnds, Eof
    <3>4. OwnAnswer'
      BY <2>28 DEF OwnAnswer, ReaderEnds, Eof
    <3>5. QED
      BY <3>1, <3>2, <3>3, <3>4
  <2>29. CASE Tick
    BY <2>29 DEF Tick, CountInv, BornInv, OwnInv, OwnAnswer, Awaited
  <2>30. QED
    BY <2>1, <2>2, <2>3, <2>4, <2>5, <2>6, <2>7, <2>8, <2>9, <2>10, <2>11, <2>12, <2>13,
       <2>14, <2>15, <2>16, <2>17, <2>18, <2>19, <2>20, <2>21, <2>22, <2>23, <2>24,
       <2>25, <2>26, <2>27, <2>28, <2>29
    DEF Next, Begin, Disturb, Advance, Helpers
<1>3. QED
  BY <1>1, <1>2, QueueTypesFollow, TypeInvariant, ControlInvariant, PTL DEF Spec, Queues

-----------------------------------------------------------------------------
(* The cool-down that follows the last overrun is set, or a thread is on its *)
(* way to set it.                                                            *)
CoolInv ==
    /\ overrunAt <= now
    /\ \/ retryAt >= overrunAt + Cooldown
       \/ \E t \in Thread : pc[t] \in {"loadOverrun", "overrun", "cooldown"}

(* What the argument uses of the types.                                      *)
CoolTypes ==
    Types /\ Control /\ now \in Nat /\ retryAt \in Nat /\ overrunAt \in Int

(* No helper is started before the cool-down has passed, unless a thread has *)
(* marked the script failed and not yet said for how long                    *)
(* (script.py:146-160, 232-238).                                             *)
THEOREM CooldownIsKept == Spec => CooldownOutsideTheGap
<1>1. Init => CoolInv
  BY CooldownAssumption DEF Init, CoolInv
<1>2. TypeOK /\ Control => CoolTypes
  BY TypesFollow DEF TypeOK, CoolTypes
<1>3. CoolTypes /\ CoolTypes' /\ CoolInv /\ [Next]_vars => CoolInv'
  <2> SUFFICES ASSUME CoolTypes, CoolTypes', CoolInv, [Next]_vars PROVE CoolInv'
    OBVIOUS
  <2> USE CooldownAssumption DEF CoolTypes, Types, CoolInv
  <2>1. CASE UNCHANGED vars
    BY <2>1 DEF vars, scriptVars, threadVars, histVars
  <2>2. ASSUME NEW t \in Thread, LoadTimeout(t) \/ Timeout(t) PROVE CoolInv'
    <3>1. pc'[t] \in {"loadOverrun", "overrun"} /\ overrunAt' = now /\ now' = now
      BY <2>2 DEF LoadTimeout, Timeout, Goto
    <3>2. QED
      BY <3>1
  <2>3. ASSUME NEW t \in Thread, LoadOverrun(t) \/ SetRetryAt(t) PROVE CoolInv'
    <3>1. retryAt' = now + Cooldown /\ overrunAt' = overrunAt /\ now' = now
      BY <2>3 DEF LoadOverrun, SetRetryAt, histVars
    <3>2. QED
      BY <3>1
  <2>4. ASSUME NEW t \in Thread, SetFailed(t) PROVE CoolInv'
    BY <2>4 DEF SetFailed, Goto, histVars
  <2>5. CASE /\ UNCHANGED <<now, retryAt, overrunAt>>
             /\ \A t \in Thread : pc[t] \in {"loadOverrun", "overrun", "cooldown"} => pc'[t] = pc[t]
    BY <2>5
  <2>6. ASSUME NEW t \in Thread,
               \/ Begin(t) \/ Disturb(t) \/ AlreadyRestarted(t) \/ CoolingDown(t) \/ Spawn(t)
               \/ Started(t) \/ SendInit(t) \/ InitWriteFails(t) \/ LoadFails(t)
        PROVE  CoolInv'
    BY <2>5, <2>6 DEF Begin, Disturb, Call, BeginClose, InterruptLoad, InterruptCall,
       AlreadyRestarted, CoolingDown, Spawn, Started, SendInit, InitWriteFails, LoadFails, End,
       Goto, scriptVars, histVars
  <2>7. ASSUME NEW t \in Thread,
               \/ Loaded(t) \/ Publish(t) \/ ClearFailed(t) \/ TakeRunner(t) \/ Send(t)
               \/ SendFails(t) \/ Receive(t) \/ EndClose(t)
        PROVE  CoolInv'
    BY <2>5, <2>7 DEF Loaded, Publish, ClearFailed, TakeRunner, Send, SendFails, Receive,
       EndClose, End, Goto, scriptVars, histVars
  <2>8. ASSUME NEW h \in Helper, Helpers(h) PROVE CoolInv'
    BY <2>5, <2>8 DEF Helpers, HelperReplies, HelperCrashes, ReaderEnds, scriptVars, threadVars,
       histVars
  <2>9. CASE Tick
    BY <2>9 DEF Tick, scriptVars, threadVars, histVars
  <2>10. QED
    BY <2>1, <2>2, <2>3, <2>4, <2>6, <2>7, <2>8, <2>9 DEF Next, Advance
<1>4. CoolTypes /\ CoolTypes' /\ CoolInv /\ [Next]_vars =>
        [spawned' # spawned =>
            now >= overrunAt + Cooldown \/ \E t \in Thread : pc[t] = "cooldown"]_vars
  <2> SUFFICES ASSUME CoolTypes, CoolInv, Next, spawned' # spawned,
                      \A t \in Thread : pc[t] # "cooldown"
               PROVE  now >= overrunAt + Cooldown
    BY DEF vars, helperVars
  <2>1. PICK t \in Thread : Spawn(t)
    BY DEF Next, Begin, Disturb, Advance, Helpers, Call, BeginClose, InterruptLoad,
       InterruptCall, AlreadyRestarted, CoolingDown, Started, SendInit, InitWriteFails,
       LoadFails, LoadTimeout, LoadOverrun, Loaded, Publish, ClearFailed, TakeRunner, Send,
       SendFails, Receive, Timeout, SetFailed, SetRetryAt, EndClose, HelperReplies,
       HelperCrashes, ReaderEnds, Tick, helperVars
  <2>2. restartLock = NoThread /\ failed /\ now >= retryAt
    BY <2>1 DEF Spawn, CooledDown
  <2>3. \A s \in Thread : pc[s] \notin Restarting
    BY <2>2, NamesAssumption DEF CoolTypes, Control, RestartInv
  <2>4. \A s \in Thread : pc[s] # "overrun"
    BY <2>2, <2>3 DEF CoolTypes, Control, CallerInv, Clearing, Restarting
  <2>5. retryAt >= overrunAt + Cooldown
    BY <2>3, <2>4 DEF CoolInv, Restarting, Loading
  <2>6. QED
    BY <2>2, <2>5, CooldownAssumption DEF CoolTypes
<1>5. QED
  BY <1>1, <1>2, <1>3, <1>4, TypeInvariant, ControlInvariant, PTL DEF Spec, CooldownOutsideTheGap

-----------------------------------------------------------------------------
(* A call under way has no outcome yet, and every outcome is about the URL   *)
(* its thread asked for last.                                                *)
ResultInv ==
    \A t \in Thread :
        /\ outcome[t][2] = url[t]
        /\ pc[t] \notin {"idle", "closing"} => outcome[t] = <<"none", url[t]>>

(* What the service shows of the threads.                                    *)
Shown(t) ==
    IF outcome[t][1] \in {"closed", "closeError"} THEN <<"none", url[t]>> ELSE outcome[t]
Calls == [t \in Thread |-> Promise(t)]
Results == [t \in Thread |-> Shown(t)]

(* What the argument uses of the layers below.                               *)
ServiceTypes ==
    QueueTypes /\ OwnAnswer

(* A call keeps to its URL until it ends, and ends with an outcome about it. *)
LEMMA ResultStep ==
    ASSUME ServiceTypes, ServiceTypes', ResultInv, [Next]_vars, MayInterrupt = FALSE
    PROVE  ResultInv'
<1> USE DEF ServiceTypes, QueueTypes, Types, ResultInv, scriptVars, helperVars, threadVars, histVars
<1>1. CASE UNCHANGED vars
  BY <1>1 DEF vars
<1>2. ASSUME NEW t \in Thread, Call(t) PROVE ResultInv'
  BY <1>2 DEF Call, Goto
<1>3. CASE /\ url' = url
           /\ \A s \in Thread :
                /\ outcome'[s] = outcome[s] \/ outcome'[s][2] = url[s]
                /\ pc'[s] \notin {"idle", "closing"} =>
                      pc[s] \notin {"idle", "closing"} /\ outcome'[s] = outcome[s]
  BY <1>3
<1>4. ASSUME NEW t \in Thread, Receive(t) PROVE ResultInv'
  <2>1. /\ pc'[t] = "idle" /\ url' = url
        /\ \A s \in Thread : s # t => pc'[s] = pc[s] /\ outcome'[s] = outcome[s]
    BY <1>4 DEF Receive, End, Goto
  <2>2. outcome'[t] = <<"answer", HeadOf(t)[2]>> \/ outcome'[t] = <<"PACError", url[t]>>
    BY <1>4 DEF Receive, End
  <2>3. outcome'[t][1] = "answer" => outcome'[t][2] = url'[t]
    BY <2>1 DEF OwnAnswer
  <2>4. outcome'[t][2] = url[t]
    BY <2>1, <2>2, <2>3
  <2>5. QED
    BY <1>3, <2>1, <2>4
<1>5. ASSUME NEW t \in Thread,
             \/ CoolingDown(t) \/ InitWriteFails(t) \/ LoadFails(t) \/ LoadOverrun(t)
             \/ SendFails(t) \/ SetRetryAt(t) \/ EndClose(t)
      PROVE  ResultInv'
  <2>1. \E kind : End(t, <<kind, url[t]>>) /\ url' = url
    BY <1>5 DEF CoolingDown, InitWriteFails, LoadFails, LoadOverrun, SendFails, SetRetryAt,
       EndClose
  <2>2. /\ pc'[t] = "idle" /\ outcome'[t][2] = url[t]
        /\ \A s \in Thread : s # t => pc'[s] = pc[s] /\ outcome'[s] = outcome[s]
    BY <2>1 DEF End, Goto
  <2>3. QED
    BY <1>3, <2>1, <2>2
<1>6. ASSUME NEW t \in Thread,
             \/ AlreadyRestarted(t) \/ Spawn(t) \/ Started(t) \/ SendInit(t) \/ LoadTimeout(t)
             \/ Loaded(t) \/ Publish(t) \/ ClearFailed(t) \/ TakeRunner(t) \/ Send(t)
             \/ Timeout(t) \/ SetFailed(t) \/ BeginClose(t)
      PROVE  ResultInv'
  BY <1>3, <1>6 DEF AlreadyRestarted, Spawn, Started, SendInit, LoadTimeout, Loaded, Publish,
     ClearFailed, TakeRunner, Send, Timeout, SetFailed, BeginClose, Goto
<1>7. ASSUME NEW h \in Helper, Helpers(h) PROVE ResultInv'
  BY <1>7 DEF Helpers, HelperReplies, HelperCrashes, ReaderEnds
<1>8. CASE Tick
  BY <1>8 DEF Tick
<1>9. ASSUME NEW t \in Thread, Disturb(t) PROVE FALSE
  BY <1>9 DEF Disturb, InterruptLoad, InterruptCall
<1>10. QED
  BY <1>1, <1>2, <1>4, <1>5, <1>6, <1>7, <1>8, <1>9 DEF Next, Begin, Advance

(* What one thread shows may change, and nothing else.                       *)
Becoming(t) ==
    /\ Calls' = [Calls EXCEPT ![t] = Promise(t)'] /\ Results' = [Results EXCEPT ![t] = Shown(t)']
    /\ (runner' # 0) = (runner # 0)

(* A step that shows on one thread only is a change of its call.             *)
LEMMA ShownOnOne ==
    ASSUME NEW t \in Thread, (runner' # 0) = (runner # 0),
           \A s \in Thread \ {t} : Promise(s)' = Promise(s) /\ Shown(s)' = Shown(s)
    PROVE  Becoming(t)
BY DEF Becoming, Calls, Results

(* A step that shows on no thread leaves the service as it is.               *)
LEMMA ShownOnNone ==
    ASSUME (runner' # 0) = (runner # 0),
           \A s \in Thread : Promise(s)' = Promise(s) /\ Shown(s)' = Shown(s)
    PROVE  UNCHANGED <<Calls, Results, runner # 0>>
BY DEF Calls, Results

(* A call that has not been answered may end with an error.                  *)
LEMMA Refusing ==
    ASSUME NEW t \in Thread, NEW kind \in {"PACError", "OSError"}, Becoming(t),
           Promise(t)' = "idle", Shown(t)' = <<kind, Results[t][2]>>,
           Calls[t] = "asked" \/ (Calls[t] \in {"running", "lost"} /\ kind = "PACError")
    PROVE  Service!Refuse(t)
<1>1. Service!Becomes(t, "idle", <<kind, Results[t][2]>>)
  BY DEF Becoming, Service!Becomes, Calls, Results, Shown
<1>2. kind \in {"PACError", "OSError", "interrupted"}
  OBVIOUS
<1>3. Calls[t] \in {"running", "lost"} => kind # "OSError"
  OBVIOUS
<1>4. QED
  BY <1>1, <1>2, <1>3 DEF Service!Refuse, Calls, Results, Shown

(* Each step of a thread, a helper or the clock is a step of the service or  *)
(* none.                                                                     *)
LEMMA ServiceStep ==
    ASSUME ServiceTypes, ServiceTypes', ResultInv, ResultInv', [Next]_vars, MayInterrupt = FALSE
    PROVE  Service!Next \/ UNCHANGED <<Calls, Results, runner # 0>>
<1> USE DEF ServiceTypes, QueueTypes, Types, scriptVars, helperVars, threadVars, histVars
<1>1. CASE UNCHANGED <<pc, outcome, url, runner>>
  BY <1>1, ShownOnNone DEF Promise, Shown
<1>2. ASSUME NEW t \in Thread, Call(t) PROVE Service!Next
  <2>1. Becoming(t)
    <3>1. /\ runner' = runner
          /\ \A s \in Thread \ {t} :
                pc'[s] = pc[s] /\ outcome'[s] = outcome[s] /\ url'[s] = url[s]
      BY <1>2 DEF Call, Goto
    <3>2. QED
      BY <3>1, ShownOnOne DEF Promise, Shown
  <2>2. PICK u \in Url : outcome'[t] = <<IF runner = 0 THEN "DIRECT" ELSE "none", u>>
    BY <1>2 DEF Call
  <2>3. Calls[t] = "idle" /\ Shown(t)' = <<IF runner = 0 THEN "DIRECT" ELSE "none", u>>
    BY <1>2, <2>2 DEF Call, Calls, Promise, Shown
  <2>4. Promise(t)' = IF runner = 0 THEN "idle" ELSE "asked"
    BY <1>2 DEF Call, Goto, Promise
  <2>5. CASE runner = 0
    <3>1. Service!Becomes(t, "idle", <<"DIRECT", u>>)
      BY <2>1, <2>3, <2>4, <2>5 DEF Becoming, Service!Becomes, Calls, Results, Shown
    <3>2. Service!Direct(t)
      BY <2>3, <2>5, <3>1 DEF Service!Direct, Calls
    <3>3. QED
      BY <3>2 DEF Service!Next
  <2>6. CASE runner # 0
    <3>1. Service!Becomes(t, "asked", <<"none", u>>)
      BY <2>1, <2>3, <2>4, <2>6 DEF Becoming, Service!Becomes, Calls, Results, Shown
    <3>2. Service!Ask(t)
      BY <2>3, <2>6, <3>1 DEF Service!Ask, Calls
    <3>3. QED
      BY <3>2 DEF Service!Next
  <2>7. QED
    BY <2>5, <2>6
<1>3. ASSUME NEW t \in Thread, Send(t) PROVE Service!Next
  <2>1. Becoming(t)
    BY <1>3, ShownOnOne DEF Send, Goto, Promise, Shown
  <2>2. Calls[t] = "asked" /\ Promise(t)' = "running" /\ Shown(t)' = Results[t]
    BY <1>3 DEF Send, Goto, Calls, Results, Promise, Shown
  <2>3. \A s \in Thread : pc[s] # "wait"
    BY <1>3, SenderIsAlone DEF Send
  <2>4. \A s \in Thread : Calls[s] # "running"
    BY <2>3 DEF Calls, Promise
  <2>5. Service!Becomes(t, "running", Results[t])
    BY <2>1, <2>2 DEF Becoming, Service!Becomes, Calls, Results, Shown
  <2>6. Service!Evaluate(t)
    BY <2>2, <2>4, <2>5 DEF Service!Evaluate, Calls, Results, Shown
  <2>7. QED
    BY <2>6 DEF Service!Next
<1>4. ASSUME NEW t \in Thread, Timeout(t) PROVE Service!Next
  <2>1. Becoming(t)
    BY <1>4, ShownOnOne DEF Timeout, Goto, Promise, Shown
  <2>2. Calls[t] = "running" /\ Promise(t)' = "lost" /\ Shown(t)' = Results[t]
    BY <1>4 DEF Timeout, Goto, Calls, Results, Promise, Shown
  <2>3. Service!Becomes(t, "lost", Results[t])
    BY <2>1, <2>2 DEF Becoming, Service!Becomes, Calls, Results, Shown
  <2>4. Service!Lose(t)
    BY <2>2, <2>3 DEF Service!Lose, Calls, Results, Shown
  <2>5. QED
    BY <2>4 DEF Service!Next
<1>5. ASSUME NEW t \in Thread, EndClose(t) PROVE Service!Next
  <2>1. Becoming(t)
    BY <1>5, ShownOnOne DEF EndClose, End, Goto, Promise, Shown
  <2>2. /\ Calls[t] = "idle" /\ Promise(t)' = "idle" /\ Shown(t)' = <<"none", url[t]>>
        /\ Results[t][2] = url[t]
    BY <1>5 DEF EndClose, End, Goto, Calls, Results, Promise, Shown, ResultInv
  <2>3. Service!Becomes(t, "idle", <<"none", Results[t][2]>>)
    BY <2>1, <2>2 DEF Becoming, Service!Becomes, Calls, Results, Shown
  <2>4. Service!Close(t)
    BY <2>2, <2>3 DEF Service!Close, Calls, Results, Shown
  <2>5. QED
    BY <2>4 DEF Service!Next
<1>6. ASSUME NEW t \in Thread, Receive(t) PROVE Service!Next
  <2>1. Becoming(t)
    BY <1>6, ShownOnOne DEF Receive, End, Goto, Promise, Shown
  <2>2. /\ Calls[t] = "running" /\ Promise(t)' = "idle" /\ Results[t][2] = url[t]
        /\ outcome'[t] = <<"answer", HeadOf(t)[2]>> \/ outcome'[t] = <<"PACError", url[t]>>
        /\ outcome'[t][2] = url[t]
    BY <1>6 DEF Receive, End, Goto, Calls, Results, Promise, Shown, ResultInv
  <2>3. Shown(t)' = <<"answer", Results[t][2]>> \/ Shown(t)' = <<"PACError", Results[t][2]>>
    BY <2>2 DEF Shown
  <2>4. CASE Shown(t)' = <<"answer", Results[t][2]>>
    <3>1. Service!Becomes(t, "idle", <<"answer", Results[t][2]>>)
      BY <2>1, <2>2, <2>4 DEF Becoming, Service!Becomes, Calls, Results, Shown
    <3>2. Service!Answer(t)
      BY <2>2, <3>1 DEF Service!Answer, Calls, Results, Shown
    <3>3. QED
      BY <3>2 DEF Service!Next
  <2>5. CASE Shown(t)' = <<"PACError", Results[t][2]>>
    BY <2>1, <2>2, <2>5, Refusing DEF Service!Next
  <2>6. QED
    BY <2>3, <2>4, <2>5
<1>7. ASSUME NEW t \in Thread,
             \/ CoolingDown(t) \/ InitWriteFails(t) \/ LoadFails(t) \/ LoadOverrun(t)
             \/ SendFails(t) \/ SetRetryAt(t)
      PROVE  Service!Next
  <2>1. PICK kind \in {"PACError", "OSError"} :
           /\ End(t, <<kind, url[t]>>) /\ url' = url /\ runner' = runner
           /\ \/ pc[t] \in {"restart", "init", "starting", "loading", "loadOverrun", "send"}
              \/ pc[t] = "cooldown" /\ kind = "PACError"
    BY <1>7 DEF CoolingDown, InitWriteFails, LoadFails, LoadOverrun, SendFails, SetRetryAt
  <2>2. Becoming(t)
    BY <2>1, ShownOnOne DEF End, Goto, Promise, Shown
  <2>3. Promise(t)' = "idle" /\ Shown(t)' = <<kind, url[t]>>
    BY <2>1 DEF End, Goto, Promise, Shown
  <2>4. Results[t][2] = url[t]
    BY DEF Results, Shown, ResultInv
  <2>5. Shown(t)' = <<kind, Results[t][2]>>
    BY <2>3, <2>4
  <2>6. Calls[t] = "asked" \/ (Calls[t] \in {"running", "lost"} /\ kind = "PACError")
    <3>1. \/ pc[t] \in {"restart", "init", "starting", "loading", "loadOverrun", "send"}
          \/ pc[t] = "cooldown" /\ kind = "PACError"
      BY <2>1
    <3>2. pc[t] \in {"restart", "init", "starting", "loading", "loadOverrun", "send"} =>
             Calls[t] = "asked"
      BY DEF Calls, Promise
    <3>3. pc[t] = "cooldown" => Calls[t] = "lost"
      BY DEF Calls, Promise
    <3>4. QED
      BY <3>1, <3>2, <3>3
  <2>7. Service!Refuse(t)
    BY <2>2, <2>3, <2>5, <2>6, Refusing
  <2>8. QED
    BY <2>7 DEF Service!Next
<1>8. ASSUME NEW t \in Thread,
             \/ AlreadyRestarted(t) \/ Spawn(t) \/ Started(t) \/ SendInit(t) \/ LoadTimeout(t)
             \/ Loaded(t) \/ Publish(t) \/ ClearFailed(t) \/ TakeRunner(t) \/ SetFailed(t)
             \/ BeginClose(t)
      PROVE  UNCHANGED <<Calls, Results, runner # 0>>
  <2>1. outcome' = outcome /\ url' = url /\ (runner' # 0) = (runner # 0)
    BY <1>8 DEF AlreadyRestarted, Spawn, Started, SendInit, LoadTimeout, Loaded, Publish,
       ClearFailed, TakeRunner, SetFailed, BeginClose
  <2>2. /\ \/ pc[t] \in Restarting \cup {"restart", "take"}
              /\ pc'[t] \in Restarting \cup {"take", "send"}
           \/ pc[t] = "overrun" /\ pc'[t] = "cooldown"
           \/ pc[t] = "idle" /\ pc'[t] = "closing"
        /\ \A s \in Thread : s # t => pc'[s] = pc[s]
    BY <1>8 DEF AlreadyRestarted, Spawn, Started, SendInit, LoadTimeout, Loaded, Publish,
       ClearFailed, TakeRunner, SetFailed, BeginClose, Goto, Restarting, Loading
  <2>3. \A s \in Thread : Promise(s)' = Promise(s)
    BY <2>2 DEF Promise, Restarting, Loading
  <2>4. QED
    BY <2>1, <2>3, ShownOnNone DEF Shown
<1>9. ASSUME NEW h \in Helper, Helpers(h) PROVE UNCHANGED <<pc, outcome, url, runner>>
  BY <1>9 DEF Helpers, HelperReplies, HelperCrashes, ReaderEnds
<1>10. Tick \/ UNCHANGED vars => UNCHANGED <<pc, outcome, url, runner>>
  BY DEF Tick, vars
<1>11. ASSUME NEW t \in Thread, Disturb(t) PROVE FALSE
  BY <1>11 DEF Disturb, InterruptLoad, InterruptCall
<1>12. QED
  BY <1>1, <1>2, <1>3, <1>4, <1>5, <1>6, <1>7, <1>8, <1>9, <1>10, <1>11
  DEF Next, Begin, Advance

(* PacScript keeps what PacService promises: each call ends with the         *)
(* script's answer for its own URL or with an error, one is evaluated at a   *)
(* time, and one that overran never answers (class docstring, script.py).    *)
THEOREM KeepsItsPromise == ASSUME MayInterrupt = FALSE PROVE Spec => ServiceSpec
<1>1. Init => ResultInv
  <2> SUFFICES ASSUME Init PROVE ResultInv
    OBVIOUS
  <2>1. \A t \in Thread : outcome[t] = <<"none", url[t]>>
    BY DEF Init
  <2>2. ASSUME NEW t \in Thread PROVE outcome[t][2] = url[t]
    <3>1. outcome[t] = <<"none", url[t]>>
      BY <2>1
    <3>2. QED
      BY <3>1
  <2>3. QED
    BY <2>1, <2>2 DEF ResultInv
<1>2. TypeOK /\ Control /\ OwnAnswer => ServiceTypes
  BY QueueTypesFollow DEF ServiceTypes
<1>3. Init => Service!Init
  BY DEF Init, Service!Init, Promise
<1>4. ServiceTypes /\ ServiceTypes' /\ ResultInv /\ [Next]_vars => ResultInv'
  BY ResultStep
<1>5. ServiceTypes /\ ServiceTypes' /\ ResultInv /\ ResultInv' /\ [Next]_vars =>
         Service!Next \/ UNCHANGED <<Calls, Results, runner # 0>>
  BY ServiceStep
<1>6. QED
  BY <1>1, <1>2, <1>3, <1>4, <1>5, TypeInvariant, ControlInvariant, AnswersAreOwn, PTL
  DEF Spec, ServiceSpec, Service!Spec, Calls, Results, Shown

-----------------------------------------------------------------------------
(* The host functions a script calls.                                        *)

DnsEntry == [address : Addresses \cup {NoAddress}, stamp : Int, read : Int]

(* Only dnsResolve is under way, and no longer than it may be; what it has    *)
(* is from after it began.  An entry was stored within one resolution of      *)
(* having been read, and nothing is stored for a ttl of zero.                *)
DnsInv ==
    /\ clock \in Nat /\ call \in ScriptCalls /\ address \in Addresses \cup {NoAddress}
    /\ cache \in DnsEntry /\ got \in [Threads -> DnsEntry] /\ began \in [Threads -> Nat]
    /\ fpc \in [Threads -> {"idle", "resolving", "resolved", "returned"}]
    /\ cache # NoEntry =>
         /\ call.ttl > 0 /\ cache.read <= cache.stamp /\ cache.stamp <= clock
         /\ cache.stamp - cache.read <= DnsTimeout
    /\ \A t \in Threads :
        /\ fpc[t] # "idle" => call.fn = "dnsResolve"
        /\ fpc[t] \in {"resolving", "resolved"} =>
             began[t] <= clock /\ clock - began[t] <= DnsTimeout
        /\ fpc[t] = "resolved" => got[t].read >= began[t] /\ got[t].read <= clock
    /\ ResolvedRecently

(* No address is cached or asked for at first.                               *)
LEMMA DnsInit == ASSUME FunctionsInit PROVE DnsInv
<1>1. call \in ScriptCalls /\ address \in Addresses \cup {NoAddress}
  BY DEF FunctionsInit
<1>2. NoEntry \in DnsEntry
  BY DEF NoEntry, DnsEntry
<1>3. QED
  BY <1>1, <1>2, Zenon DEF FunctionsInit, DnsInv, ResolvedRecently

(* Every step of a thread, of the clock and of the name servers keeps it.    *)
LEMMA DnsStep == ASSUME DnsInv, [FunctionsNext]_functionsVars PROVE DnsInv'
<1> USE DEF DnsInv
<1>1. ASSUME NEW t \in Threads, Resolve(t) PROVE DnsInv'
  <2>1. /\ call.ttl \in Nat /\ DnsTimeout \in Nat
    BY <1>1, DnsAssumption DEF Resolve
  <2>2. CASE Hit
    <3>1. /\ fpc[t] = "idle" /\ call.fn = "dnsResolve"
          /\ began' = [began EXCEPT ![t] = clock] /\ got' = [got EXCEPT ![t] = cache]
          /\ fpc' = [fpc EXCEPT ![t] = "returned"] /\ UNCHANGED <<clock, call, address, cache>>
      BY <1>1, <2>2 DEF Resolve
    <3>2. /\ cache # NoEntry /\ clock - cache.stamp < call.ttl
          /\ cache.read <= cache.stamp /\ cache.stamp - cache.read <= DnsTimeout
          /\ cache.read \in Int /\ cache.stamp \in Int
      BY <2>2 DEF Hit, DnsEntry
    <3>3. clock - cache.read <= call.ttl + DnsTimeout
      BY <2>1, <3>2
    <3>4. ResolvedRecently'
      BY <2>1, <3>1, <3>2, <3>3 DEF ResolvedRecently
    <3>5. QED
      BY <3>1, <3>4
  <2>3. CASE ~Hit
    BY <1>1, <2>1, <2>3 DEF Resolve, ResolvedRecently
  <2>4. QED
    BY <2>2, <2>3
<1>2. ASSUME NEW t \in Threads, NameServerAnswers(t) PROVE DnsInv'
  <2> USE <1>2 DEF NameServerAnswers
  <2>1. got' \in [Threads -> DnsEntry]
    BY DEF DnsEntry
  <2>2. got'[t].read = clock /\ \A u \in Threads \ {t} : got'[u] = got[u]
    OBVIOUS
  <2>3. QED
    BY <2>1, <2>2 DEF ResolvedRecently
<1>3. ASSUME NEW t \in Threads, Store(t) PROVE DnsInv'
  <2> USE <1>3 DEF Store
  <2>1. /\ call.ttl \in Nat /\ DnsTimeout \in Nat
    BY DnsAssumption
  <2>2. cache' = cache \/ /\ call.ttl > 0 /\ cache'.stamp = clock /\ cache'.read = got[t].read
                          /\ cache' \in DnsEntry
    BY DEF DnsEntry
  <2>3. ResolvedRecently'
    BY <2>1 DEF ResolvedRecently, DnsEntry
  <2>4. QED
    BY <2>1, <2>2, <2>3 DEF DnsEntry
<1>4. ASSUME NEW t \in Threads, Return(t) PROVE DnsInv'
  <2>1. NoEntry \in DnsEntry
    BY DEF NoEntry, DnsEntry
  <2>2. QED
    BY <1>4, <2>1 DEF Return, ResolvedRecently
<1>5. CASE ClearDnsCache
  <2>1. NoEntry \in DnsEntry
    BY DEF NoEntry, DnsEntry
  <2>2. QED
    BY <1>5, <2>1 DEF ClearDnsCache, ResolvedRecently
<1>6. CASE AddressChanges
  BY <1>6 DEF AddressChanges, ResolvedRecently
<1>7. CASE SecondPasses
  <2> USE <1>7 DEF SecondPasses
  <2>1. DnsTimeout \in Nat
    BY DnsAssumption
  <2>2. ResolvedRecently'
    BY DEF ResolvedRecently
  <2>3. QED
    BY <2>1, <2>2 DEF DnsEntry
<1>8. CASE UNCHANGED functionsVars
  BY <1>8 DEF functionsVars, ResolvedRecently
<1>9. QED
  BY <1>1, <1>2, <1>3, <1>4, <1>5, <1>6, <1>7, <1>8 DEF FunctionsNext

(* An address that dnsResolve returns was read from the name server no more  *)
(* than the ttl and one resolution before the call, however the threads that *)
(* share the one cache entry interleave (pac/_functions.py).                 *)
THEOREM DnsIsFresh == FunctionsSpec => []ResolvedRecently
<1>1. FunctionsInit => DnsInv
  BY DnsInit
<1>2. DnsInv /\ [FunctionsNext]_functionsVars => DnsInv'
  BY DnsStep
<1>3. DnsInv => ResolvedRecently
  BY DEF DnsInv
<1>4. QED
  BY <1>1, <1>2, <1>3, PTL DEF FunctionsSpec

-----------------------------------------------------------------------------
(* The ranges of days, dates and times.  Moments follow each other like the  *)
(* digits of a counter; they compare field by field; so the fields that a    *)
(* call names follow each other round, and a range turns at its ends.        *)

(* A quotient and its remainder when the number grows by one: a carry or not.  *)
LEMMA Carry ==
    ASSUME NEW t \in Nat, NEW k \in Nat \ {0}
    PROVE  /\ t \div k \in Nat /\ t % k \in 0 .. k - 1
           /\ \/ (t + 1) % k = (t % k) + 1 /\ (t + 1) \div k = t \div k
              \/ t % k = k - 1 /\ (t + 1) % k = 0 /\ (t + 1) \div k = (t \div k) + 1
BY Z3

(* Dividing by a product is dividing by its factors in turn.                  *)
LEMMA DivideTwice ==
    \A t \in Nat, a \in Nat \ {0}, b \in Nat \ {0} : t \div (a * b) = (t \div a) \div b
BY Z3

InCalendar(m) ==
    /\ m \in [1 .. 6 -> Nat] /\ m[1] >= 32 /\ m[2] \in 1 .. LastMonth /\ m[3] \in 1 .. LastDay
    /\ m[4] \in 0 .. LastHour /\ m[5] \in 0 .. LastMinute /\ m[6] \in 0 .. LastSecond

(* One day after another, and one second after another.                      *)
NextDay(m, n) ==
    \/ n[1] = m[1] /\ n[2] = m[2] /\ n[3] = m[3] + 1
    \/ /\ m[3] = LastDay /\ n[3] = 1
       /\ \/ n[1] = m[1] /\ n[2] = m[2] + 1
          \/ n[1] = m[1] + 1 /\ m[2] = LastMonth /\ n[2] = 1
SameDay(m, n) == n[1] = m[1] /\ n[2] = m[2] /\ n[3] = m[3]
NextSecond(m, n) ==
    \/ n[6] = m[6] + 1 /\ n[5] = m[5] /\ n[4] = m[4] /\ SameDay(m, n)
    \/ /\ m[6] = LastSecond /\ n[6] = 0
       /\ \/ n[5] = m[5] + 1 /\ n[4] = m[4] /\ SameDay(m, n)
          \/ /\ m[5] = LastMinute /\ n[5] = 0
             /\ \/ n[4] = m[4] + 1 /\ SameDay(m, n)
                \/ m[4] = LastHour /\ n[4] = 0 /\ NextDay(m, n)

(* A calendar that counts seconds shows one moment after another.            *)
LEMMA MomentsFollow ==
    ASSUME NEW t \in Nat
    PROVE  /\ InCalendar(Moment(t)) /\ InCalendar(Moment(t + 1))
           /\ NextSecond(Moment(t), Moment(t + 1))
<1> DEFINE S == LastSecond + 1
           M == LastMinute + 1
           H == LastHour + 1
           minute(x) == x \div S
           hour(x) == minute(x) \div M
           day(x) == hour(x) \div H
           month(x) == day(x) \div LastDay
           year(x) == month(x) \div LastMonth
<1> DEFINE A(x) == x % S
           B(x) == minute(x) % M
           C(x) == hour(x) % H
           D(x) == day(x) % LastDay
           E(x) == month(x) % LastMonth
<1>1. /\ S \in Nat \ {0} /\ M \in Nat \ {0} /\ H \in Nat \ {0}
      /\ S - 1 = LastSecond /\ M - 1 = LastMinute /\ H - 1 = LastHour
      /\ LastDay \in Nat \ {0} /\ LastMonth \in Nat \ {0} /\ FirstYear \in Nat /\ FirstYear >= 32
  BY CalendarAssumption
<1>2. ASSUME NEW x \in Nat
      PROVE  Moment(x) = <<FirstYear + year(x), E(x) + 1, D(x) + 1, C(x), B(x), A(x)>>
  <2> HIDE DEF S, M, H
  <2>1. PerHour = S * M /\ PerDay = H * PerHour
    BY <1>1 DEF PerHour, PerDay, S, M, H
  <2>2. x \div PerHour = hour(x) /\ PerHour \in Nat \ {0}
    <3>1. x \div (S * M) = (x \div S) \div M
      BY <1>1, DivideTwice, Zenon
    <3>2. S * M \in Nat \ {0}
      BY <1>1
    <3>3. QED
      BY <2>1, <3>1, <3>2, Zenon
  <2>3. PerDay = PerHour * H
    BY <1>1, <2>1, <2>2
  <2>4. x \div PerDay = (x \div PerHour) \div H
    <3>1. x \div (PerHour * H) = (x \div PerHour) \div H
      BY <1>1, <2>2, DivideTwice, Zenon
    <3>2. QED
      BY <2>3, <3>1, Zenon
  <2>5. minute(x) \in Nat
    BY <1>1, Carry
  <2>6. hour(x) \in Nat
    BY <1>1, <2>2, Carry
  <2>7. x \div PerDay = day(x)
    BY <2>2, <2>4
  <2>8. x \div PerDay \in Nat
    BY <1>1, <2>2, <2>4, <2>6, Carry
  <2>9. (x \div PerDay) \div (LastMonth * LastDay) = ((x \div PerDay) \div LastDay) \div LastMonth
    <3>1. LastMonth * LastDay = LastDay * LastMonth
      BY <1>1
    <3>2. QED
      BY <1>1, <2>8, <3>1, DivideTwice
  <2>10. QED
    BY <2>2, <2>7, <2>9 DEF Moment, S, M, H
<1>3. \A x : /\ hour(x) = minute(x) \div M /\ day(x) = hour(x) \div H
             /\ month(x) = day(x) \div LastDay /\ year(x) = month(x) \div LastMonth
             /\ minute(x) = x \div S
  OBVIOUS
<1>4. \A x : /\ A(x) = x % S /\ B(x) = minute(x) % M /\ C(x) = hour(x) % H
             /\ D(x) = day(x) % LastDay /\ E(x) = month(x) % LastMonth
  OBVIOUS
<1> HIDE DEF A, B, C, D, E, minute, hour, day, month, year, S, M, H
<1>5. ASSUME NEW x \in Nat
      PROVE  /\ minute(x) \in Nat /\ hour(x) \in Nat /\ day(x) \in Nat
             /\ month(x) \in Nat /\ year(x) \in Nat
             /\ A(x) \in 0 .. S - 1 /\ B(x) \in 0 .. M - 1 /\ C(x) \in 0 .. H - 1
             /\ D(x) \in 0 .. LastDay - 1 /\ E(x) \in 0 .. LastMonth - 1
  <2>1. minute(x) \in Nat /\ A(x) \in 0 .. S - 1
    BY <1>1, <1>3, <1>4, Carry
  <2>2. hour(x) \in Nat /\ B(x) \in 0 .. M - 1
    BY <1>1, <1>3, <1>4, <2>1, Carry
  <2>3. day(x) \in Nat /\ C(x) \in 0 .. H - 1
    BY <1>1, <1>3, <1>4, <2>2, Carry
  <2>4. month(x) \in Nat /\ D(x) \in 0 .. LastDay - 1
    BY <1>1, <1>3, <1>4, <2>3, Carry
  <2>5. year(x) \in Nat /\ E(x) \in 0 .. LastMonth - 1
    BY <1>1, <1>3, <1>4, <2>4, Carry
  <2>6. QED
    BY <2>1, <2>2, <2>3, <2>4, <2>5
<1>6. ASSUME NEW x \in Nat PROVE InCalendar(Moment(x))
  <2>1. /\ year(x) \in Nat /\ E(x) \in 0 .. LastMonth - 1 /\ D(x) \in 0 .. LastDay - 1
        /\ C(x) \in 0 .. LastHour /\ B(x) \in 0 .. LastMinute /\ A(x) \in 0 .. LastSecond
    BY <1>1, <1>5, Zenon
  <2>2. Moment(x) = <<FirstYear + year(x), E(x) + 1, D(x) + 1, C(x), B(x), A(x)>>
    BY <1>2
  <2>3. QED
    BY <1>1, <2>1, <2>2 DEF InCalendar
<1>7. \/ A(t + 1) = A(t) + 1 /\ minute(t + 1) = minute(t)
      \/ A(t) = S - 1 /\ A(t + 1) = 0 /\ minute(t + 1) = minute(t) + 1
  BY <1>1, <1>3, <1>4, Carry
<1>8. ASSUME minute(t + 1) = minute(t) + 1
      PROVE  \/ B(t + 1) = B(t) + 1 /\ hour(t + 1) = hour(t)
             \/ B(t) = M - 1 /\ B(t + 1) = 0 /\ hour(t + 1) = hour(t) + 1
  <2>1. minute(t) \in Nat
    BY <1>5
  <2>2. \/ (minute(t) + 1) % M = (minute(t) % M) + 1 /\ (minute(t) + 1) \div M = minute(t) \div M
        \/ /\ minute(t) % M = M - 1 /\ (minute(t) + 1) % M = 0
           /\ (minute(t) + 1) \div M = (minute(t) \div M) + 1
    BY <1>1, <2>1, Carry, Zenon
  <2>3. QED
    BY <1>8, <1>3, <1>4, <2>2, Zenon
<1>9. ASSUME hour(t + 1) = hour(t) + 1
      PROVE  \/ C(t + 1) = C(t) + 1 /\ day(t + 1) = day(t)
             \/ C(t) = H - 1 /\ C(t + 1) = 0 /\ day(t + 1) = day(t) + 1
  <2>1. hour(t) \in Nat
    BY <1>5
  <2>2. \/ (hour(t) + 1) % H = (hour(t) % H) + 1 /\ (hour(t) + 1) \div H = hour(t) \div H
        \/ /\ hour(t) % H = H - 1 /\ (hour(t) + 1) % H = 0
           /\ (hour(t) + 1) \div H = (hour(t) \div H) + 1
    BY <1>1, <2>1, Carry, Zenon
  <2>3. QED
    BY <1>9, <1>3, <1>4, <2>2, Zenon
<1>10. ASSUME day(t + 1) = day(t) + 1
      PROVE  \/ D(t + 1) = D(t) + 1 /\ month(t + 1) = month(t)
             \/ D(t) = LastDay - 1 /\ D(t + 1) = 0 /\ month(t + 1) = month(t) + 1
  <2>1. day(t) \in Nat
    BY <1>5
  <2>2. \/ /\ (day(t) + 1) % LastDay = (day(t) % LastDay) + 1
           /\ (day(t) + 1) \div LastDay = day(t) \div LastDay
        \/ /\ day(t) % LastDay = LastDay - 1 /\ (day(t) + 1) % LastDay = 0
           /\ (day(t) + 1) \div LastDay = (day(t) \div LastDay) + 1
    BY <1>1, <2>1, Carry, Zenon
  <2>3. QED
    BY <1>10, <1>3, <1>4, <2>2, Zenon
<1>11. ASSUME month(t + 1) = month(t) + 1
      PROVE  \/ E(t + 1) = E(t) + 1 /\ year(t + 1) = year(t)
             \/ E(t) = LastMonth - 1 /\ E(t + 1) = 0 /\ year(t + 1) = year(t) + 1
  <2>1. month(t) \in Nat
    BY <1>5
  <2>2. \/ /\ (month(t) + 1) % LastMonth = (month(t) % LastMonth) + 1
           /\ (month(t) + 1) \div LastMonth = month(t) \div LastMonth
        \/ /\ month(t) % LastMonth = LastMonth - 1 /\ (month(t) + 1) % LastMonth = 0
           /\ (month(t) + 1) \div LastMonth = (month(t) \div LastMonth) + 1
    BY <1>1, <2>1, Carry, Zenon
  <2>3. QED
    BY <1>11, <1>3, <1>4, <2>2, Zenon
<1>12. /\ minute(t + 1) = minute(t) => B(t + 1) = B(t) /\ hour(t + 1) = hour(t)
       /\ hour(t + 1) = hour(t) => C(t + 1) = C(t) /\ day(t + 1) = day(t)
       /\ day(t + 1) = day(t) => D(t + 1) = D(t) /\ month(t + 1) = month(t)
       /\ month(t + 1) = month(t) => E(t + 1) = E(t) /\ year(t + 1) = year(t)
  BY <1>3, <1>4
<1>13. NextSecond(Moment(t), Moment(t + 1))
  <2>1. t + 1 \in Nat
    OBVIOUS
  <2>2. /\ Moment(t) = <<FirstYear + year(t), E(t) + 1, D(t) + 1, C(t), B(t), A(t)>>
        /\ Moment(t + 1) = <<FirstYear + year(t + 1), E(t + 1) + 1, D(t + 1) + 1,
                             C(t + 1), B(t + 1), A(t + 1)>>
    BY <1>2, <2>1
  <2>3. /\ year(t) \in Nat /\ year(t + 1) \in Nat /\ E(t) \in Nat /\ E(t + 1) \in Nat
        /\ D(t) \in Nat /\ D(t + 1) \in Nat
    <3>1. ASSUME NEW x \in Nat PROVE year(x) \in Nat /\ E(x) \in Nat /\ D(x) \in Nat
      <4>1. E(x) \in 0 .. LastMonth - 1 /\ D(x) \in 0 .. LastDay - 1
        BY <1>5, Zenon
      <4>2. year(x) \in Nat
        BY <1>5, Zenon
      <4>3. QED
        BY <1>1, <4>1, <4>2
    <3>2. QED
      BY <2>1, <3>1, Zenon
  <2>4. /\ SameDay(Moment(t), Moment(t + 1)) \/ day(t + 1) # day(t)
        /\ NextDay(Moment(t), Moment(t + 1)) \/ day(t + 1) # day(t) + 1
    BY <1>1, <1>10, <1>11, <1>12, <2>2, <2>3 DEF SameDay, NextDay
  <2> HIDE DEF SameDay, NextDay
  <2>5. /\ Moment(t)[6] = A(t) /\ Moment(t)[5] = B(t) /\ Moment(t)[4] = C(t)
        /\ Moment(t + 1)[6] = A(t + 1) /\ Moment(t + 1)[5] = B(t + 1)
        /\ Moment(t + 1)[4] = C(t + 1)
    BY <2>2
  <2>6. QED
    BY <1>1, <1>7, <1>8, <1>9, <1>12, <2>4, <2>5 DEF NextSecond
<1>14. QED
  BY <1>6, <1>13

(* How moments and their parts compare.                                      *)
Lex2(a1, a2, b1, b2) == a1 < b1 \/ (a1 = b1 /\ a2 <= b2)
Lex3(a1, a2, a3, b1, b2, b3) == a1 < b1 \/ (a1 = b1 /\ Lex2(a2, a3, b2, b3))
Before3(a, b) == Lex3(a[1], a[2], a[3], b[1], b[2], b[3])
Before6(a, b) ==
    \/ a[1] < b[1]
    \/ /\ a[1] = b[1]
       /\ \/ a[2] < b[2]
          \/ /\ a[2] = b[2]
             /\ \/ a[3] < b[3]
                \/ /\ a[3] = b[3]
                   /\ \/ a[4] < b[4]
                      \/ /\ a[4] = b[4]
                         /\ a[5] < b[5] \/ (a[5] = b[5] /\ a[6] <= b[6])

LEMMA UpTo1 ==
    ASSUME NEW a \in [1 .. 1 -> Int], NEW b \in [1 .. 1 -> Int]
    PROVE  UpTo(a, b) <=> a[1] <= b[1]
<1>1. a = b <=> a[1] = b[1]
  OBVIOUS
<1>2. QED
  BY <1>1 DEF UpTo

LEMMA UpTo3 ==
    ASSUME NEW a \in [1 .. 3 -> Int], NEW b \in [1 .. 3 -> Int]
    PROVE  UpTo(a, b) <=> Before3(a, b)
<1> DEFINE Less(i) == a[i] < b[i] /\ \A j \in 1 .. i - 1 : a[j] = b[j]
           Same == a[1] = b[1] /\ a[2] = b[2] /\ a[3] = b[3]
<1>1. a = b <=> \A i \in 1 .. 3 : a[i] = b[i]
  OBVIOUS
<1>2. (\A i \in 1 .. 3 : a[i] = b[i]) <=> Same
  OBVIOUS
<1>3. UpTo(a, b) <=> a = b \/ \E i \in 1 .. 3 : Less(i)
  BY DEF UpTo
<1>4. Less(1) <=> a[1] < b[1]
  OBVIOUS
<1>5. Less(2) <=> a[2] < b[2] /\ a[1] = b[1]
  OBVIOUS
<1>6. Less(3) <=> a[3] < b[3] /\ a[1] = b[1] /\ a[2] = b[2]
  OBVIOUS
<1> HIDE DEF Less, Same
<1>7. (\E i \in 1 .. 3 : Less(i)) <=> Less(1) \/ Less(2) \/ Less(3)
  OBVIOUS
<1>8. UpTo(a, b) <=> Same \/ Less(1) \/ Less(2) \/ Less(3)
  BY <1>1, <1>2, <1>3, <1>7, Zenon
<1>9. /\ a[1] \in Int /\ b[1] \in Int
      /\ a[2] \in Int /\ b[2] \in Int
      /\ a[3] \in Int /\ b[3] \in Int
  OBVIOUS
<1>10. Before3(a, b) <=> \/ Same
                         \/ a[1] < b[1]
                         \/ a[2] < b[2] /\ a[1] = b[1]
                         \/ a[3] < b[3] /\ a[1] = b[1] /\ a[2] = b[2]
  BY <1>9 DEF Before3, Lex2, Lex3, Same
<1>11. QED
  BY <1>4, <1>5, <1>6, <1>8, <1>10, Zenon

LEMMA UpTo6 ==
    ASSUME NEW a \in [1 .. 6 -> Int], NEW b \in [1 .. 6 -> Int]
    PROVE  UpTo(a, b) <=> Before6(a, b)
<1> DEFINE Less(i) == a[i] < b[i] /\ \A j \in 1 .. i - 1 : a[j] = b[j]
           Days == a[1] = b[1] /\ a[2] = b[2] /\ a[3] = b[3]
           Same == Days /\ a[4] = b[4] /\ a[5] = b[5] /\ a[6] = b[6]
<1>1. a = b <=> \A i \in 1 .. 6 : a[i] = b[i]
  OBVIOUS
<1>2. (\A i \in 1 .. 6 : a[i] = b[i]) <=> Same
  OBVIOUS
<1>3. UpTo(a, b) <=> a = b \/ \E i \in 1 .. 6 : Less(i)
  BY DEF UpTo
<1>4. Less(1) <=> a[1] < b[1]
  OBVIOUS
<1>5. Less(2) <=> a[2] < b[2] /\ a[1] = b[1]
  OBVIOUS
<1>6. Less(3) <=> a[3] < b[3] /\ a[1] = b[1] /\ a[2] = b[2]
  OBVIOUS
<1>7. Less(4) <=> a[4] < b[4] /\ Days
  OBVIOUS
<1>8. Less(5) <=> a[5] < b[5] /\ Days /\ a[4] = b[4]
  OBVIOUS
<1>9. Less(6) <=> a[6] < b[6] /\ Days /\ a[4] = b[4] /\ a[5] = b[5]
  OBVIOUS
<1> HIDE DEF Less, Same, Days
<1>10. (\E i \in 1 .. 6 : Less(i)) <=>
          Less(1) \/ Less(2) \/ Less(3) \/ Less(4) \/ Less(5) \/ Less(6)
  OBVIOUS
<1>11. UpTo(a, b) <=>
         Same \/ Less(1) \/ Less(2) \/ Less(3) \/ Less(4) \/ Less(5) \/ Less(6)
  BY <1>1, <1>2, <1>3, <1>10, Zenon
<1>12. /\ a[1] \in Int /\ b[1] \in Int
      /\ a[2] \in Int /\ b[2] \in Int
      /\ a[3] \in Int /\ b[3] \in Int
      /\ a[4] \in Int /\ b[4] \in Int
      /\ a[5] \in Int /\ b[5] \in Int
      /\ a[6] \in Int /\ b[6] \in Int
  OBVIOUS
<1>13. Before6(a, b) <=> \/ Same
                         \/ a[1] < b[1]
                         \/ a[2] < b[2] /\ a[1] = b[1]
                         \/ a[3] < b[3] /\ a[1] = b[1] /\ a[2] = b[2]
                         \/ a[4] < b[4] /\ Days
                         \/ a[5] < b[5] /\ Days /\ a[4] = b[4]
                         \/ a[6] < b[6] /\ Days /\ a[4] = b[4] /\ a[5] = b[5]
  BY <1>12 DEF Before6, Same, Days
<1>14. QED
  BY <1>4, <1>5, <1>6, <1>7, <1>8, <1>9, <1>11, <1>13, Zenon

(* A range that is turned on where its first moment begins, off where its     *)
(* last one is over, and is left alone otherwise.                            *)
Turns(never, changes, starts, ends, was, is) ==
    /\ never => ~is
    /\ ~never /\ changes /\ starts => is
    /\ ~never /\ changes /\ ~starts /\ ends => ~is
    /\ ~never /\ ~(changes /\ (starts \/ ends)) => (is <=> was)

(* The halves of a call's arguments, one by one.                             *)
LEMMA HalvesAre ==
    ASSUME NEW V, NEW args \in Seq(V), Len(args) \in {1, 2, 4, 6}
    PROVE  /\ Half(args) \in 1 .. 3 /\ DOMAIN args = 1 .. Len(args)
           /\ Len(args) = 1 => Half(args) = 1
           /\ Len(args) = 2 => Half(args) = 1
           /\ Len(args) = 4 => Half(args) = 2
           /\ Len(args) = 6 => Half(args) = 3
           /\ Lower(args) = [i \in 1 .. Half(args) |-> args[i]]
           /\ Upper(args) = [i \in 1 .. Half(args) |-> args[Len(args) - Half(args) + i]]
<1> DEFINE k == Half(args)
<1>0. k = IF Len(args) = 1 THEN 1 ELSE Len(args) \div 2
  BY DEF Half
<1> HIDE DEF k
<1>1. 2 \div 2 = 1 /\ 4 \div 2 = 2 /\ 6 \div 2 = 3
  OBVIOUS
<1>2. CASE Len(args) = 1
  <2>1. k = 1
    BY <1>0, <1>1, <1>2
  <2>2. Lower(args) = SubSeq(args, 1, 1) /\ Upper(args) = SubSeq(args, 1, 1)
    BY <1>1, <1>2, <2>1 DEF Lower, Upper, k
  <2>3. SubSeq(args, 1, 1) = [i \in 1 .. 1 |-> args[i]]
    OBVIOUS
  <2>4. SubSeq(args, 1, 1) = [i \in 1 .. 1 |-> args[1 - 1 + i]]
    BY <1>2
  <2>5. QED
    BY <1>2, <2>1, <2>2, <2>3, <2>4 DEF k
<1>3. CASE Len(args) = 2
  <2>1. k = 1
    BY <1>0, <1>1, <1>3
  <2>2. Lower(args) = SubSeq(args, 1, 1) /\ Upper(args) = SubSeq(args, 2, 2)
    BY <1>1, <1>3, <2>1 DEF Lower, Upper, k
  <2>3. SubSeq(args, 1, 1) = [i \in 1 .. 1 |-> args[i]]
    OBVIOUS
  <2>4. SubSeq(args, 2, 2) = [i \in 1 .. 1 |-> args[2 - 1 + i]]
    BY <1>3
  <2>5. QED
    BY <1>3, <2>1, <2>2, <2>3, <2>4 DEF k
<1>4. CASE Len(args) = 4
  <2>1. k = 2
    BY <1>0, <1>1, <1>4
  <2>2. Lower(args) = SubSeq(args, 1, 2) /\ Upper(args) = SubSeq(args, 3, 4)
    BY <1>1, <1>4, <2>1 DEF Lower, Upper, k
  <2>3. SubSeq(args, 1, 2) = [i \in 1 .. 2 |-> args[i]]
    OBVIOUS
  <2>4. SubSeq(args, 3, 4) = [i \in 1 .. 2 |-> args[4 - 2 + i]]
    BY <1>4
  <2>5. QED
    BY <1>4, <2>1, <2>2, <2>3, <2>4 DEF k
<1>5. CASE Len(args) = 6
  <2>1. k = 3
    BY <1>0, <1>1, <1>5
  <2>2. Lower(args) = SubSeq(args, 1, 3) /\ Upper(args) = SubSeq(args, 4, 6)
    BY <1>1, <1>5, <2>1 DEF Lower, Upper, k
  <2>3. SubSeq(args, 1, 3) = [i \in 1 .. 3 |-> args[i]]
    OBVIOUS
  <2>4. SubSeq(args, 4, 6) = [i \in 1 .. 3 |-> args[6 - 3 + i]]
    BY <1>5
  <2>5. QED
    BY <1>5, <2>1, <2>2, <2>3, <2>4 DEF k
<1>6. QED
  BY <1>2, <1>3, <1>4, <1>5

(* The days of a week follow each other round.                               *)
LEMMA WeekdayTurns ==
    ASSUME NEW days \in Seq(0 .. 7), Len(days) \in 1 .. 2,
           NEW v \in 0 .. 6, NEW w \in 0 .. 6, w = v \/ w = v + 1 \/ (v = 6 /\ w = 0)
    PROVE  Turns(\E i \in DOMAIN days : days[i] \notin 0 .. 6, <<w>> # <<v>>,
                 <<w>> = Lower(days), <<v>> = Upper(days),
                 WeekdayRange(days, v), WeekdayRange(days, w))
<1> DEFINE d == days[1]
           e == days[Len(days)]
           bad == \E i \in DOMAIN days : days[i] \notin 0 .. 6
           In(x) == IF d <= e THEN d <= x /\ x <= e ELSE d <= x \/ x <= e
<1>1. d \in Int /\ e \in Int /\ (bad <=> ~(\A i \in DOMAIN days : days[i] \in 0 .. 6))
  OBVIOUS
<1>2. ASSUME NEW x \in 0 .. 6 PROVE WeekdayRange(days, x) <=> ~bad /\ In(x)
  <2> HIDE DEF d, e
  <2>1. /\ UpTo(<<d>>, <<e>>) <=> d <= e
        /\ UpTo(<<d>>, <<x>>) <=> d <= x
        /\ UpTo(<<x>>, <<e>>) <=> x <= e
    <3>1. \A y \in Int : <<y>> \in [1 .. 1 -> Int] /\ <<y>>[1] = y
      OBVIOUS
    <3>2. x \in Int
      OBVIOUS
    <3>3. QED
      BY <1>1, <3>1, <3>2, UpTo1
  <2>2. Within(<<d>>, <<x>>, <<e>>) <=> In(x)
    BY <2>1 DEF Within
  <2>3. WeekdayRange(days, x) <=> ~bad /\ Within(<<d>>, <<x>>, <<e>>)
    BY <1>1 DEF WeekdayRange, d, e
  <2>4. QED
    BY <2>2, <2>3, Zenon
<1>3. /\ <<w>> = Lower(days) <=> w = d
      /\ <<v>> = Upper(days) <=> v = e
      /\ <<w>> # <<v>> <=> w # v
  <2>1. Lower(days) = [i \in 1 .. 1 |-> d] /\ Upper(days) = [i \in 1 .. 1 |-> e]
    <3>1. Len(days) \in {1, 2, 4, 6} /\ (Len(days) = 1 \/ Len(days) = 2)
      OBVIOUS
    <3>2. /\ Lower(days) = [i \in 1 .. 1 |-> days[i]]
          /\ Upper(days) = [i \in 1 .. 1 |-> days[Len(days) - 1 + i]]
      <4>1. Half(days) = 1
        <5>1. 2 \div 2 = 1
          OBVIOUS
        <5>2. QED
          BY <3>1, <5>1 DEF Half
      <4>2. /\ Lower(days) = [i \in 1 .. Half(days) |-> days[i]]
            /\ Upper(days) = [i \in 1 .. Half(days) |-> days[Len(days) - Half(days) + i]]
        BY <3>1, HalvesAre
      <4>3. QED
        BY <4>1, <4>2
    <3>3. QED
      BY <3>1, <3>2
  <2>2. \A x, y : <<x>> = [i \in 1 .. 1 |-> y] <=> x = y
    OBVIOUS
  <2>3. QED
    BY <2>1, <2>2
<1>4. \A i \in DOMAIN days : i \in 1 .. Len(days)
  OBVIOUS
<1>5. ~bad => d \in 0 .. 6 /\ e \in 0 .. 6
  BY <1>1
<1> HIDE DEF d, e, bad
<1>6. Turns(bad, w # v, w = d, v = e, ~bad /\ In(v), ~bad /\ In(w))
  BY <1>1, <1>5 DEF Turns
<1>7. QED
  BY <1>2, <1>3, <1>6 DEF Turns, bad

(* A step of an order that goes round: s to e is the range, m the place that  *)
(* is left and n the next one, the lowest after the highest.                 *)
NextInOrder(se, sm, sn, me, ne, begins, over) ==
    \/ /\ (sn <=> sm \/ begins) /\ (ne <=> me /\ ~over)
       /\ begins => ((se <=> ne) /\ ~sm)
       /\ over => ((se <=> sm) /\ me)
    \/ /\ sm /\ ne /\ (sn <=> begins) /\ (me <=> over)
       /\ begins \/ over => se

(* The part of a moment that a time names, at both of its ends.               *)
TimeOf(args, x) == [i \in DOMAIN Lower(args) |-> x[3 + i]]

(* The hours, minutes and seconds of a day follow each other round.           *)
LEMMA TimeTurns ==
    ASSUME NEW args, IsTimes(args), NEW m, NEW n, InCalendar(m), InCalendar(n), NextSecond(m, n)
    PROVE  Turns(Len(args) \notin {1, 2, 4, 6} \/ (Len(args) = 2 /\ args[1] > args[2]),
                 TimeOf(args, n) # TimeOf(args, m),
                 TimeOf(args, n) = Lower(args), TimeOf(args, m) = Upper(args),
                 TimeRange(args, SubSeq(m, 4, 6)), TimeRange(args, SubSeq(n, 4, 6)))
<1> DEFINE T(x) == SubSeq(x, 4, 6)
           k == Half(args)
           a(i) == args[i]
           b(i) == args[Len(args) - k + i]
<1>1. LastHour \in Nat /\ LastMinute \in Nat /\ LastSecond \in Nat
  BY CalendarAssumption
<1>0. args \in Seq(Nat) /\ Len(args) \in Nat
  BY DEF IsTimes
<1>2. ASSUME NEW x, InCalendar(x)
      PROVE  /\ T(x) \in [1 .. 3 -> Int] /\ T(x)[1] = x[4] /\ T(x)[2] = x[5] /\ T(x)[3] = x[6]
             /\ x[4] \in 0 .. LastHour /\ x[5] \in 0 .. LastMinute /\ x[6] \in 0 .. LastSecond
  <2>1. x \in [1 .. 6 -> Nat]
    BY <1>2 DEF InCalendar
  <2>2. T(x) = [i \in 1 .. 3 |-> x[3 + i]]
    BY <2>1
  <2>3. x[4] \in Int /\ x[5] \in Int /\ x[6] \in Int
    BY <2>1
  <2>4. [i \in 1 .. 3 |-> x[3 + i]] = <<x[4], x[5], x[6]>>
    OBVIOUS
  <2> HIDE DEF T
  <2>5. /\ T(x) \in [1 .. 3 -> Int] /\ T(x)[1] = x[4] /\ T(x)[2] = x[5] /\ T(x)[3] = x[6]
    BY <2>2, <2>3, <2>4
  <2>6. QED
    BY <1>2, <2>5 DEF InCalendar
<1>3. CASE Len(args) \notin {1, 2, 4, 6}
  BY <1>3 DEF Turns, TimeRange
<1>4. ASSUME Len(args) \in {1, 2, 4, 6}
      PROVE  /\ k \in 1 .. 3 /\ DOMAIN args = 1 .. Len(args)
             /\ Len(args) = 1 => k = 1
             /\ Len(args) = 2 => k = 1
             /\ Len(args) = 4 => k = 2
             /\ Len(args) = 6 => k = 3
             /\ Lower(args) = [i \in 1 .. k |-> a(i)]
             /\ Upper(args) = [i \in 1 .. k |-> b(i)]
  BY <1>0, <1>4, HalvesAre
<1>5. ASSUME Len(args) \in {1, 2, 4, 6}
      PROVE  \A i \in 1 .. k : /\ a(i) \in 0 .. <<LastHour, LastMinute, LastSecond>>[i]
                               /\ b(i) \in 0 .. <<LastHour, LastMinute, LastSecond>>[i]
  <2> SUFFICES ASSUME NEW i \in 1 .. k
               PROVE  /\ a(i) \in 0 .. <<LastHour, LastMinute, LastSecond>>[i]
                      /\ b(i) \in 0 .. <<LastHour, LastMinute, LastSecond>>[i]
    OBVIOUS
  <2> HIDE DEF k
  <2> DEFINE l == Len(args)
  <2>1. (l = 1 /\ k = 1) \/ (l = 2 /\ k = 1) \/ (l = 4 /\ k = 2) \/ (l = 6 /\ k = 3)
    BY <1>4, <1>5
  <2>0. i \in 1 .. l /\ l - k + i \in 1 .. l
    <3> HIDE DEF l
    <3>1. QED
      BY <2>1
  <2>2. a(i) \in Nat /\ b(i) \in Nat
    BY <1>0, <2>0
  <2>3. Lower(args)[i] = a(i) /\ Upper(args)[i] = b(i)
    BY <1>4, <1>5
  <2>4. i \in DOMAIN Lower(args) /\ i \in DOMAIN Upper(args)
    BY <1>4, <1>5
  <2>5. /\ Lower(args)[i] <= <<LastHour, LastMinute, LastSecond>>[i]
        /\ Upper(args)[i] <= <<LastHour, LastMinute, LastSecond>>[i]
    BY <1>5, <2>4 DEF IsTimes
  <2>6. <<LastHour, LastMinute, LastSecond>>[i] \in Nat
    <3>1. i = 1 \/ i = 2 \/ i = 3
      BY <1>4, <1>5
    <3>2. CASE i = 1
      BY <1>1, <3>2
    <3>3. CASE i = 2
      BY <1>1, <3>3
    <3>4. CASE i = 3
      BY <1>1, <3>4
    <3>5. QED
      BY <3>1, <3>2, <3>3, <3>4
  <2>7. QED
    BY <2>2, <2>3, <2>5, <2>6
<1>6. ASSUME Len(args) \in {1, 2, 4, 6}, NEW x
      PROVE  /\ TimeOf(args, x) = Lower(args) <=> \A i \in 1 .. k : x[3 + i] = a(i)
             /\ TimeOf(args, x) = Upper(args) <=> \A i \in 1 .. k : x[3 + i] = b(i)
  <2> HIDE DEF a, b, k
  <2>1. QED
    BY <1>4, <1>6 DEF TimeOf
<1>7. ASSUME Len(args) \in {1, 2, 4, 6}
      PROVE  TimeOf(args, n) # TimeOf(args, m) <=> \E i \in 1 .. k : n[3 + i] # m[3 + i]
  <2> HIDE DEF a, b, k
  <2>1. QED
    BY <1>4, <1>7 DEF TimeOf
<1>8. CASE Len(args) = 1 \/ Len(args) = 2
  <2>1. /\ k = 1 /\ Len(args) \in {1, 2, 4, 6}
        /\ a(1) \in 0 .. LastHour /\ b(1) \in 0 .. LastHour
    BY <1>4, <1>5, <1>8
  <2>2. ASSUME NEW x, InCalendar(x)
        PROVE  TimeRange(args, T(x)) <=> a(1) <= x[4] /\ x[4] <= b(1)
    <3>1. CASE Len(args) = 1
      BY <1>0, <1>2, <2>1, <2>2, <3>1 DEF TimeRange
    <3>2. CASE Len(args) = 2
      BY <1>0, <1>2, <2>1, <2>2, <3>2 DEF TimeRange
    <3>3. QED
      BY <1>8, <3>1, <3>2
  <2>3. /\ TimeOf(args, n) = Lower(args) <=> n[4] = a(1)
        /\ TimeOf(args, m) = Upper(args) <=> m[4] = b(1)
        /\ TimeOf(args, n) # TimeOf(args, m) <=> n[4] # m[4]
    BY <1>6, <1>7, <2>1
  <2>4. /\ n[4] = m[4] \/ n[4] = m[4] + 1 \/ (m[4] = LastHour /\ n[4] = 0)
        /\ m[4] \in 0 .. LastHour /\ n[4] \in 0 .. LastHour
    BY <1>2 DEF NextSecond
  <2>5. Len(args) \notin {1, 2, 4, 6} \/ (Len(args) = 2 /\ args[1] > args[2]) <=> a(1) > b(1)
    BY <1>0, <1>8, <2>1
  <2> HIDE DEF a, b, k, T
  <2>6. Turns(a(1) > b(1), n[4] # m[4], n[4] = a(1), m[4] = b(1),
              a(1) <= m[4] /\ m[4] <= b(1), a(1) <= n[4] /\ n[4] <= b(1))
    BY <1>1, <2>1, <2>4 DEF Turns
  <2>7. QED
    BY <2>2, <2>3, <2>5, <2>6 DEF Turns, T
<1>9. CASE Len(args) = 4
  <2>0. k = 2 /\ Len(args) \in {1, 2, 4, 6}
    BY <1>4, <1>9
  <2>1. /\ a(1) \in 0 .. LastHour /\ b(1) \in 0 .. LastHour
        /\ a(2) \in 0 .. LastMinute /\ b(2) \in 0 .. LastMinute
    BY <1>5, <2>0
  <2> DEFINE In(x) ==
               IF Lex2(a(1), a(2), b(1), b(2))
                 THEN Lex2(a(1), a(2), x[4], x[5]) /\ Lex2(x[4], x[5], b(1), b(2))
                 ELSE Lex2(a(1), a(2), x[4], x[5]) \/ Lex2(x[4], x[5], b(1), b(2))
  <2>2. ASSUME NEW x, InCalendar(x) PROVE TimeRange(args, T(x)) <=> In(x)
    <3> DEFINE s == <<a(1), a(2), 0>>
               e == <<b(1), b(2), LastSecond>>
    <3>1. TimeRange(args, T(x)) <=> Within(s, T(x), e)
      BY <1>0, <1>9, <2>0 DEF TimeRange
    <3> HIDE DEF T, a, b, k
    <3>2. s \in [1 .. 3 -> Int] /\ e \in [1 .. 3 -> Int] /\ T(x) \in [1 .. 3 -> Int]
      BY <1>1, <1>2, <2>1, <2>2
    <3>3. /\ UpTo(s, e) <=> Lex2(a(1), a(2), b(1), b(2))
          /\ UpTo(s, T(x)) <=> Lex2(a(1), a(2), x[4], x[5])
          /\ UpTo(T(x), e) <=> Lex2(x[4], x[5], b(1), b(2))
      <4>1. /\ UpTo(s, e) <=> Before3(s, e)
            /\ UpTo(s, T(x)) <=> Before3(s, T(x))
            /\ UpTo(T(x), e) <=> Before3(T(x), e)
        BY <3>2, UpTo3
      <4>2. /\ Before3(s, e) <=> Lex2(a(1), a(2), b(1), b(2))
            /\ Before3(s, T(x)) <=> Lex2(a(1), a(2), x[4], x[5])
            /\ Before3(T(x), e) <=> Lex2(x[4], x[5], b(1), b(2))
        <5>1. /\ s[1] = a(1) /\ s[2] = a(2) /\ s[3] = 0
              /\ e[1] = b(1) /\ e[2] = b(2) /\ e[3] = LastSecond
          OBVIOUS
        <5>0. T(x)[1] = x[4] /\ T(x)[2] = x[5] /\ T(x)[3] = x[6]
          BY <1>2, <2>2
        <5>6. /\ a(1) \in Int /\ a(2) \in Int /\ b(1) \in Int /\ b(2) \in Int /\ LastSecond \in Int
              /\ x[4] \in Int /\ x[5] \in Int /\ x[6] \in 0 .. LastSecond
          BY <1>1, <1>2, <2>1, <2>2
        <5> HIDE DEF s, e
        <5>2. Before3(s, e) <=> Lex2(a(1), a(2), b(1), b(2))
          BY <5>1, <5>6 DEF Before3, Lex2, Lex3
        <5>3. Before3(s, T(x)) <=> Lex2(a(1), a(2), x[4], x[5])
          BY <5>0, <5>1, <5>6 DEF Before3, Lex2, Lex3
        <5>4. Before3(T(x), e) <=> Lex2(x[4], x[5], b(1), b(2))
          BY <5>0, <5>1, <5>6 DEF Before3, Lex2, Lex3
        <5>5. QED
          BY <5>2, <5>3, <5>4
      <4>3. QED
        BY <4>1, <4>2, Zenon
    <3> HIDE DEF s, e
    <3>4. QED
      BY <3>1, <3>3 DEF Within
  <2>3. /\ TimeOf(args, n) = Lower(args) <=> n[4] = a(1) /\ n[5] = a(2)
        /\ TimeOf(args, m) = Upper(args) <=> m[4] = b(1) /\ m[5] = b(2)
        /\ TimeOf(args, n) # TimeOf(args, m) <=> n[4] # m[4] \/ n[5] # m[5]
    <3> HIDE DEF a, b, k
    <3>1. \A i : i \in 1 .. k <=> i = 1 \/ i = 2
      BY <2>0
    <3>2. QED
      BY <1>6, <1>7, <2>0, <3>1
  <2>4. /\ \/ n[4] = m[4] /\ n[5] = m[5]
           \/ n[4] = m[4] /\ n[5] = m[5] + 1
           \/ /\ m[5] = LastMinute /\ n[5] = 0
              /\ n[4] = m[4] + 1 \/ (m[4] = LastHour /\ n[4] = 0)
        /\ m[4] \in 0 .. LastHour /\ n[4] \in 0 .. LastHour
        /\ m[5] \in 0 .. LastMinute /\ n[5] \in 0 .. LastMinute
    BY <1>2 DEF NextSecond
  <2>5. ~(Len(args) \notin {1, 2, 4, 6} \/ (Len(args) = 2 /\ args[1] > args[2]))
    BY <1>9
  <2> HIDE DEF a, b, k, T
  <2>6. Turns(FALSE, n[4] # m[4] \/ n[5] # m[5], n[4] = a(1) /\ n[5] = a(2),
              m[4] = b(1) /\ m[5] = b(2), In(m), In(n))
    <3>1. CASE n[4] = m[4] /\ n[5] = m[5]
      BY <3>1 DEF Turns
    <3>2. CASE ~(n[4] = m[4] /\ n[5] = m[5])
      <4>1. NextInOrder(Lex2(a(1), a(2), b(1), b(2)), Lex2(a(1), a(2), m[4], m[5]),
                        Lex2(a(1), a(2), n[4], n[5]), Lex2(m[4], m[5], b(1), b(2)),
                        Lex2(n[4], n[5], b(1), b(2)),
                        n[4] = a(1) /\ n[5] = a(2), m[4] = b(1) /\ m[5] = b(2))
        <5>1. /\ LastHour \in Nat /\ LastMinute \in Nat /\ 0 \in Nat
              /\ a(1) \in Nat /\ b(1) \in Nat /\ m[4] \in Nat /\ n[4] \in Nat
          BY <1>1, <2>1, <2>4
        <5>3. \/ n[4] = m[4] /\ n[5] = m[5] + 1
              \/ /\ m[5] = LastMinute /\ n[5] = 0
                 /\ \/ n[4] = m[4] + 1
                    \/ /\ m[4] = LastHour /\ n[4] = 0
                       /\ a(1) \in 0 .. LastHour /\ b(1) \in 0 .. LastHour
          BY <2>1, <2>4, <3>2
        <5>4. QED
          BY <2>1, <2>4, <5>1, <5>3 DEF NextInOrder, Lex2
      <4>2. QED
        BY <4>1 DEF NextInOrder, Turns
    <3>3. QED
      BY <3>1, <3>2
  <2> HIDE DEF In
  <2>7. QED
    BY <2>2, <2>3, <2>5, <2>6 DEF Turns, T
<1>10. CASE Len(args) = 6
  <2>0. k = 3 /\ Len(args) \in {1, 2, 4, 6}
    BY <1>4, <1>10
  <2>1. /\ a(1) \in 0 .. LastHour /\ b(1) \in 0 .. LastHour
        /\ a(2) \in 0 .. LastMinute /\ b(2) \in 0 .. LastMinute
        /\ a(3) \in 0 .. LastSecond /\ b(3) \in 0 .. LastSecond
    BY <1>5, <2>0
  <2> DEFINE s == [i \in 1 .. 3 |-> a(i)]
             e == [i \in 1 .. 3 |-> b(i)]
             In(x) == IF Before3(s, e) THEN Before3(s, T(x)) /\ Before3(T(x), e)
                                       ELSE Before3(s, T(x)) \/ Before3(T(x), e)
  <2>2. ASSUME NEW x, InCalendar(x) PROVE TimeRange(args, T(x)) <=> In(x)
    <3>1. TimeRange(args, T(x)) <=> Within(s, T(x), e)
      <4>1. SubSeq(args, 1, 3) = s /\ SubSeq(args, 4, 6) = e
        BY <1>0, <1>10, <2>0
      <4>2. TimeRange(args, T(x)) <=> Within(SubSeq(args, 1, 3), T(x), SubSeq(args, 4, 6))
        BY <1>10 DEF TimeRange
      <4> HIDE DEF s, e, T
      <4>3. QED
        BY <4>1, <4>2
    <3> HIDE DEF T, a, b, k
    <3>2. s \in [1 .. 3 -> Int] /\ e \in [1 .. 3 -> Int] /\ T(x) \in [1 .. 3 -> Int]
      BY <1>1, <1>2, <2>1, <2>2
    <3> HIDE DEF s, e
    <3>3. /\ UpTo(s, e) <=> Before3(s, e)
          /\ UpTo(s, T(x)) <=> Before3(s, T(x))
          /\ UpTo(T(x), e) <=> Before3(T(x), e)
      BY <3>2, UpTo3
    <3>4. QED
      BY <3>1, <3>3 DEF Within
  <2>3. /\ TimeOf(args, n) = Lower(args) <=> n[4] = a(1) /\ n[5] = a(2) /\ n[6] = a(3)
        /\ TimeOf(args, m) = Upper(args) <=> m[4] = b(1) /\ m[5] = b(2) /\ m[6] = b(3)
        /\ TimeOf(args, n) # TimeOf(args, m) <=> n[4] # m[4] \/ n[5] # m[5] \/ n[6] # m[6]
    <3> HIDE DEF a, b, k
    <3>1. \A i : i \in 1 .. k <=> i = 1 \/ i = 2 \/ i = 3
      BY <2>0
    <3>2. QED
      BY <1>6, <1>7, <2>0, <3>1
  <2>4. /\ \/ n[4] = m[4] /\ n[5] = m[5] /\ n[6] = m[6] + 1
           \/ n[4] = m[4] /\ n[5] = m[5] + 1 /\ m[6] = LastSecond /\ n[6] = 0
           \/ /\ m[5] = LastMinute /\ n[5] = 0 /\ m[6] = LastSecond /\ n[6] = 0
              /\ n[4] = m[4] + 1 \/ (m[4] = LastHour /\ n[4] = 0)
        /\ m[4] \in 0 .. LastHour /\ n[4] \in 0 .. LastHour
        /\ m[5] \in 0 .. LastMinute /\ n[5] \in 0 .. LastMinute
        /\ m[6] \in 0 .. LastSecond /\ n[6] \in 0 .. LastSecond
    BY <1>2 DEF NextSecond
  <2>5. ~(Len(args) \notin {1, 2, 4, 6} \/ (Len(args) = 2 /\ args[1] > args[2]))
    BY <1>10
  <2> HIDE DEF a, b, k, T
  <2>6. Turns(FALSE, n[4] # m[4] \/ n[5] # m[5] \/ n[6] # m[6],
              n[4] = a(1) /\ n[5] = a(2) /\ n[6] = a(3),
              m[4] = b(1) /\ m[5] = b(2) /\ m[6] = b(3), In(m), In(n))
    <3>1. /\ s[1] = a(1) /\ s[2] = a(2) /\ s[3] = a(3)
          /\ e[1] = b(1) /\ e[2] = b(2) /\ e[3] = b(3)
      OBVIOUS
    <3> HIDE DEF s, e
    <3>2. /\ T(m)[1] = m[4] /\ T(m)[2] = m[5] /\ T(m)[3] = m[6]
          /\ T(n)[1] = n[4] /\ T(n)[2] = n[5] /\ T(n)[3] = n[6]
      BY <1>2
    <3>3. NextInOrder(Before3(s, e), Before3(s, T(m)), Before3(s, T(n)), Before3(T(m), e),
                      Before3(T(n), e), n[4] = a(1) /\ n[5] = a(2) /\ n[6] = a(3),
                      m[4] = b(1) /\ m[5] = b(2) /\ m[6] = b(3))
      <4>1. /\ LastHour \in Nat /\ LastMinute \in Nat /\ LastSecond \in Nat /\ 0 \in Nat
            /\ a(1) \in Nat /\ b(1) \in Nat /\ m[4] \in Nat /\ n[4] \in Nat
        BY <1>1, <2>1, <2>4
      <4>3. \/ n[4] = m[4] /\ n[5] = m[5] /\ n[6] = m[6] + 1
            \/ /\ m[6] = LastSecond /\ n[6] = 0
               /\ \/ n[4] = m[4] /\ n[5] = m[5] + 1
                  \/ /\ m[5] = LastMinute /\ n[5] = 0
                     /\ \/ n[4] = m[4] + 1
                        \/ /\ m[4] = LastHour /\ n[4] = 0
                           /\ a(1) \in 0 .. LastHour /\ b(1) \in 0 .. LastHour
        BY <2>1, <2>4
      <4>4. QED
        BY <2>1, <2>4, <3>1, <3>2, <4>1, <4>3 DEF Before3, NextInOrder, Lex3, Lex2
    <3>4. CASE T(m) = T(n)
      <4>1. n[4] = m[4] /\ n[5] = m[5] /\ n[6] = m[6]
        BY <3>2, <3>4
      <4>2. QED
        BY <3>4, <4>1 DEF Turns
    <3>5. CASE T(m) # T(n)
      <4>0. T(m) \in [1 .. 3 -> Int] /\ T(n) \in [1 .. 3 -> Int]
        BY <1>2
      <4> HIDE DEF T
      <4>1. n[4] # m[4] \/ n[5] # m[5] \/ n[6] # m[6]
        BY <3>2, <3>5, <4>0
      <4>2. QED
        BY <3>3, <4>1 DEF NextInOrder, Turns
    <3>6. QED
      BY <3>4, <3>5
  <2> HIDE DEF In
  <2>7. QED
    BY <2>2, <2>3, <2>5, <2>6 DEF Turns, T
<1>11. QED
  BY <1>3, <1>8, <1>9, <1>10

(* The fields of a moment that a date names, where it names each, and the     *)
(* values at its two ends.                                                   *)
Fields(parts) == {DatePart(Lower(parts)[i]) : i \in DOMAIN Lower(parts)}
At(parts, f) == CHOOSE i \in 1 .. Half(parts) : DatePart(parts[i]) = f
StartOf(parts, f) == parts[At(parts, f)].value
EndOf(parts, f) == parts[Len(parts) - Half(parts) + At(parts, f)].value
DateOf(parts, x) == [i \in DOMAIN Lower(parts) |-> x[DatePart(parts[i])]]

FieldValue(f, v) ==
    /\ v \in Nat
    /\ f = 1 => v >= 32
    /\ f = 2 => v <= LastMonth
    /\ f = 3 => v \in 1 .. LastDay

(* A date names a field once, and the same fields at both ends.               *)
LEMMA FieldsAre ==
    ASSUME NEW parts, IsDates(parts)
    PROVE  /\ Fields(parts) \in DateForms
           /\ \A i \in 1 .. Half(parts) :
                /\ DatePart(parts[i]) \in Fields(parts) /\ At(parts, DatePart(parts[i])) = i
                /\ DatePart(parts[Len(parts) - Half(parts) + i]) = DatePart(parts[i])
           /\ \A f \in Fields(parts) :
                At(parts, f) \in 1 .. Half(parts) /\ DatePart(parts[At(parts, f)]) = f
<1> DEFINE k == Half(parts)
           V == [name : BOOLEAN, value : Nat]
<1>1. parts \in Seq(V) /\ Len(parts) \in {1, 2, 4, 6}
  BY DEF IsDates
<1>2. /\ Lower(parts) = [i \in 1 .. k |-> parts[i]]
      /\ Upper(parts) = [i \in 1 .. k |-> parts[Len(parts) - k + i]]
  <2> HIDE DEF V
  <2>1. QED
    BY <1>1, HalvesAre
<1>3. /\ \A i \in DOMAIN Lower(parts) : DatePart(Upper(parts)[i]) = DatePart(Lower(parts)[i])
      /\ \A i, j \in DOMAIN Lower(parts) :
           i # j => DatePart(Lower(parts)[i]) # DatePart(Lower(parts)[j])
      /\ Fields(parts) \in DateForms
  BY DEF IsDates, Fields
<1> HIDE DEF k
<1>4. /\ DOMAIN Lower(parts) = 1 .. k
      /\ \A i \in 1 .. k : /\ Lower(parts)[i] = parts[i]
                           /\ Upper(parts)[i] = parts[Len(parts) - k + i]
  BY <1>2
<1>5. /\ \A i \in 1 .. k : DatePart(parts[Len(parts) - k + i]) = DatePart(parts[i])
      /\ \A i, j \in 1 .. k : i # j => DatePart(parts[i]) # DatePart(parts[j])
      /\ Fields(parts) = {DatePart(parts[i]) : i \in 1 .. k}
  <2>1. Fields(parts) = {DatePart(parts[i]) : i \in 1 .. k}
    BY <1>4 DEF Fields
  <2>2. QED
    BY <1>3, <1>4, <2>1, Zenon
<1>6. ASSUME NEW i \in 1 .. k
      PROVE  DatePart(parts[i]) \in Fields(parts) /\ At(parts, DatePart(parts[i])) = i
  <2>1. \E j \in 1 .. k : DatePart(parts[j]) = DatePart(parts[i])
    OBVIOUS
  <2>2. /\ At(parts, DatePart(parts[i])) \in 1 .. k
        /\ DatePart(parts[At(parts, DatePart(parts[i]))]) = DatePart(parts[i])
    BY <2>1 DEF At, k
  <2>3. QED
    BY <1>5, <2>2
<1>7. ASSUME NEW f \in Fields(parts)
      PROVE  At(parts, f) \in 1 .. k /\ DatePart(parts[At(parts, f)]) = f
  <2>1. \E j \in 1 .. k : DatePart(parts[j]) = f
    BY <1>5
  <2>2. QED
    BY <2>1 DEF At, k
<1>8. QED
  BY <1>3, <1>5, <1>6, <1>7 DEF k

(* The values are those of the fields.                                       *)
LEMMA FieldValues ==
    ASSUME NEW parts, IsDates(parts), NEW f \in Fields(parts)
    PROVE  FieldValue(f, StartOf(parts, f)) /\ FieldValue(f, EndOf(parts, f))
<1> DEFINE k == Half(parts)
           V == [name : BOOLEAN, value : Nat]
           a == parts[At(parts, f)]
           b == parts[Len(parts) - k + At(parts, f)]
<1>1. parts \in Seq(V) /\ Len(parts) \in {1, 2, 4, 6}
  BY DEF IsDates
<1>2. /\ DOMAIN parts = 1 .. Len(parts)
      /\ \/ Len(parts) = 1 /\ k = 1
         \/ Len(parts) = 2 /\ k = 1
         \/ Len(parts) = 4 /\ k = 2
         \/ Len(parts) = 6 /\ k = 3
  <2> HIDE DEF V
  <2>1. QED
    BY <1>1, HalvesAre
<1>3. At(parts, f) \in 1 .. k /\ DatePart(a) = f /\ DatePart(b) = f
  BY FieldsAre
<1>4. At(parts, f) \in DOMAIN parts /\ Len(parts) - k + At(parts, f) \in DOMAIN parts
  <2> HIDE DEF k
  <2>1. QED
    BY <1>2, <1>3
<1>5. ASSUME NEW i \in DOMAIN parts, DatePart(parts[i]) = f
      PROVE  FieldValue(f, parts[i].value)
  <2>1. parts[i].value \in Nat
    <3>1. parts[i] \in V
      <4> HIDE DEF V
      <4>1. QED
        BY <1>1, <1>5
    <3>2. QED
      BY <3>1
  <2>2. \/ parts[i].name /\ parts[i].value <= LastMonth
        \/ ~parts[i].name /\ (parts[i].value \in 1 .. LastDay \/ parts[i].value >= 32)
    BY DEF IsDates
  <2>3. f = IF parts[i].name THEN 2 ELSE IF parts[i].value < 32 THEN 3 ELSE 1
    BY <1>5 DEF DatePart
  <2>4. LastDay \in 1 .. 31
    BY CalendarAssumption
  <2>5. QED
    BY <2>1, <2>2, <2>3, <2>4 DEF FieldValue
<1>6. QED
  BY <1>3, <1>4, <1>5 DEF StartOf, EndOf

(* What a date's ends, the part of the moment that it names and its refusal   *)
(* say of the fields.                                                        *)
LEMMA DatesAre ==
    ASSUME NEW parts, IsDates(parts)
    PROVE  /\ \A x : DateOf(parts, x) = Values(Lower(parts)) <=>
                       \A f \in Fields(parts) : x[f] = StartOf(parts, f)
           /\ \A x : DateOf(parts, x) = Values(Upper(parts)) <=>
                       \A f \in Fields(parts) : x[f] = EndOf(parts, f)
           /\ \A x, y : DateOf(parts, x) # DateOf(parts, y) <=>
                          \E f \in Fields(parts) : x[f] # y[f]
           /\ (\E i \in DOMAIN parts : parts[i].value = Unknown) <=>
                \E f \in Fields(parts) : StartOf(parts, f) = 0 \/ EndOf(parts, f) = 0
<1> DEFINE k == Half(parts)
           d(i) == DatePart(parts[i])
           V == [name : BOOLEAN, value : Nat]
           o(i) == Len(parts) - k + i
<1>1. parts \in Seq(V) /\ Len(parts) \in {1, 2, 4, 6}
  BY DEF IsDates
<1>2. /\ DOMAIN parts = 1 .. Len(parts)
      /\ Lower(parts) = [i \in 1 .. k |-> parts[i]]
      /\ Upper(parts) = [i \in 1 .. k |-> parts[o(i)]]
      /\ \/ Len(parts) = 1 /\ k = 1
         \/ Len(parts) = 2 /\ k = 1
         \/ Len(parts) = 4 /\ k = 2
         \/ Len(parts) = 6 /\ k = 3
  <2> HIDE DEF V
  <2>1. QED
    BY <1>1, HalvesAre
<1>3. /\ Values(Lower(parts)) = [i \in 1 .. k |-> parts[i].value]
      /\ Values(Upper(parts)) = [i \in 1 .. k |-> parts[o(i)].value]
      /\ \A x : DateOf(parts, x) = [i \in 1 .. k |-> x[d(i)]]
  <2> HIDE DEF k, o
  <2>1. QED
    BY <1>2 DEF Values, DateOf
<1>4. /\ \A i \in 1 .. k : d(i) \in Fields(parts) /\ At(parts, d(i)) = i
      /\ \A f \in Fields(parts) : At(parts, f) \in 1 .. k /\ d(At(parts, f)) = f
  BY FieldsAre
<1>5. ASSUME NEW i \in 1 .. k
      PROVE  StartOf(parts, d(i)) = parts[i].value /\ EndOf(parts, d(i)) = parts[o(i)].value
  BY <1>4 DEF StartOf, EndOf
<1> HIDE DEF k, d, V
<1>6. ASSUME NEW x
      PROVE  /\ DateOf(parts, x) = Values(Lower(parts)) <=>
                  \A f \in Fields(parts) : x[f] = StartOf(parts, f)
             /\ DateOf(parts, x) = Values(Upper(parts)) <=>
                  \A f \in Fields(parts) : x[f] = EndOf(parts, f)
  <2>1. /\ DateOf(parts, x) = Values(Lower(parts)) <=> \A i \in 1 .. k : x[d(i)] = parts[i].value
        /\ DateOf(parts, x) = Values(Upper(parts)) <=> \A i \in 1 .. k : x[d(i)] = parts[o(i)].value
    <3> HIDE DEF o
    <3>1. QED
      BY <1>3
  <2>2. QED
    BY <1>4, <1>5, <2>1
<1>7. ASSUME NEW x, NEW y
      PROVE  DateOf(parts, x) # DateOf(parts, y) <=> \E f \in Fields(parts) : x[f] # y[f]
  <2>1. DateOf(parts, x) # DateOf(parts, y) <=> \E i \in 1 .. k : x[d(i)] # y[d(i)]
    <3> DEFINE v == [i \in 1 .. k |-> x[d(i)]]
               w == [i \in 1 .. k |-> y[d(i)]]
    <3>1. v = w <=> \A i \in 1 .. k : v[i] = w[i]
      OBVIOUS
    <3>2. \A i \in 1 .. k : v[i] = x[d(i)] /\ w[i] = y[d(i)]
      OBVIOUS
    <3>3. DateOf(parts, x) = v /\ DateOf(parts, y) = w
      BY <1>3
    <3> HIDE DEF v, w
    <3>4. QED
      BY <3>1, <3>2, <3>3, Zenon
  <2>2. QED
    BY <1>4, <2>1
<1>8. (\E i \in DOMAIN parts : parts[i].value = Unknown) <=>
        \E f \in Fields(parts) : StartOf(parts, f) = 0 \/ EndOf(parts, f) = 0
  <2>1. ASSUME NEW j \in DOMAIN parts PROVE \E i \in 1 .. k : j = i \/ j = o(i)
    <3> DEFINE l == Len(parts)
    <3>1. j \in 1 .. l
      BY <1>2
    <3>2. (l = 1 /\ k = 1) \/ (l = 2 /\ k = 1) \/ (l = 4 /\ k = 2) \/ (l = 6 /\ k = 3)
      BY <1>2
    <3>3. \A i : o(i) = l - k + i
      OBVIOUS
    <3> HIDE DEF l, o
    <3>4. CASE j \in 1 .. k
      BY <3>4
    <3>5. CASE j \notin 1 .. k
      <4>1. j - (l - k) \in 1 .. k /\ j = l - k + (j - (l - k))
        BY <3>1, <3>2, <3>5
      <4>2. QED
        BY <3>3, <4>1
    <3>6. QED
      BY <3>4, <3>5
  <2>2. \A i \in 1 .. k : i \in DOMAIN parts /\ o(i) \in DOMAIN parts
    BY <1>2
  <2> HIDE DEF o
  <2>3. (\E i \in DOMAIN parts : parts[i].value = 0) <=>
           \E i \in 1 .. k : parts[i].value = 0 \/ parts[o(i)].value = 0
    BY <2>1, <2>2
  <2>4. QED
    BY <1>4, <1>5, <2>3 DEF Unknown
<1>9. QED
  BY <1>6, <1>7, <1>8

(* Setting fields, each of which one argument names at most.                 *)
Filled(moment, args, F, at) ==
    [f \in DOMAIN moment |-> IF f \in F THEN args[at[f]].value ELSE moment[f]]

LEMMA SetIs ==
    ASSUME NEW moment, NEW args, NEW k \in Nat, DOMAIN args = 1 .. k,
           NEW F, NEW at \in [F -> 1 .. k],
           \A f : \A i \in 1 .. k : DatePart(args[i]) = f <=> f \in F /\ at[f] = i
    PROVE  Set(moment, args) = Filled(moment, args, F, at)
<1> DEFINE N(f) == {i \in DOMAIN args : DatePart(args[i]) = f}
<1>1. ASSUME NEW f
      PROVE  (IF N(f) = {} THEN moment[f] ELSE args[Max(N(f))].value)
               = IF f \in F THEN args[at[f]].value ELSE moment[f]
  <2>1. CASE f \in F
    <3>1. at[f] \in 1 .. k
      BY <2>1
    <3>2. N(f) = {at[f]}
      BY <2>1, <3>1
    <3>3. Max({at[f]}) = at[f]
      BY <3>1 DEF Max
    <3> HIDE DEF N
    <3>4. QED
      BY <2>1, <3>2, <3>3
  <2>2. CASE f \notin F
    <3>1. N(f) = {}
      BY <2>2
    <3>2. QED
      BY <2>2, <3>1
  <2>3. QED
    BY <2>1, <2>2
<1>2. Set(moment, args) =
        [f \in DOMAIN moment |-> IF N(f) = {} THEN moment[f] ELSE args[Max(N(f))].value]
  BY DEF Set
<1> HIDE DEF N
<1>3. QED
  BY <1>1, <1>2 DEF Filled

(* The ends of a range of dates, with the fields of the moment it is asked at. *)
DateStart(parts, x) ==
    [f \in 1 .. 6 |-> IF f \in Fields(parts) THEN StartOf(parts, f)
                      ELSE IF Fields(parts) = {3} /\ f = 2 THEN x[2]
                      ELSE <<x[1], 1, 1, 0, 0, 0>>[f]]
DateEnd(parts, x) ==
    [f \in 1 .. 6 |-> IF f \in Fields(parts) THEN EndOf(parts, f)
                      ELSE IF Fields(parts) = {3} /\ f = 2 THEN x[2]
                      ELSE <<x[1], LastMonth, LastDay, LastHour, LastMinute, LastSecond>>[f]]

(* A moment with the fields of a date's end.                                 *)
AtStart(parts, moment) ==
    [f \in 1 .. 6 |-> IF f \in Fields(parts) THEN StartOf(parts, f) ELSE moment[f]]
AtEnd(parts, moment) ==
    [f \in 1 .. 6 |-> IF f \in Fields(parts) THEN EndOf(parts, f) ELSE moment[f]]

LEMMA SetEnds ==
    ASSUME NEW parts, IsDates(parts), NEW moment, DOMAIN moment = 1 .. 6
    PROVE  /\ Set(moment, Lower(parts)) = AtStart(parts, moment)
           /\ Set(moment, Upper(parts)) = AtEnd(parts, moment)
<1> DEFINE k == Half(parts)
           F == Fields(parts)
           at == [f \in F |-> At(parts, f)]
           l == Lower(parts)
           u == Upper(parts)
           V == [name : BOOLEAN, value : Nat]
<1>1. parts \in Seq(V) /\ Len(parts) \in {1, 2, 4, 6}
  BY DEF IsDates
<1>2. /\ l = [i \in 1 .. k |-> parts[i]]
      /\ u = [i \in 1 .. k |-> parts[Len(parts) - k + i]]
      /\ k \in 1 .. 3
  <2> HIDE DEF V
  <2>1. QED
    BY <1>1, HalvesAre
<1>3. /\ \A i \in 1 .. k : /\ DatePart(parts[i]) \in F /\ At(parts, DatePart(parts[i])) = i
                           /\ DatePart(parts[Len(parts) - k + i]) = DatePart(parts[i])
      /\ \A f \in F : At(parts, f) \in 1 .. k /\ DatePart(parts[At(parts, f)]) = f
  BY FieldsAre
<1> HIDE DEF k, F
<1>4. at \in [F -> 1 .. k] /\ \A f \in F : at[f] = At(parts, f)
  BY <1>3
<1> HIDE DEF at, l, u
<1>5. /\ DOMAIN l = 1 .. k /\ \A i \in 1 .. k : l[i] = parts[i]
      /\ DOMAIN u = 1 .. k /\ \A i \in 1 .. k : u[i] = parts[Len(parts) - k + i]
  BY <1>2
<1>6. /\ \A f : \A i \in 1 .. k : DatePart(l[i]) = f <=> f \in F /\ at[f] = i
      /\ \A f : \A i \in 1 .. k : DatePart(u[i]) = f <=> f \in F /\ at[f] = i
  BY <1>3, <1>4, <1>5
<1>7. k \in Nat
  BY <1>2
<1>8. Set(moment, l) = Filled(moment, l, F, at) /\ Set(moment, u) = Filled(moment, u, F, at)
  <2>1. DOMAIN l = 1 .. k /\ DOMAIN u = 1 .. k /\ at \in [F -> 1 .. k]
    BY <1>4, <1>5
  <2>2. QED
    BY <1>6, <1>7, <2>1, SetIs, Zenon
<1>9. \A f \in F : l[at[f]].value = StartOf(parts, f) /\ u[at[f]].value = EndOf(parts, f)
  BY <1>4, <1>5, <1>3 DEF StartOf, EndOf, k
<1>10. QED
  BY <1>8, <1>9 DEF l, u, F, AtStart, AtEnd, Filled

(* What a range of dates answers at a moment, in terms of the fields.         *)
LEMMA DateRangeIs ==
    ASSUME NEW parts, IsDates(parts), NEW x, InCalendar(x)
    PROVE  DateRange(parts, x) <=>
             /\ \A i \in DOMAIN parts : parts[i].value # Unknown
             /\ IF Len(parts) = 1 THEN \A f \in Fields(parts) : x[f] = StartOf(parts, f)
                                  ELSE Within(DateStart(parts, x), x, DateEnd(parts, x))
<1> DEFINE k == Half(parts)
           V == [name : BOOLEAN, value : Nat]
           known == \A i \in DOMAIN parts : parts[i].value # Unknown
<1>1. parts \in Seq(V) /\ Len(parts) \in {1, 2, 4, 6}
  BY DEF IsDates
<1>2. /\ DOMAIN parts = 1 .. Len(parts) /\ parts # <<>>
      /\ \/ Len(parts) = 1 /\ k = 1
         \/ Len(parts) = 2 /\ k = 1
         \/ Len(parts) = 4 /\ k = 2
         \/ Len(parts) = 6 /\ k = 3
  <2> HIDE DEF V
  <2>1. QED
    BY <1>1, HalvesAre
<1>3. /\ \A i \in 1 .. k : DatePart(parts[i]) \in Fields(parts) /\ At(parts, DatePart(parts[i])) = i
      /\ \A f \in Fields(parts) : At(parts, f) \in 1 .. k /\ DatePart(parts[At(parts, f)]) = f
  BY FieldsAre
<1> HIDE DEF V
<1>4. CASE Len(parts) = 1
  <2>1. DateRange(parts, x) <=> known /\ x[DatePart(parts[1])] = parts[1].value
    BY <1>2, <1>4 DEF DateRange
  <2>2. k = 1
    BY <1>2, <1>4
  <2>3. x[DatePart(parts[1])] = parts[1].value <=> \A f \in Fields(parts) : x[f] = StartOf(parts, f)
    BY <1>3, <2>2 DEF StartOf
  <2>4. QED
    BY <1>4, <2>1, <2>3, Zenon
<1>5. CASE Len(parts) # 1
  <2> DEFINE a == <<x[1], 1, 1, 0, 0, 0>>
             b == <<x[1], LastMonth, LastDay, LastHour, LastMinute, LastSecond>>
             short == Len(parts) <= 2 /\ \E i \in 1 .. k : DatePart(parts[i]) = 3
             inMonth(y) == IF short THEN [y EXCEPT ![2] = x[2]] ELSE y
  <2>1. k = Len(parts) \div 2
    BY <1>5 DEF Half
  <2>2. Lower(parts) = SubSeq(parts, 1, k) /\ Upper(parts) = SubSeq(parts, k + 1, Len(parts))
    <3>1. Len(parts) - k + 1 = k + 1
      <4> DEFINE l == Len(parts)
      <4>1. (l = 2 /\ k = 1) \/ (l = 4 /\ k = 2) \/ (l = 6 /\ k = 3)
        BY <1>2, <1>5
      <4> HIDE DEF l, k
      <4>2. l - k + 1 = k + 1
        BY <4>1
      <4>3. QED
        BY <4>2 DEF l
    <3>2. QED
      BY <3>1 DEF Lower, Upper
  <2>3. DateRange(parts, x) <=>
          known /\ Within(inMonth(Set(a, Lower(parts))), x, inMonth(Set(b, Upper(parts))))
    BY <1>2, <1>5, <2>1, <2>2 DEF DateRange
  <2>4. DOMAIN a = 1 .. 6 /\ DOMAIN b = 1 .. 6
    OBVIOUS
  <2>5. Set(a, Lower(parts)) = AtStart(parts, a) /\ Set(b, Upper(parts)) = AtEnd(parts, b)
    <3> HIDE DEF a, b
    <3>1. QED
      BY <2>4, SetEnds, Zenon
  <2>6. short <=> Fields(parts) = {3}
    <3>1. CASE Len(parts) = 2
      <4>1. k = 1
        BY <1>2, <3>1
      <4>2. QED
        BY <1>3, <3>1, <4>1
    <3>2. CASE Len(parts) = 4 \/ Len(parts) = 6
      <4>1. ~short /\ 1 \in 1 .. k /\ 2 \in 1 .. k
        BY <1>2, <3>2
      <4>2. /\ DatePart(parts[1]) # DatePart(parts[2])
            /\ DatePart(parts[1]) \in Fields(parts) /\ DatePart(parts[2]) \in Fields(parts)
        BY <1>3, <4>1
      <4>3. QED
        BY <4>1, <4>2
    <3>3. QED
      BY <1>2, <1>5, <3>1, <3>2
  <2> HIDE DEF short, a, b
  <2>7. ASSUME NEW S, NEW c, S = [f \in 1 .. 6 |-> c[f]]
        PROVE  inMonth(S) = [f \in 1 .. 6 |-> IF short /\ f = 2 THEN x[2] ELSE c[f]]
    BY <2>7
  <2>8. inMonth(Set(a, Lower(parts))) = DateStart(parts, x)
    <3> DEFINE c == [f \in 1 .. 6 |-> IF f \in Fields(parts) THEN StartOf(parts, f) ELSE a[f]]
    <3>1. c = [f \in 1 .. 6 |-> c[f]] /\ Set(a, Lower(parts)) = c
      BY <2>5 DEF AtStart
    <3>2. inMonth(c) = [f \in 1 .. 6 |-> IF short /\ f = 2 THEN x[2] ELSE c[f]]
      <4> HIDE DEF c, inMonth
      <4>1. QED
        BY <2>7, <3>1
    <3>3. ASSUME NEW f \in 1 .. 6
          PROVE  (IF short /\ f = 2 THEN x[2] ELSE c[f])
                   = IF f \in Fields(parts) THEN StartOf(parts, f)
                     ELSE IF Fields(parts) = {3} /\ f = 2 THEN x[2] ELSE a[f]
      BY <2>6
    <3> HIDE DEF c, inMonth
    <3>4. QED
      BY <3>1, <3>2, <3>3 DEF DateStart, a
  <2>9. inMonth(Set(b, Upper(parts))) = DateEnd(parts, x)
    <3> DEFINE c == [f \in 1 .. 6 |-> IF f \in Fields(parts) THEN EndOf(parts, f) ELSE b[f]]
    <3>1. c = [f \in 1 .. 6 |-> c[f]] /\ Set(b, Upper(parts)) = c
      BY <2>5 DEF AtEnd
    <3>2. inMonth(c) = [f \in 1 .. 6 |-> IF short /\ f = 2 THEN x[2] ELSE c[f]]
      <4> HIDE DEF c, inMonth
      <4>1. QED
        BY <2>7, <3>1
    <3>3. ASSUME NEW f \in 1 .. 6
          PROVE  (IF short /\ f = 2 THEN x[2] ELSE c[f])
                   = IF f \in Fields(parts) THEN EndOf(parts, f)
                     ELSE IF Fields(parts) = {3} /\ f = 2 THEN x[2] ELSE b[f]
      BY <2>6
    <3> HIDE DEF c, inMonth
    <3>4. QED
      BY <3>1, <3>2, <3>3 DEF DateEnd, b
  <2> HIDE DEF inMonth, known
  <2>10. QED
    BY <1>5, <2>3, <2>8, <2>9 DEF known
<1>6. QED
  BY <1>4, <1>5

(* Whole days compare by year, month and day.                                *)
LEMMA DaysWithin ==
    ASSUME NEW a \in [1 .. 6 -> Int], NEW b \in [1 .. 6 -> Int], NEW x \in [1 .. 6 -> Int],
           a[4] = 0, a[5] = 0, a[6] = 0,
           b[4] = LastHour, b[5] = LastMinute, b[6] = LastSecond,
           x[4] \in 0 .. LastHour, x[5] \in 0 .. LastMinute, x[6] \in 0 .. LastSecond
    PROVE  Within(a, x, b) <=> IF Before3(a, b) THEN Before3(a, x) /\ Before3(x, b)
                                                ELSE Before3(a, x) \/ Before3(x, b)
<1>1. /\ UpTo(a, b) <=> Before6(a, b)
      /\ UpTo(a, x) <=> Before6(a, x)
      /\ UpTo(x, b) <=> Before6(x, b)
  BY UpTo6
<1>2. LastHour \in Nat /\ LastMinute \in Nat /\ LastSecond \in Nat
  BY CalendarAssumption
<1>3. Before6(a, b) <=> Before3(a, b)
  BY <1>2 DEF Before6, Before3, Lex3, Lex2
<1>4. Before6(a, x) <=> Before3(a, x)
  BY <1>2 DEF Before6, Before3, Lex3, Lex2
<1>5. Before6(x, b) <=> Before3(x, b)
  BY <1>2 DEF Before6, Before3, Lex3, Lex2
<1>6. QED
  BY <1>1, <1>3, <1>4, <1>5 DEF Within

(* Whether a moment is in a range, from how it compares with the ends and they  *)
(* with each other.                                                          *)
Between(se, sx, xe) == IF se THEN sx /\ xe ELSE sx \/ xe

(* A range of dates compares the years, months and days.                     *)
LEMMA DatesWithin ==
    ASSUME NEW parts, IsDates(parts), NEW x, InCalendar(x)
    PROVE  LET F == Fields(parts)
               S(f) == StartOf(parts, f)
               E(f) == EndOf(parts, f)
               s1 == IF 1 \in F THEN S(1) ELSE x[1]
               s2 == IF 2 \in F THEN S(2) ELSE IF F = {3} THEN x[2] ELSE 1
               s3 == IF 3 \in F THEN S(3) ELSE 1
               e1 == IF 1 \in F THEN E(1) ELSE x[1]
               e2 == IF 2 \in F THEN E(2) ELSE IF F = {3} THEN x[2] ELSE LastMonth
               e3 == IF 3 \in F THEN E(3) ELSE LastDay
           IN Within(DateStart(parts, x), x, DateEnd(parts, x)) <=>
                Between(Lex3(s1, s2, s3, e1, e2, e3), Lex3(s1, s2, s3, x[1], x[2], x[3]),
                        Lex3(x[1], x[2], x[3], e1, e2, e3))
<1> DEFINE F == Fields(parts)
           S(f) == StartOf(parts, f)
           E(f) == EndOf(parts, f)
           s1 == IF 1 \in F THEN S(1) ELSE x[1]
           s2 == IF 2 \in F THEN S(2) ELSE IF F = {3} THEN x[2] ELSE 1
           s3 == IF 3 \in F THEN S(3) ELSE 1
           e1 == IF 1 \in F THEN E(1) ELSE x[1]
           e2 == IF 2 \in F THEN E(2) ELSE IF F = {3} THEN x[2] ELSE LastMonth
           e3 == IF 3 \in F THEN E(3) ELSE LastDay
           a == DateStart(parts, x)
           b == DateEnd(parts, x)
<1>1. /\ x \in [1 .. 6 -> Nat] /\ x[4] \in 0 .. LastHour /\ x[5] \in 0 .. LastMinute
      /\ x[6] \in 0 .. LastSecond
  BY DEF InCalendar
<1>2. /\ LastMonth \in Nat /\ LastDay \in Nat
      /\ LastHour \in Nat /\ LastMinute \in Nat /\ LastSecond \in Nat
  BY CalendarAssumption
<1>3. F \subseteq 1 .. 3 /\ \A f \in F : S(f) \in Nat /\ E(f) \in Nat
  BY FieldsAre, FieldValues DEF DateForms, FieldValue
<1>4. /\ DOMAIN a = 1 .. 6 /\ a[1] = s1 /\ a[2] = s2 /\ a[3] = s3
      /\ a[4] = 0 /\ a[5] = 0 /\ a[6] = 0
      /\ a = [f \in 1 .. 6 |-> a[f]]
  <2>0. \A f \in 4 .. 6 : f \notin F
    BY <1>3
  <2> DEFINE d == <<x[1], 1, 1, 0, 0, 0>>
  <2>1. d[1] = x[1] /\ d[2] = 1 /\ d[3] = 1 /\ d[4] = 0 /\ d[5] = 0 /\ d[6] = 0
    OBVIOUS
  <2>2. a = [f \in 1 .. 6 |-> IF f \in F THEN S(f) ELSE IF F = {3} /\ f = 2 THEN x[2] ELSE d[f]]
    BY DEF DateStart
  <2> HIDE DEF a, d, F, S
  <2>3. QED
    BY <2>0, <2>1, <2>2
<1>5. /\ DOMAIN b = 1 .. 6 /\ b[1] = e1 /\ b[2] = e2 /\ b[3] = e3
      /\ b[4] = LastHour /\ b[5] = LastMinute /\ b[6] = LastSecond
      /\ b = [f \in 1 .. 6 |-> b[f]]
  <2>0. \A f \in 4 .. 6 : f \notin F
    BY <1>3
  <2> DEFINE d == <<x[1], LastMonth, LastDay, LastHour, LastMinute, LastSecond>>
  <2>1. /\ d[1] = x[1] /\ d[2] = LastMonth /\ d[3] = LastDay /\ d[4] = LastHour
        /\ d[5] = LastMinute /\ d[6] = LastSecond
    OBVIOUS
  <2>2. b = [f \in 1 .. 6 |-> IF f \in F THEN E(f) ELSE IF F = {3} /\ f = 2 THEN x[2] ELSE d[f]]
    BY DEF DateEnd
  <2> HIDE DEF b, d, F, E
  <2>3. QED
    BY <2>0, <2>1, <2>2
<1>6. s1 \in Nat /\ s2 \in Nat /\ s3 \in Nat /\ e1 \in Nat /\ e2 \in Nat /\ e3 \in Nat
  <2> HIDE DEF F, S, E
  <2>1. QED
    BY <1>1, <1>2, <1>3
<1> HIDE DEF a, b, s1, s2, s3, e1, e2, e3
<1>7. a \in [1 .. 6 -> Int] /\ b \in [1 .. 6 -> Int] /\ x \in [1 .. 6 -> Int]
  <2>1. \A f \in 1 .. 6 : a[f] \in Int /\ b[f] \in Int
    BY <1>2, <1>4, <1>5, <1>6
  <2>2. QED
    BY <1>1, <1>4, <1>5, <2>1
<1>8. Within(a, x, b) <=> IF Before3(a, b) THEN Before3(a, x) /\ Before3(x, b)
                                           ELSE Before3(a, x) \/ Before3(x, b)
  BY <1>1, <1>4, <1>5, <1>7, DaysWithin
<1>9. Within(a, x, b) <=> Between(Lex3(s1, s2, s3, e1, e2, e3), Lex3(s1, s2, s3, x[1], x[2], x[3]),
                                  Lex3(x[1], x[2], x[3], e1, e2, e3))
  BY <1>4, <1>5, <1>8 DEF Before3, Between
<1>10. QED
  BY <1>9 DEF s1, s2, s3, e1, e2, e3, a, b

(* The years, months and days of a calendar follow each other, the months and *)
(* the days round.                                                           *)
LEMMA DateTurns ==
    ASSUME NEW parts, IsDates(parts), NEW m, NEW n, InCalendar(m), InCalendar(n), NextSecond(m, n)
    PROVE  Turns(\E i \in DOMAIN parts : parts[i].value = Unknown,
                 DateOf(parts, n) # DateOf(parts, m),
                 DateOf(parts, n) = Values(Lower(parts)), DateOf(parts, m) = Values(Upper(parts)),
                 DateRange(parts, m), DateRange(parts, n))
<1> DEFINE F == Fields(parts)
           S(f) == StartOf(parts, f)
           E(f) == EndOf(parts, f)
           never == \E i \in DOMAIN parts : parts[i].value = Unknown
           In(x) == Within(DateStart(parts, x), x, DateEnd(parts, x))
<1>1. /\ DateOf(parts, n) = Values(Lower(parts)) <=> \A f \in F : n[f] = S(f)
      /\ DateOf(parts, m) = Values(Upper(parts)) <=> \A f \in F : m[f] = E(f)
      /\ DateOf(parts, n) # DateOf(parts, m) <=> \E f \in F : n[f] # m[f]
      /\ never <=> \E f \in F : S(f) = 0 \/ E(f) = 0
  BY DatesAre
<1>2. ASSUME NEW x, InCalendar(x)
      PROVE  DateRange(parts, x) <=>
               ~never /\ IF Len(parts) = 1 THEN \A f \in F : x[f] = S(f) ELSE In(x)
  BY <1>2, DateRangeIs
<1>3. /\ F \in DateForms /\ F \subseteq 1 .. 3
      /\ \A f \in F : FieldValue(f, S(f)) /\ FieldValue(f, E(f))
  BY FieldsAre, FieldValues DEF DateForms
<1>4. ASSUME NEW x, InCalendar(x)
      PROVE  LET s1 == IF 1 \in F THEN S(1) ELSE x[1]
                 s2 == IF 2 \in F THEN S(2) ELSE IF F = {3} THEN x[2] ELSE 1
                 s3 == IF 3 \in F THEN S(3) ELSE 1
                 e1 == IF 1 \in F THEN E(1) ELSE x[1]
                 e2 == IF 2 \in F THEN E(2) ELSE IF F = {3} THEN x[2] ELSE LastMonth
                 e3 == IF 3 \in F THEN E(3) ELSE LastDay
             IN In(x) <=> Between(Lex3(s1, s2, s3, e1, e2, e3), Lex3(s1, s2, s3, x[1], x[2], x[3]),
                                  Lex3(x[1], x[2], x[3], e1, e2, e3))
  BY <1>4, DatesWithin
<1>5. Len(parts) = 1 => \A f \in F : S(f) = E(f)
  <2>1. ASSUME Len(parts) = 1 PROVE Half(parts) = 1
    BY <2>1 DEF Half
  <2>2. ASSUME Len(parts) = 1, NEW f \in F PROVE S(f) = E(f)
    <3>1. At(parts, f) \in 1 .. Half(parts)
      BY FieldsAre
    <3>2. Len(parts) - Half(parts) + At(parts, f) = At(parts, f)
      BY <2>1, <2>2, <3>1
    <3>3. QED
      BY <3>2 DEF StartOf, EndOf
  <2>3. QED
    BY <2>2
<1>6. /\ LastMonth \in Nat \ {0} /\ LastDay \in Nat \ {0} /\ LastDay <= 31
      /\ LastHour \in Nat /\ LastMinute \in Nat /\ LastSecond \in Nat
  BY CalendarAssumption
<1>7. ASSUME NEW x, InCalendar(x)
      PROVE  x[1] \in Nat /\ x[2] \in 1 .. LastMonth /\ x[3] \in 1 .. LastDay
  BY <1>7 DEF InCalendar
<1>8. \/ n[1] = m[1] /\ n[2] = m[2] /\ n[3] = m[3]
      \/ n[1] = m[1] /\ n[2] = m[2] /\ n[3] = m[3] + 1
      \/ n[1] = m[1] /\ n[2] = m[2] + 1 /\ m[3] = LastDay /\ n[3] = 1
      \/ n[1] = m[1] + 1 /\ m[2] = LastMonth /\ n[2] = 1 /\ m[3] = LastDay /\ n[3] = 1
  BY DEF NextSecond, SameDay, NextDay
<1> HIDE DEF F, S, E, never, In
<1>9. CASE never
  BY <1>2, <1>9 DEF Turns, never
<1>10. CASE ~never /\ Len(parts) = 1
  <2>1. /\ DateRange(parts, m) <=> \A f \in F : m[f] = S(f)
        /\ DateRange(parts, n) <=> \A f \in F : n[f] = S(f)
    BY <1>2, <1>10
  <2>2. QED
    BY <1>1, <1>5, <1>10, <2>1 DEF Turns, never
<1>11. CASE ~never /\ Len(parts) # 1
  <2> DEFINE changes == \E f \in F : n[f] # m[f]
             begins == \A f \in F : n[f] = S(f)
             over == \A f \in F : m[f] = E(f)
  <2>0. SUFFICES Turns(FALSE, changes, begins, over, In(m), In(n))
    BY <1>1, <1>2, <1>11 DEF Turns, never
  <2>1. \A f \in F : S(f) # 0 /\ E(f) # 0
    BY <1>1, <1>11
  <2>2. /\ m[1] \in Nat /\ m[2] \in 1 .. LastMonth /\ m[3] \in 1 .. LastDay
        /\ n[1] \in Nat /\ n[2] \in 1 .. LastMonth /\ n[3] \in 1 .. LastDay
    BY <1>7
  <2>3. /\ 1 \in F => S(1) \in Nat /\ E(1) \in Nat
        /\ 2 \in F => S(2) \in 1 .. LastMonth /\ E(2) \in 1 .. LastMonth
        /\ 3 \in F => S(3) \in 1 .. LastDay /\ E(3) \in 1 .. LastDay
    BY <1>3, <1>6, <2>1 DEF FieldValue
  <2>4. CASE F = {3}
    <3>1. ASSUME NEW x, InCalendar(x)
          PROVE  In(x) <=> Between(S(3) <= E(3), S(3) <= x[3], x[3] <= E(3))
      <4>1. x[1] \in Nat /\ x[2] \in 1 .. LastMonth /\ x[3] \in 1 .. LastDay
        BY <1>7, <3>1
      <4>2. QED
        BY <1>4, <1>6, <2>3, <2>4, <3>1, <4>1 DEF Between, Lex3, Lex2
    <3>2. /\ changes <=> n[3] # m[3]
          /\ begins <=> n[3] = S(3)
          /\ over <=> m[3] = E(3)
      BY <2>4
    <3> HIDE DEF changes, begins, over
    <3>3. CASE ~changes
      <4>1. In(m) <=> In(n)
        BY <3>1, <3>2, <3>3
      <4>2. QED
        BY <3>3, <4>1 DEF Turns
    <3>4. CASE changes
      <4>1. NextInOrder(S(3) <= E(3), S(3) <= m[3], S(3) <= n[3], m[3] <= E(3), n[3] <= E(3),
                        n[3] = S(3), m[3] = E(3))
        BY <1>6, <1>8, <2>2, <2>3, <2>4, <3>2, <3>4 DEF NextInOrder, Lex3, Lex2
      <4>2. QED
        BY <3>1, <3>2, <3>4, <4>1 DEF NextInOrder, Turns, Between
    <3>5. QED
      BY <3>3, <3>4
  <2>5. CASE F = {2}
    <3>1. ASSUME NEW x, InCalendar(x)
          PROVE  In(x) <=> Between(S(2) <= E(2), S(2) <= x[2], x[2] <= E(2))
      <4>1. x[1] \in Nat /\ x[2] \in 1 .. LastMonth /\ x[3] \in 1 .. LastDay
        BY <1>7, <3>1
      <4>2. QED
        BY <1>4, <1>6, <2>3, <2>5, <3>1, <4>1 DEF Between, Lex3, Lex2
    <3>2. /\ changes <=> n[2] # m[2]
          /\ begins <=> n[2] = S(2)
          /\ over <=> m[2] = E(2)
      BY <2>5
    <3> HIDE DEF changes, begins, over
    <3>3. CASE ~changes
      <4>1. In(m) <=> In(n)
        BY <3>1, <3>2, <3>3
      <4>2. QED
        BY <3>3, <4>1 DEF Turns
    <3>4. CASE changes
      <4>1. NextInOrder(S(2) <= E(2), S(2) <= m[2], S(2) <= n[2], m[2] <= E(2), n[2] <= E(2),
                        n[2] = S(2), m[2] = E(2))
        BY <1>6, <1>8, <2>2, <2>3, <2>5, <3>2, <3>4 DEF NextInOrder, Lex3, Lex2
      <4>2. QED
        BY <3>1, <3>2, <3>4, <4>1 DEF NextInOrder, Turns, Between
    <3>5. QED
      BY <3>3, <3>4
  <2>6. CASE F = {1}
    <3>1. ASSUME NEW x, InCalendar(x)
          PROVE  In(x) <=> Between(S(1) <= E(1), S(1) <= x[1], x[1] <= E(1))
      <4>1. x[1] \in Nat /\ x[2] \in 1 .. LastMonth /\ x[3] \in 1 .. LastDay
        BY <1>7, <3>1
      <4>2. QED
        BY <1>4, <1>6, <2>3, <2>6, <3>1, <4>1 DEF Between, Lex3, Lex2
    <3>2. /\ changes <=> n[1] # m[1]
          /\ begins <=> n[1] = S(1)
          /\ over <=> m[1] = E(1)
      BY <2>6
    <3> HIDE DEF changes, begins, over
    <3>3. CASE ~changes
      <4>1. In(m) <=> In(n)
        BY <3>1, <3>2, <3>3
      <4>2. QED
        BY <3>3, <4>1 DEF Turns
    <3>4. CASE changes
      <4>1. NextInOrder(S(1) <= E(1), S(1) <= m[1], S(1) <= n[1], m[1] <= E(1), n[1] <= E(1),
                        n[1] = S(1), m[1] = E(1))
        BY <1>6, <1>8, <2>2, <2>3, <2>6, <3>2, <3>4 DEF NextInOrder, Lex3, Lex2
      <4>2. QED
        BY <3>1, <3>2, <3>4, <4>1 DEF NextInOrder, Turns, Between
    <3>5. QED
      BY <3>3, <3>4
  <2>7. CASE F = {2, 3}
    <3>1. ASSUME NEW x, InCalendar(x)
          PROVE  In(x) <=> Between(Lex2(S(2), S(3), E(2), E(3)), Lex2(S(2), S(3), x[2], x[3]),
                                   Lex2(x[2], x[3], E(2), E(3)))
      <4>1. x[1] \in Nat /\ x[2] \in 1 .. LastMonth /\ x[3] \in 1 .. LastDay
        BY <1>7, <3>1
      <4>2. QED
        BY <1>4, <1>6, <2>3, <2>7, <3>1, <4>1 DEF Between, Lex3, Lex2
    <3>2. /\ changes <=> n[2] # m[2] \/ n[3] # m[3]
          /\ begins <=> n[2] = S(2) /\ n[3] = S(3)
          /\ over <=> m[2] = E(2) /\ m[3] = E(3)
      BY <2>7
    <3> HIDE DEF changes, begins, over
    <3>3. CASE ~changes
      <4>1. In(m) <=> In(n)
        BY <3>1, <3>2, <3>3
      <4>2. QED
        BY <3>3, <4>1 DEF Turns
    <3>4. CASE changes
      <4>1. NextInOrder(Lex2(S(2), S(3), E(2), E(3)), Lex2(S(2), S(3), m[2], m[3]),
                        Lex2(S(2), S(3), n[2], n[3]), Lex2(m[2], m[3], E(2), E(3)),
                        Lex2(n[2], n[3], E(2), E(3)), n[2] = S(2) /\ n[3] = S(3),
                        m[2] = E(2) /\ m[3] = E(3))
        BY <1>6, <1>8, <2>2, <2>3, <2>7, <3>2, <3>4 DEF NextInOrder, Lex3, Lex2
      <4>2. QED
        BY <3>1, <3>2, <3>4, <4>1 DEF NextInOrder, Turns, Between
    <3>5. QED
      BY <3>3, <3>4
  <2>8. CASE F = {1, 2}
    <3>1. ASSUME NEW x, InCalendar(x)
          PROVE  In(x) <=> Between(Lex2(S(1), S(2), E(1), E(2)), Lex2(S(1), S(2), x[1], x[2]),
                                   Lex2(x[1], x[2], E(1), E(2)))
      <4>1. x[1] \in Nat /\ x[2] \in 1 .. LastMonth /\ x[3] \in 1 .. LastDay
        BY <1>7, <3>1
      <4>2. QED
        BY <1>4, <1>6, <2>3, <2>8, <3>1, <4>1 DEF Between, Lex3, Lex2
    <3>2. /\ changes <=> n[1] # m[1] \/ n[2] # m[2]
          /\ begins <=> n[1] = S(1) /\ n[2] = S(2)
          /\ over <=> m[1] = E(1) /\ m[2] = E(2)
      BY <2>8
    <3> HIDE DEF changes, begins, over
    <3>3. CASE ~changes
      <4>1. In(m) <=> In(n)
        BY <3>1, <3>2, <3>3
      <4>2. QED
        BY <3>3, <4>1 DEF Turns
    <3>4. CASE changes
      <4>1. NextInOrder(Lex2(S(1), S(2), E(1), E(2)), Lex2(S(1), S(2), m[1], m[2]),
                        Lex2(S(1), S(2), n[1], n[2]), Lex2(m[1], m[2], E(1), E(2)),
                        Lex2(n[1], n[2], E(1), E(2)), n[1] = S(1) /\ n[2] = S(2),
                        m[1] = E(1) /\ m[2] = E(2))
        BY <1>6, <1>8, <2>2, <2>3, <2>8, <3>2, <3>4 DEF NextInOrder, Lex3, Lex2
      <4>2. QED
        BY <3>1, <3>2, <3>4, <4>1 DEF NextInOrder, Turns, Between
    <3>5. QED
      BY <3>3, <3>4
  <2>9. CASE F = {1, 2, 3}
    <3>1. ASSUME NEW x, InCalendar(x)
          PROVE  In(x) <=> Between(Lex3(S(1), S(2), S(3), E(1), E(2), E(3)),
                                   Lex3(S(1), S(2), S(3), x[1], x[2], x[3]),
                                   Lex3(x[1], x[2], x[3], E(1), E(2), E(3)))
      <4>1. x[1] \in Nat /\ x[2] \in 1 .. LastMonth /\ x[3] \in 1 .. LastDay
        BY <1>7, <3>1
      <4>2. QED
        BY <1>4, <1>6, <2>3, <2>9, <3>1, <4>1 DEF Between, Lex3, Lex2
    <3>2. /\ changes <=> n[1] # m[1] \/ n[2] # m[2] \/ n[3] # m[3]
          /\ begins <=> n[1] = S(1) /\ n[2] = S(2) /\ n[3] = S(3)
          /\ over <=> m[1] = E(1) /\ m[2] = E(2) /\ m[3] = E(3)
      BY <2>9
    <3> HIDE DEF changes, begins, over
    <3>3. CASE ~changes
      <4>1. In(m) <=> In(n)
        BY <3>1, <3>2, <3>3
      <4>2. QED
        BY <3>3, <4>1 DEF Turns
    <3>4. CASE changes
      <4>1. NextInOrder(Lex3(S(1), S(2), S(3), E(1), E(2), E(3)),
                        Lex3(S(1), S(2), S(3), m[1], m[2], m[3]),
                        Lex3(S(1), S(2), S(3), n[1], n[2], n[3]),
                        Lex3(m[1], m[2], m[3], E(1), E(2), E(3)),
                        Lex3(n[1], n[2], n[3], E(1), E(2), E(3)),
                        n[1] = S(1) /\ n[2] = S(2) /\ n[3] = S(3),
                        m[1] = E(1) /\ m[2] = E(2) /\ m[3] = E(3))
        BY <1>6, <1>8, <2>2, <2>3, <2>9, <3>2, <3>4 DEF NextInOrder, Lex3, Lex2
      <4>2. QED
        BY <3>1, <3>2, <3>4, <4>1 DEF NextInOrder, Turns, Between
    <3>5. QED
      BY <3>3, <3>4
  <2>10. QED
    BY <1>3, <2>4, <2>5, <2>6, <2>7, <2>8, <2>9 DEF DateForms
<1>12. QED
  BY <1>9, <1>10, <1>11

(* The day of the week changes with the day.                                 *)
LEMMA WeekdaysFollow ==
    ASSUME NEW t \in Nat
    PROVE  LET v == (t \div PerDay) % 7
               w == ((t + 1) \div PerDay) % 7
           IN v \in 0 .. 6 /\ w \in 0 .. 6 /\ (w = v \/ w = v + 1 \/ (v = 6 /\ w = 0))
<1> DEFINE d == t \div PerDay
           c == (t + 1) \div PerDay
<1>1. PerDay \in Nat \ {0}
  <2>1. LastHour + 1 \in Nat \ {0} /\ LastMinute + 1 \in Nat \ {0} /\ LastSecond + 1 \in Nat \ {0}
    BY CalendarAssumption
  <2>2. \A x, y \in Nat \ {0} : x * y \in Nat \ {0}
    OBVIOUS
  <2>3. QED
    BY <2>1, <2>2 DEF PerDay, PerHour
<1>2. d \in Nat /\ (c = d \/ c = d + 1)
  <2> HIDE DEF d, c
  <2>1. QED
    BY <1>1, Carry DEF d, c
<1>3. 7 \in Nat \ {0} /\ 7 - 1 = 6
  OBVIOUS
<1> HIDE DEF d, c
<1>4. /\ d % 7 \in 0 .. 6
      /\ \/ (d + 1) % 7 = (d % 7) + 1
         \/ d % 7 = 6 /\ (d + 1) % 7 = 0
  BY <1>2, <1>3, Carry
<1>5. c \in Nat => c % 7 \in 0 .. 6
  BY <1>3, Carry
<1>6. QED
  BY <1>2, <1>4, <1>5 DEF d, c

(* The call's range turns at its ends when a second passes.                  *)
LEMMA ClockTurns ==
    ASSUME clock \in Nat, call \in ScriptCalls, call.fn # "dnsResolve",
           call' = call, clock' = clock + 1
    PROVE  /\ Turns(NeverTrue, Named' # Named, Named' = Ends.start, Named = Ends.end,
                    Answer, Answer')
           /\ Answer \in BOOLEAN /\ Answer' \in BOOLEAN
<1>1. Seconds \in Nat /\ Seconds' = Seconds + 1
  <2>1. call.gmt \in BOOLEAN
    BY CallsAssumption
  <2>2. Offset * PerHour \in Nat
    <3>1. LastMinute + 1 \in Nat /\ LastSecond + 1 \in Nat /\ Offset \in Nat
      BY CalendarAssumption
    <3>2. \A x, y \in Nat : x * y \in Nat
      OBVIOUS
    <3>3. QED
      BY <3>1, <3>2 DEF PerHour
  <2>3. QED
    BY <2>1, <2>2 DEF Seconds
<1>2. /\ Now = Moment(Seconds) /\ Now' = Moment(Seconds + 1)
      /\ InCalendar(Now) /\ InCalendar(Now') /\ NextSecond(Now, Now')
  <2>1. Now = Moment(Seconds) /\ Now' = Moment(Seconds + 1)
    BY <1>1 DEF Now
  <2>2. QED
    BY <1>1, <2>1, MomentsFollow
<1>3. CASE call.fn = "weekdayRange"
  <2>1. call.args \in Seq(0 .. 7) /\ Len(call.args) \in 1 .. 2
    BY <1>3, CallsAssumption
  <2>2. /\ Weekday \in 0 .. 6 /\ Weekday' \in 0 .. 6
        /\ Weekday' = Weekday \/ Weekday' = Weekday + 1 \/ (Weekday = 6 /\ Weekday' = 0)
    BY <1>1, WeekdaysFollow DEF Weekday
  <2>3. Turns(\E i \in DOMAIN call.args : call.args[i] \notin 0 .. 6, <<Weekday'>> # <<Weekday>>,
              <<Weekday'>> = Lower(call.args), <<Weekday>> = Upper(call.args),
              WeekdayRange(call.args, Weekday), WeekdayRange(call.args, Weekday'))
    BY <2>1, <2>2, WeekdayTurns
  <2>4. Named = <<Weekday>> /\ Named' = <<Weekday'>>
    BY <1>3 DEF Named
  <2>5. Answer = WeekdayRange(call.args, Weekday) /\ Answer' = WeekdayRange(call.args, Weekday')
    BY <1>3 DEF Answer
  <2>6. Ends.start = Lower(call.args) /\ Ends.end = Upper(call.args)
    BY <1>3 DEF Ends
  <2>7. NeverTrue <=> \E i \in DOMAIN call.args : call.args[i] \notin 0 .. 6
    BY <1>3 DEF NeverTrue
  <2>8. QED
    BY <2>3, <2>4, <2>5, <2>6, <2>7 DEF Turns, WeekdayRange
<1>4. CASE call.fn = "dateRange"
  <2>1. IsDates(call.parts)
    BY <1>4, CallsAssumption
  <2>2. Turns(\E i \in DOMAIN call.parts : call.parts[i].value = Unknown,
              DateOf(call.parts, Now') # DateOf(call.parts, Now),
              DateOf(call.parts, Now') = Values(Lower(call.parts)),
              DateOf(call.parts, Now) = Values(Upper(call.parts)),
              DateRange(call.parts, Now), DateRange(call.parts, Now'))
    BY <1>2, <2>1, DateTurns
  <2>3. Named = DateOf(call.parts, Now) /\ Named' = DateOf(call.parts, Now')
    BY <1>4 DEF Named, DateOf
  <2>4. Answer = DateRange(call.parts, Now) /\ Answer' = DateRange(call.parts, Now')
    BY <1>4 DEF Answer
  <2>5. Ends.start = Values(Lower(call.parts)) /\ Ends.end = Values(Upper(call.parts))
    BY <1>4 DEF Ends
  <2>6. NeverTrue <=> \E i \in DOMAIN call.parts : call.parts[i].value = Unknown
    BY <1>4 DEF NeverTrue
  <2>7. QED
    BY <2>2, <2>3, <2>4, <2>5, <2>6 DEF Turns, DateRange
<1>5. CASE call.fn = "timeRange"
  <2>1. IsTimes(call.args)
    BY <1>5, CallsAssumption
  <2>2. Turns(\/ Len(call.args) \notin {1, 2, 4, 6}
              \/ (Len(call.args) = 2 /\ call.args[1] > call.args[2]),
              TimeOf(call.args, Now') # TimeOf(call.args, Now),
              TimeOf(call.args, Now') = Lower(call.args), TimeOf(call.args, Now) = Upper(call.args),
              TimeRange(call.args, SubSeq(Now, 4, 6)), TimeRange(call.args, SubSeq(Now', 4, 6)))
    BY <1>2, <2>1, TimeTurns
  <2>3. Named = TimeOf(call.args, Now) /\ Named' = TimeOf(call.args, Now')
    BY <1>5 DEF Named, TimeOf
  <2>4. /\ Answer = TimeRange(call.args, SubSeq(Now, 4, 6))
        /\ Answer' = TimeRange(call.args, SubSeq(Now', 4, 6))
    BY <1>5 DEF Answer
  <2>5. Ends.start = Lower(call.args) /\ Ends.end = Upper(call.args)
    BY <1>5 DEF Ends
  <2>6. NeverTrue <=> \/ Len(call.args) \notin {1, 2, 4, 6}
                      \/ (Len(call.args) = 2 /\ call.args[1] > call.args[2])
    BY <1>5 DEF NeverTrue
  <2>7. QED
    <3>1. ASSUME NEW time PROVE TimeRange(call.args, time) \in BOOLEAN
      <4> DEFINE l == Len(call.args)
      <4>1. CASE l \in {1, 2, 4, 6}
        BY <4>1 DEF TimeRange, Within
      <4>2. CASE l \notin {1, 2, 4, 6}
        BY <4>2 DEF TimeRange
      <4>3. QED
        BY <4>1, <4>2
    <3>2. Answer \in BOOLEAN /\ Answer' \in BOOLEAN
      BY <2>4, <3>1
    <3>3. QED
      BY <2>2, <2>3, <2>4, <2>5, <2>6, <3>2 DEF Turns
<1>6. QED
  BY <1>3, <1>4, <1>5, CallsAssumption

(* weekdayRange, dateRange and timeRange turn true exactly when the moment   *)
(* their first half names begins and false exactly when the one their second *)
(* half names is over, wrapping or not, in UTC or in local time, whatever    *)
(* the lengths of the calendar (pac/_functions.py).                          *)
THEOREM RangesTurnAtTheirEnds == FunctionsSpec => TurnsAtItsEnds
<1> DEFINE Inv == clock \in Nat /\ call \in ScriptCalls
           Turn == clock' = clock + 1 /\ call.fn # "dnsResolve" =>
                     LET changes == Named' # Named
                     IN Answer' = IF NeverTrue THEN FALSE
                                  ELSE IF changes /\ Named' = Ends.start THEN TRUE
                                  ELSE IF changes /\ Named = Ends.end THEN FALSE
                                  ELSE Answer
<1>1. FunctionsInit => Inv
  BY DEF FunctionsInit
<1>2. Inv /\ [FunctionsNext]_functionsVars => Inv' /\ call' = call
  BY DEF FunctionsNext, functionsVars, Resolve, NameServerAnswers, Store, Return, ClearDnsCache,
         AddressChanges, SecondPasses
<1>3. Inv /\ [FunctionsNext]_functionsVars => [Turn]_functionsVars
  <2> SUFFICES ASSUME Inv, [FunctionsNext]_functionsVars, clock' = clock + 1, call.fn # "dnsResolve"
               PROVE  Answer' = IF NeverTrue THEN FALSE
                                ELSE IF Named' # Named /\ Named' = Ends.start THEN TRUE
                                ELSE IF Named' # Named /\ Named = Ends.end THEN FALSE
                                ELSE Answer
    OBVIOUS
  <2>1. call' = call
    BY <1>2
  <2>2. /\ Turns(NeverTrue, Named' # Named, Named' = Ends.start, Named = Ends.end, Answer, Answer')
        /\ Answer \in BOOLEAN /\ Answer' \in BOOLEAN
    BY <2>1, ClockTurns
  <2>3. QED
    BY <2>2 DEF Turns
<1> HIDE DEF Inv
<1>4. QED
  BY <1>1, <1>2, <1>3, PTL DEF FunctionsSpec, TurnsAtItsEnds

=============================================================================
