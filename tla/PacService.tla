---------------------------- MODULE PacService ----------------------------
(***************************************************************************)
(* What a PacScript promises the threads that share it (class docstring,   *)
(* pac/script.py): each call ends with the script's answer for the URL it  *)
(* asked about, or with an error; the script is evaluated for one call at  *)
(* a time; an evaluation that overran never answers; without an engine     *)
(* everything is DIRECT.  Helpers, queues, locks and the cool-down are how *)
(* PacScript keeps it.                                                     *)
(***************************************************************************)
EXTENDS Naturals

CONSTANTS Thread, Url

VARIABLES
    call,    \* [Thread -> "idle", "asked", "running" or "lost"]
    result,  \* [Thread -> <<kind, the URL asked about or answered for>>]
    engine   \* is an engine installed?

Init ==
    /\ call = [t \in Thread |-> "idle"]
    /\ result \in [Thread -> {"none"} \X Url]
    /\ engine \in BOOLEAN

Becomes(t, state, res) ==
    /\ call' = [call EXCEPT ![t] = state]
    /\ result' = [result EXCEPT ![t] = res]
    /\ UNCHANGED engine

Ask(t) == call[t] = "idle" /\ engine /\ \E u \in Url : Becomes(t, "asked", <<"none", u>>)

Direct(t) == call[t] = "idle" /\ ~engine /\ \E u \in Url : Becomes(t, "idle", <<"DIRECT", u>>)

Evaluate(t) ==
    /\ call[t] = "asked" /\ \A s \in Thread : call[s] # "running"
    /\ Becomes(t, "running", result[t])

Answer(t) == call[t] = "running" /\ Becomes(t, "idle", <<"answer", result[t][2]>>)

Lose(t) == call[t] = "running" /\ Becomes(t, "lost", result[t])

Refuse(t) ==
    \E kind \in {"PACError", "OSError", "interrupted"} :
        /\ \/ call[t] = "asked"
           \/ call[t] = "running" /\ kind # "OSError"
           \/ call[t] = "lost" /\ kind = "PACError"
        /\ Becomes(t, "idle", <<kind, result[t][2]>>)

Close(t) == call[t] = "idle" /\ Becomes(t, "idle", <<"none", result[t][2]>>)

Next ==
    \E t \in Thread : Ask(t) \/ Direct(t) \/ Evaluate(t) \/ Answer(t) \/ Lose(t) \/ Refuse(t)
                        \/ Close(t)

Spec == Init /\ [][Next]_<<call, result, engine>>
=============================================================================
