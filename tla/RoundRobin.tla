----------------------------- MODULE RoundRobin -----------------------------
(***************************************************************************)
(* wrappers.RoundRobin over wrappers.Cached, as wrappers.configure nests   *)
(* them: every lookup rotates the answer it got one place, the position    *)
(* being kept per distinct answer, whatever URL or thread it served, for   *)
(* the MaxAnswers most recently rotated answers.                           *)
(***************************************************************************)
EXTENDS CachedMap

CONSTANTS
    Size,       \* [Answers -> how many proxies the answer lists]
    MaxAnswers  \* _MAX_ANSWERS

ASSUME RotationAssumption == Size \in [Answers -> Nat \ {0}] /\ MaxAnswers \in Nat \ {0}

VARIABLES
    positions,  \* _positions: a sequence of [answer, position]
    led         \* history: [Answers -> [place -> times it led, since the answer is kept]]

vars == <<entries, inner, now, pc, url, stamp, got, valid, recency, lookups, positions, led>>

Places(a) == 0 .. Size[a] - 1

Kept(a) == {i \in 1 .. Len(positions) : positions[i].answer = a}

Position(a) == IF Kept(a) = {} THEN 0 ELSE positions[CHOOSE i \in Kept(a) : TRUE].position

Trimmed(s) == Newest(s, MaxAnswers)

In(s, a) == \E i \in 1 .. Len(s) : s[i].answer = a

RoundRobinInit ==
    /\ Init /\ positions = << >> /\ led = [a \in Answers |-> [p \in Places(a) |-> 0]]

-----------------------------------------------------------------------------
(* The entry in front after answer[position:] + answer[:position]. *)
Leader(a) == IF Position(a) < Size[a] THEN Position(a) ELSE 0

(* An answer is forgotten with its history when it leaves positions.          *)
Led(s, a, place) ==
    led' = [b \in Answers |->
              IF ~In(s, b) THEN [p \in Places(b) |-> 0]
              ELSE IF b = a THEN [led[b] EXCEPT ![place] = @ + 1] ELSE led[b]]

RotateTo(t, after) ==
    LET a == got[t]
        moved == Trimmed(Append(Dropped(positions, Kept(a)), [answer |-> a, position |-> after]))
    IN  /\ positions' = moved
        /\ Led(moved, a, Leader(a))

Rotates(t) == pc[t] = "return" /\ got[t] # NoOpinion /\ Size[got[t]] > 1

(* Mutant: the position is kept per lookup of a new answer only. *)
RotateOnce(t) ==
    /\ Rotates(t) /\ RotateTo(t, 1)
    /\ Goto(t, "idle")
    /\ UNCHANGED <<entries, inner, now, url, stamp, got, valid, recency, lookups>>

Rotate(t) ==
    /\ Rotates(t) /\ RotateTo(t, (Position(got[t]) + 1) % Size[got[t]])
    /\ Goto(t, "idle")
    /\ UNCHANGED <<entries, inner, now, url, stamp, got, valid, recency, lookups>>

(* "no opinion" passes, and a single entry has nothing to rotate *)
PassOn(t) == ~Rotates(t) /\ Return(t) /\ UNCHANGED <<positions, led>>

RoundRobinNext ==
    \/ \E t \in Thread : Rotate(t) \/ PassOn(t)
    \/ ((\E t \in Thread : Looking(t)) \/ Around) /\ UNCHANGED <<positions, led>>

RoundRobinSpec == RoundRobinInit /\ [][RoundRobinNext]_vars

-----------------------------------------------------------------------------
(* The lookups that get the same answer, for any URL and on any thread, lead *)
(* with each of its entries equally often, give or take one, for as long as  *)
(* the answer is among the kept ones, even when the cache forgets it and     *)
(* asks for it again (wrappers.py:96-129).                                   *)
Balanced ==
    \A a \in Answers : \A p, q \in Places(a) : led[a][p] <= led[a][q] + 1
=============================================================================
