------------------------ MODULE RequestsRoutingProofs ------------------------
(***************************************************************************)
(* Proofs about RequestsRouting: who decides for a request is who should,  *)
(* whatever the sessions, the proxies given, the depth and the number of   *)
(* the calls.                                                              *)
(***************************************************************************)
EXTENDS RequestsRouting, SequenceTheorems, TLAPS

(* What the three properties say, of one call.                               *)
RightRoute(f) ==
    /\ wrapped /\ CallersProxy(f) # Nothing => f.route # "map"
    /\ ~IsProxyDict(f.proxies) /\ f.proxies["host"] # Nothing => f.route # "map"
    /\ IsCallersOwn(f.own) => MapDecides(f)
    /\ IsPatched(f.session) /\ f.session \notin Trusting
       /\ ~IsProxyDict(f.own) /\ IsCallersOwn(f.own)
       => f.route \notin {"map", "env"}

(* The adapter's dict is the caller's and the session's own, but for entries *)
(* left out and, in a session that trusts it, the environment's.             *)
FromOwn(f) ==
    /\ IsProxyDict(f.own) \/ IsProxyDict(f.proxies) => f.proxies = f.own
    /\ ~IsProxyDict(f.proxies) =>
        \A k \in Keys : \/ f.proxies[k] \in {f.own[k], Nothing}
                        \/ f.session \in Trusting /\ k = "scheme" /\ f.proxies[k] = env

(* _CALLER while a call is the innermost.                                    *)
RecordOf(f) == [trust |-> f.session \in Trusting, explicit |-> f.own]

(* _CALLER is what the innermost call recorded, and each call will restore   *)
(* what the one around it did.                                               *)
CallersRecorded ==
    /\ caller = IF wrapped /\ stack # << >> THEN RecordOf(Top) ELSE NoCaller
    /\ \A i \in 1 .. Len(stack) :
        stack[i].restores = IF wrapped /\ i > 1 THEN RecordOf(stack[i - 1]) ELSE NoCaller

CallsRight ==
    \A i \in 1 .. Len(stack) :
        FromOwn(stack[i]) /\ (stack[i].route # Undecided => RightRoute(stack[i]))

(* The inductive invariant, when hooks call request() only.                  *)
RoutingInv == TypeOK /\ CallersRecorded /\ CallsRight
HooksOnlyRequest == ~NestsSends

(* What TypeOK needs to be inductive.                                        *)
RestoresTyped ==
    /\ TypeOK
    /\ ~wrapped => \A i \in 1 .. Len(stack) : stack[i].restores = NoCaller
    /\ stack # << >> => stack[1].restores = NoCaller

-----------------------------------------------------------------------------
(* What the operators return.                                                *)

Value == Proxy \cup {Nothing}
Environment == {Nothing} \cup ({"env"} \X {"plain", "chain"})
Proxies == Dict \cup ProxyDict

(* A proxy says who gave it, and only the environment gives "env".           *)
LEMMA Givers ==
  ASSUME NEW v \in Value
  PROVE  /\ v[1] \in {"nobody", "call", "session", "env"}
         /\ v[1] # "map" /\ v[1] # Undecided
         /\ v = Nothing => v[1] = "nobody"
         /\ v = Nothing <=> v[1] = "nobody"
BY DEF Value, Proxy, Nothing, Undecided

(* A dict of proxies is no ProxyDict and the other way round.                *)
LEMMA Kinds ==
  /\ \A d \in Dict : ~IsProxyDict(d) /\ DOMAIN d = Keys /\ \A k \in Keys : d[k] \in Value
  /\ \A d \in ProxyDict : IsProxyDict(d)
  /\ Empty \in Dict /\ Nothing \in Value
BY DEF Dict, ProxyDict, IsProxyDict, Keys, Value, Empty

(* merge_setting takes the first dict's entries, then the second's.          *)
LEMMA Merges ==
  ASSUME NEW mine \in Proxies, NEW theirs \in Dict
  PROVE  /\ IsProxyDict(mine) => MergeSetting(mine, theirs) = mine
         /\ ~IsProxyDict(mine) =>
              /\ MergeSetting(mine, theirs) \in Dict
              /\ \A k \in Keys : MergeSetting(mine, theirs)[k] =
                                   IF mine[k] # Nothing THEN mine[k] ELSE theirs[k]
         /\ MergeSetting(mine, theirs) \in Proxies
         /\ IsProxyDict(MergeSetting(mine, theirs)) <=> IsProxyDict(mine)
<1>1. CASE IsProxyDict(mine)
  BY <1>1 DEF MergeSetting
<1>2. CASE ~IsProxyDict(mine)
  <2>1. mine \in Dict
    BY <1>2, Kinds DEF Proxies
  <2>2. MergeSetting(mine, theirs) =
          [k \in Keys |-> IF mine[k] # Nothing THEN mine[k] ELSE theirs[k]]
    BY <1>2, <2>1, Kinds DEF MergeSetting
  <2>3. \A k \in Keys : mine[k] \in Value /\ theirs[k] \in Value
    BY <2>1, Kinds
  <2>4. MergeSetting(mine, theirs) \in [Keys -> Value]
    BY <2>2, <2>3
  <2>5. MergeSetting(mine, theirs) \in Dict
    BY <2>4 DEF Dict, Value
  <2>6. QED
    BY <1>2, <2>2, <2>5, Kinds DEF Proxies
<1>3. QED
  BY <1>1, <1>2

(* The environment fills in the scheme's entry, in a session that trusts it. *)
LEMMA Fills ==
  ASSUME env \in Environment, NEW s, NEW d \in Proxies
  PROVE  /\ IsProxyDict(d) => WithEnvironment(s, d) = d
         /\ ~IsProxyDict(d) =>
              /\ WithEnvironment(s, d) \in Dict
              /\ \A k \in Keys :
                   \/ WithEnvironment(s, d)[k] = d[k]
                   \/ /\ s \in Trusting /\ k = "scheme" /\ d[k] = Nothing
                      /\ WithEnvironment(s, d)[k] = env
         /\ WithEnvironment(s, d) \in Proxies
         /\ IsProxyDict(WithEnvironment(s, d)) <=> IsProxyDict(d)
<1>1. CASE IsProxyDict(d) \/ s \notin Trusting
  BY <1>1, Kinds DEF WithEnvironment, Proxies
<1>2. CASE ~IsProxyDict(d) /\ s \in Trusting
  <2>1. d \in [Keys -> Value]
    BY <1>2, Kinds DEF Proxies, Dict, Value
  <2>2. WithEnvironment(s, d) = SetDefault(d)
    BY <1>2 DEF WithEnvironment
  <2>3. env \in Value /\ "scheme" \in Keys
    BY DEF Environment, Value, Proxy, Keys
  <2>4. /\ SetDefault(d) \in [Keys -> Value]
        /\ \A k \in Keys \ {"scheme"} : SetDefault(d)[k] = d[k]
        /\ SetDefault(d)["scheme"] = IF d["scheme"] = Nothing THEN env ELSE d["scheme"]
    BY <2>1, <2>3 DEF SetDefault
  <2>5. SetDefault(d) \in Dict
    BY <2>4 DEF Dict, Value
  <2>6. QED
    BY <1>2, <2>2, <2>4, <2>5, Kinds DEF Proxies
<1>3. QED
  BY <1>1, <1>2

(* select_proxy returns one of the entries, or nobody's.                     *)
LEMMA Selects ==
  ASSUME NEW d \in Proxies
  PROVE  /\ IsProxyDict(d) => SelectProxy(d) = Nothing
         /\ ~IsProxyDict(d) =>
              /\ \E k \in Keys : SelectProxy(d) = d[k]
              /\ d["host"] # Nothing => SelectProxy(d) # Nothing
         /\ SelectProxy(d) \in Value
         /\ "host" \in Keys
<1>1. {"host", "scheme", "all"} \subseteq Keys
  BY DEF Keys
<1>2. CASE IsProxyDict(d)
  BY <1>1, <1>2, Kinds DEF SelectProxy
<1>3. CASE ~IsProxyDict(d)
  <2>1. \E k \in {"host", "scheme", "all"} : SelectProxy(d) = d[k]
    BY <1>3 DEF SelectProxy
  <2>2. d["host"] # Nothing => SelectProxy(d) # Nothing
    BY <1>3 DEF SelectProxy
  <2>3. QED
    BY <1>1, <1>3, <2>1, <2>2, Kinds DEF Proxies
<1>4. QED
  BY <1>2, <1>3

(* A record of _CALLER is never the value it has outside any call.           *)
LEMMA Recorded ==
  /\ \A c \in Caller : c # NoCaller
  /\ \A t \in BOOLEAN, e \in Proxies : [trust |-> t, explicit |-> e] \in Caller
<1>1. \A e \in Proxies : e # << >>
  <2>1. DOMAIN << >> = {}
    OBVIOUS
  <2>2. \A e \in Dict : DOMAIN e = Keys
    BY Kinds
  <2>3. \A e \in ProxyDict : "says" \in DOMAIN e
    BY Kinds DEF IsProxyDict
  <2>4. Keys # {}
    BY DEF Keys
  <2>5. QED
    BY <2>1, <2>2, <2>3, <2>4 DEF Proxies
<1>2. QED
  BY <1>1 DEF Caller, NoCaller, Proxies

-----------------------------------------------------------------------------
(* What the steps do.                                                        *)

(* The frame of a call.                                                      *)
FrameOf(s, p, q) ==
    [session |-> s, own |-> MergeSetting(p, OwnProxies[s]), proxies |-> q,
     restores |-> caller, route |-> Undecided]

(* A frame is made of what its call has. *)
LEMMA Frames ==
  ASSUME TypeOK, NEW s \in Session, NEW p \in Proxies, NEW q \in Proxies
  PROVE  /\ FrameOf(s, p, q) \in Frame
         /\ RecordOf(FrameOf(s, p, q)) = CallerOf(s, p) /\ CallerOf(s, p) \in Caller
         /\ FrameOf(s, p, q).session = s
         /\ FrameOf(s, p, q).own = MergeSetting(p, OwnProxies[s])
         /\ FrameOf(s, p, q).own \in Proxies
         /\ FrameOf(s, p, q).proxies = q
         /\ FrameOf(s, p, q).restores = caller
         /\ FrameOf(s, p, q).route = Undecided
<1>1. MergeSetting(p, OwnProxies[s]) \in Proxies
  BY RoutingAssumption, Merges
<1>2. caller \in Caller \cup {NoCaller}
  BY DEF TypeOK
<1>3. CallerOf(s, p) = [trust |-> s \in Trusting, explicit |-> MergeSetting(p, OwnProxies[s])]
  BY DEF CallerOf
<1>4. FrameOf(s, p, q) \in Frame
  BY <1>1, <1>2 DEF FrameOf, Frame, Proxies
<1>5. CallerOf(s, p) \in Caller
  <2>1. (s \in Trusting) \in BOOLEAN
    OBVIOUS
  <2>2. QED
    BY <1>1, <1>3, <2>1, Recorded
<1>6. QED
  BY <1>1, <1>3, <1>4, <1>5 DEF FrameOf, RecordOf

(* What the adapter gets of the proxies a call passes.                       *)
LEMMA OwnMerged ==
  ASSUME TypeOK, NEW s \in Session, NEW p \in Proxies
  PROVE  /\ MergeSetting(WithEnvironment(s, p), OwnProxies[s]) \in Proxies
         /\ FromOwn(FrameOf(s, p, MergeSetting(WithEnvironment(s, p), OwnProxies[s])))
         /\ FromOwn(FrameOf(s, p, p))
<1> DEFINE theirs == OwnProxies[s]
           filled == WithEnvironment(s, p)
           own == MergeSetting(p, theirs)
           q == MergeSetting(filled, theirs)
<1>1. theirs \in Dict
  BY RoutingAssumption
<1>2. env \in Environment
  BY DEF TypeOK, Environment
<1>3. /\ IsProxyDict(p) => filled = p
      /\ ~IsProxyDict(p) =>
           \A k \in Keys :
             \/ filled[k] = p[k]
             \/ s \in Trusting /\ k = "scheme" /\ p[k] = Nothing /\ filled[k] = env
      /\ filled \in Proxies
      /\ IsProxyDict(filled) <=> IsProxyDict(p)
  BY <1>2, Fills
<1> HIDE DEF theirs, filled
<1>4. /\ IsProxyDict(p) => own = p
      /\ ~IsProxyDict(p) =>
           \A k \in Keys : own[k] = IF p[k] # Nothing THEN p[k] ELSE theirs[k]
      /\ IsProxyDict(own) <=> IsProxyDict(p)
  BY <1>1, Merges
<1>5. /\ IsProxyDict(filled) => q = filled
      /\ ~IsProxyDict(filled) =>
           \A k \in Keys : q[k] = IF filled[k] # Nothing THEN filled[k] ELSE theirs[k]
      /\ q \in Proxies
      /\ IsProxyDict(q) <=> IsProxyDict(filled)
  BY <1>1, <1>3, Merges
<1> HIDE DEF own, q
<1>6. \A d \in Proxies :
        LET f == FrameOf(s, p, d) IN f.session = s /\ f.own = own /\ f.proxies = d
  BY Frames DEF own, theirs
<1>7. FromOwn(FrameOf(s, p, q))
  <2>1. IsProxyDict(own) \/ IsProxyDict(q) => q = own
    BY <1>3, <1>4, <1>5
  <2>2. ASSUME ~IsProxyDict(q), NEW k \in Keys
        PROVE  q[k] \in {own[k], Nothing} \/ (s \in Trusting /\ k = "scheme" /\ q[k] = env)
    <3>1. ~IsProxyDict(filled) /\ ~IsProxyDict(p)
      BY <2>2, <1>3, <1>5
    <3>2. q[k] = IF filled[k] # Nothing THEN filled[k] ELSE theirs[k]
      BY <3>1, <1>5
    <3>3. own[k] = IF p[k] # Nothing THEN p[k] ELSE theirs[k]
      BY <3>1, <1>4
    <3>4. filled[k] = p[k] \/ (s \in Trusting /\ k = "scheme" /\ p[k] = Nothing /\ filled[k] = env)
      BY <3>1, <1>3
    <3>5. QED
      BY <3>2, <3>3, <3>4
  <2>3. QED
    BY <1>5, <1>6, <2>1, <2>2 DEF FromOwn
<1>8. FromOwn(FrameOf(s, p, p))
  <2>1. IsProxyDict(own) \/ IsProxyDict(p) => p = own
    BY <1>4
  <2>2. ASSUME ~IsProxyDict(p), NEW k \in Keys
        PROVE  p[k] \in {own[k], Nothing}
    BY <2>2, <1>4
  <2>3. QED
    BY <1>6, <2>1, <2>2 DEF FromOwn
<1>9. QED
  BY <1>5, <1>7, <1>8 DEF q, filled, theirs

(* A call without proxies passes the session's.                              *)
LEMMA OwnDefault ==
  ASSUME TypeOK, NEW s \in Session
  PROVE  /\ WithEnvironment(s, OwnProxies[s]) \in Proxies
         /\ FromOwn(FrameOf(s, Empty, WithEnvironment(s, OwnProxies[s])))
<1> DEFINE theirs == OwnProxies[s]
           q == WithEnvironment(s, theirs)
           own == MergeSetting(Empty, theirs)
<1>1. theirs \in Dict /\ theirs \in Proxies
  BY RoutingAssumption DEF Proxies
<1>2. env \in Environment
  BY DEF TypeOK, Environment
<1>3. Empty \in Proxies /\ ~IsProxyDict(Empty) /\ \A k \in Keys : Empty[k] = Nothing
  BY Kinds DEF Proxies, Empty
<1>4. ~IsProxyDict(theirs)
  BY <1>1, Kinds
<1> HIDE DEF theirs
<1>5. ~IsProxyDict(own) /\ \A k \in Keys : own[k] = theirs[k]
  BY <1>1, <1>3, Merges
<1>6. /\ q \in Proxies /\ ~IsProxyDict(q)
      /\ \A k \in Keys : q[k] = theirs[k] \/ (s \in Trusting /\ k = "scheme" /\ q[k] = env)
  <2>1. q \in Proxies /\ ~IsProxyDict(q)
    BY <1>1, <1>2, <1>4, Fills
  <2>2. \A k \in Keys :
          \/ q[k] = theirs[k]
          \/ s \in Trusting /\ k = "scheme" /\ theirs[k] = Nothing /\ q[k] = env
    BY <1>1, <1>2, <1>4, Fills
  <2>3. QED
    BY <2>1, <2>2
<1> HIDE DEF q, own
<1>7. LET f == FrameOf(s, Empty, q) IN f.session = s /\ f.own = own /\ f.proxies = q
  BY <1>3, <1>6, Frames DEF own, theirs
<1>8. FromOwn(FrameOf(s, Empty, q))
  BY <1>5, <1>6, <1>7 DEF FromOwn
<1>9. QED
  BY <1>6, <1>8 DEF q, theirs

(* Request and Send put a call on the stack.                                 *)
LEMMA CallPushes ==
  ASSUME TypeOK, NEW s \in Session, Request(s) \/ Send(s)
  PROVE  /\ \E f \in Frame :
              /\ stack' = Append(stack, f) /\ f.restores = caller /\ f.route = Undecided
              /\ FromOwn(f)
              /\ HooksOnlyRequest /\ wrapped => caller' = RecordOf(f)
         /\ caller' \in Caller \cup {caller} /\ (~wrapped => caller' = caller)
         /\ Len(stack) < MaxDepth /\ calls < MaxCalls /\ calls' = calls + 1
         /\ reused' \in Dict
         /\ UNCHANGED <<env, mapSays, wrapped>>
<1> DEFINE Starts(p, q, r) ==
             Begin(s, p, q, r) /\ FromOwn(FrameOf(s, p, q)) /\ (HooksOnlyRequest => r)
<1>1. /\ Given \subseteq Proxies /\ Empty \in Proxies /\ ProxyDict \subseteq Proxies
      /\ reused \in Proxies /\ reused \in Dict
  BY RoutingAssumption, Kinds DEF Proxies, TypeOK
<1>2. env \in Environment
  BY DEF TypeOK, Environment
<1>3. (\E p, q \in Proxies, r \in BOOLEAN : Starts(p, q, r)) /\ reused' \in Dict
  <2>1. CASE Request(s)
    <3>1. CASE \E p \in Given \cup {Empty} \cup ProxyDict :
                 /\ Begin(s, p, MergeSetting(WithEnvironment(s, p), OwnProxies[s]), TRUE)
                 /\ UNCHANGED reused
      BY <1>1, <3>1, OwnMerged, ZenonT(40)
    <3>2. CASE /\ Begin(s, reused, MergeSetting(WithEnvironment(s, reused), OwnProxies[s]), TRUE)
               /\ reused' = IF reused = Empty THEN reused ELSE WithEnvironment(s, reused)
      <4>1. WithEnvironment(s, reused) \in Dict
        BY <1>1, <1>2, Fills, Kinds
      <4>2. QED
        BY <1>1, <3>2, <4>1, OwnMerged
    <3>3. QED
      BY <2>1, <3>1, <3>2 DEF Request
  <2>2. CASE Send(s)
    <3>1. HooksOnlyRequest => caller = NoCaller
      BY <2>2 DEF Send, HooksOnlyRequest, TypeOK
    <3>2. (caller = NoCaller) \in BOOLEAN
      OBVIOUS
    <3>3. CASE \E p \in Given \cup ProxyDict : Begin(s, p, p, caller = NoCaller)
      BY <1>1, <2>2, <3>1, <3>2, <3>3, OwnMerged DEF Send
    <3>4. CASE Begin(s, Empty, WithEnvironment(s, OwnProxies[s]), caller = NoCaller)
      BY <1>1, <2>2, <3>1, <3>2, <3>4, OwnDefault DEF Send
    <3>5. QED
      BY <2>2, <3>3, <3>4 DEF Send
  <2>3. QED
    BY <2>1, <2>2
<1>4. PICK p \in Proxies, q \in Proxies, r \in BOOLEAN : Starts(p, q, r)
  BY <1>3
<1>5. stack' = Append(stack, FrameOf(s, p, q))
  BY <1>4 DEF Begin, FrameOf
<1>6. caller' = IF wrapped /\ r THEN CallerOf(s, p) ELSE caller
  BY <1>4 DEF Begin
<1>7. /\ Len(stack) < MaxDepth /\ calls < MaxCalls /\ calls' = calls + 1
      /\ UNCHANGED <<env, mapSays, wrapped>>
  BY <1>4 DEF Begin
<1>8. FromOwn(FrameOf(s, p, q)) /\ (HooksOnlyRequest => r)
  BY <1>4
<1>9. QED
  BY <1>3, <1>5, <1>6, <1>7, <1>8, Frames

(* Who can come out of the adapter's routing, and when the map does.         *)
LEMMA Routes ==
  LET decides == ~Asserts(Top.proxies) /\ Explicit = Nothing /\ ~IgnoresMap
                   /\ mapSays = "opinion" /\ ~HasHostKey
  IN  /\ decides => Route = "map"
      /\ ~decides => \/ Asserts(Top.proxies) /\ Route = "dict"
                     \/ Explicit # Nothing /\ Route = Explicit[1]
                     \/ Route = SelectProxy(Top.proxies)[1]
<1> DEFINE p == Top.proxies
           sel == SelectProxy(p)
           x == Explicit
           decides == ~Asserts(p) /\ x = Nothing /\ ~IgnoresMap
                        /\ mapSays = "opinion" /\ ~HasHostKey
<1>1. \A v : \/ ReadValue(v).left
             \/ ~ReadValue(v).left /\ ReadValue(v).first /\ ReadValue(v).by = v
  BY DEF ReadValue, Decided, LeftToRequests
<1>2. \A v, b : Decided(v, b).by = v /\ Decided(v, b).first = b /\ ~Decided(v, b).left
  BY DEF Decided
<1>3. Route = IF entries.left \/ (~entries.first /\ HasHostKey) THEN sel[1] ELSE entries.by[1]
  BY DEF Route
<1>4. <<"dict", "chain">>[1] = "dict" /\ MapEntry[1] = "map"
  BY DEF MapEntry
<1>5. entries =
        IF Asserts(p) THEN Decided(<<"dict", "chain">>, TRUE)
        ELSE IF x # Nothing THEN ReadValue(x)
        ELSE IF IgnoresMap THEN ReadValue(sel)
        ELSE IF mapSays = "opinion" THEN Decided(MapEntry, FALSE)
        ELSE ReadValue(sel)
  BY DEF entries
<1> HIDE DEF p, sel, x
<1>6. CASE Asserts(p)
  <2>1. entries = Decided(<<"dict", "chain">>, TRUE)
    BY <1>5, <1>6
  <2>2. entries.by = <<"dict", "chain">> /\ entries.first /\ ~entries.left
    BY <1>2, <2>1
  <2>3. Route = "dict"
    BY <1>3, <1>4, <2>2
  <2>4. QED
    BY <1>6, <2>3 DEF p
<1>7. CASE ~Asserts(p) /\ x # Nothing
  <2>1. entries = ReadValue(x)
    BY <1>5, <1>7
  <2>2. Route = x[1] \/ Route = sel[1]
    BY <1>1, <1>3, <2>1
  <2>3. QED
    BY <1>7, <2>2 DEF p, x, sel
<1>8. CASE ~Asserts(p) /\ x = Nothing
  <2>1. CASE decides
    <3>1. entries = Decided(MapEntry, FALSE)
      BY <1>5, <1>8, <2>1
    <3>2. entries.by = MapEntry /\ ~entries.left
      BY <1>2, <3>1
    <3>3. Route = "map"
      BY <1>3, <1>4, <2>1, <3>2
    <3>4. QED
      BY <2>1, <3>3 DEF p, x
  <2>2. CASE ~decides
    <3>1. CASE HasHostKey /\ mapSays = "opinion" /\ ~IgnoresMap
      <4>1. entries = Decided(MapEntry, FALSE)
        BY <1>5, <1>8, <3>1
      <4>2. ~entries.first
        BY <1>2, <4>1
      <4>3. Route = sel[1]
        BY <1>3, <4>2, <3>1
      <4>4. QED
        BY <2>2, <4>3 DEF p, x, sel
    <3>2. CASE IgnoresMap \/ mapSays # "opinion"
      <4>1. entries = ReadValue(sel)
        BY <1>5, <1>8, <3>2
      <4>2. Route = sel[1]
        BY <1>1, <1>3, <4>1
      <4>3. QED
        BY <2>2, <4>2 DEF p, x, sel
    <3>3. QED
      BY <1>8, <2>2, <3>1, <3>2
  <2>3. QED
    BY <2>1, <2>2
<1>9. QED
  BY <1>6, <1>7, <1>8

(* The environment's entries make no difference to a dict that has none.     *)
LEMMA WithoutNone ==
  ASSUME NEW d \in Proxies
  PROVE  /\ SelectProxy(WithoutEnvironment(d)) # Nothing => SelectProxy(d) # Nothing
         /\ IsCallersOwn(d) => SelectProxy(WithoutEnvironment(d)) = SelectProxy(d)
         /\ IsCallersOwn(d) /\ ~IsProxyDict(d) => \A k \in Keys : d[k][1] # "env"
<1>1. CASE IsProxyDict(d)
  BY <1>1 DEF WithoutEnvironment
<1>2. CASE ~IsProxyDict(d)
  <2>1. d \in Dict /\ DOMAIN d = Keys
    BY <1>2, Kinds DEF Proxies
  <2>2. WithoutEnvironment(d) = [k \in Keys |-> IF d[k][1] = "env" THEN Nothing ELSE d[k]]
    BY <1>2, <2>1 DEF WithoutEnvironment
  <2> DEFINE w == WithoutEnvironment(d)
  <2>3. \A k \in Keys : w[k] = Nothing \/ w[k] = d[k]
    BY <2>2
  <2>4. {"host", "scheme", "all"} \subseteq Keys
    BY DEF Keys
  <2>5. \A k \in Keys : w[k] \in Value
    <3>1. \A k \in Keys : d[k] \in Value
      BY <2>1, Kinds
    <3>2. QED
      BY <2>3, <3>1, Kinds
  <2>6. w \in Dict
    BY <2>2, <2>5 DEF Dict, Value
  <2>7. ~IsProxyDict(w)
    BY <2>6, Kinds
  <2> HIDE DEF w
  <2>8. SelectProxy(w) # Nothing => SelectProxy(d) # Nothing
    <3>1. w["host"] \in {Nothing, d["host"]} /\ w["scheme"] \in {Nothing, d["scheme"]}
          /\ w["all"] \in {Nothing, d["all"]}
      BY <2>3, <2>4
    <3>2. QED
      BY <1>2, <2>7, <3>1 DEF SelectProxy
  <2>9. ASSUME w = d, NEW k \in Keys PROVE d[k][1] # "env"
    <3>1. d[k] \in Value /\ d[k][1] = "env" => d[k] = Nothing
      BY <2>1, <2>2, <2>9, Kinds DEF w
    <3>2. QED
      BY <2>1, <3>1, Kinds, Givers
  <2>10. QED
    BY <1>2, <2>8, <2>9 DEF w, IsCallersOwn
<1>3. QED
  BY <1>1, <1>2

-----------------------------------------------------------------------------
(* Types.                                                                    *)

(* The call in front has a frame. *)
LEMMA TopTyped ==
  ASSUME TypeOK, stack # << >>
  PROVE  /\ Len(stack) \in Nat \ {0} /\ Len(stack) \in 1 .. Len(stack)
         /\ Top \in Frame /\ Top = stack[Len(stack)] /\ Top.session \in Session
         /\ Top.own \in Proxies /\ Top.proxies \in Proxies
<1>1. stack \in Seq(Frame)
  BY DEF TypeOK
<1>2. Len(stack) \in Nat \ {0} /\ Len(stack) \in 1 .. Len(stack)
  BY <1>1, EmptySeq
<1>3. Top = stack[Len(stack)] /\ Top \in Frame
  BY <1>1, <1>2 DEF Top
<1>4. QED
  BY <1>2, <1>3 DEF Frame, Proxies

(* Where the caller's own proxies come from.                                 *)
LEMMA ExplicitTyped ==
  ASSUME TypeOK
  PROVE  Explicit \in Value
<1>1. CASE caller = NoCaller \/ IsProxyDict(Top.proxies)
  BY <1>1, Kinds DEF Explicit
<1>2. CASE ~(caller = NoCaller \/ IsProxyDict(Top.proxies))
  <2>1. caller \in Caller
    BY <1>2 DEF TypeOK
  <2>2. caller.explicit \in Proxies
    BY <2>1 DEF Caller, Proxies
  <2>3. QED
    BY <1>2, <2>2, Selects DEF Explicit
<1>3. QED
  BY <1>1, <1>2

(* A request is routed by one of those who can decide it. *)
LEMMA RouteTyped ==
  ASSUME TypeOK, stack # << >>
  PROVE  Route \in {"map", "dict", "nobody", "call", "session", "env"}
<1>1. SelectProxy(Top.proxies) \in Value /\ Explicit \in Value
  BY TopTyped, Selects, ExplicitTyped
<1>2. /\ SelectProxy(Top.proxies)[1] \in {"nobody", "call", "session", "env"}
      /\ Explicit[1] \in {"nobody", "call", "session", "env"}
  BY <1>1, Givers
<1>3. QED
  BY <1>2, Routes

(* What the steps that only change the innermost call do to it.              *)
LEMMA TopChanges ==
  ASSUME TypeOK, AdapterSend \/ Redirect
  PROVE  /\ stack # << >> /\ UNCHANGED <<env, mapSays, wrapped, reused, caller, calls>>
         /\ \E f \in Frame :
              /\ stack' = [stack EXCEPT ![Len(stack)] = f]
              /\ f.session = Top.session /\ f.own = Top.own /\ f.restores = Top.restores
              /\ \/ AdapterSend /\ f.proxies = Top.proxies /\ f.route = Route
                 \/ /\ Redirect /\ f.proxies = WithEnvironment(Top.session, Top.proxies)
                    /\ f.route = Undecided
<1>1. stack # << >> /\ UNCHANGED <<env, mapSays, wrapped, reused, caller, calls>>
  BY DEF AdapterSend, Redirect
<1>2. Top \in Frame /\ Top.proxies \in Proxies
  BY <1>1, TopTyped
<1>3. CASE AdapterSend
  <2>1. stack' = [stack EXCEPT ![Len(stack)] = [Top EXCEPT !.route = Route]]
    BY <1>3 DEF AdapterSend, SetTop
  <2>2. Route \in {"map", "dict", "nobody", "call", "session", "env"}
    BY <1>1, RouteTyped
  <2>3. [Top EXCEPT !.route = Route] \in Frame
    BY <1>2, <2>2 DEF Frame
  <2>4. LET f == [Top EXCEPT !.route = Route]
        IN  /\ f.session = Top.session /\ f.own = Top.own /\ f.restores = Top.restores
            /\ f.proxies = Top.proxies /\ f.route = Route
    BY <1>2 DEF Frame
  <2>5. QED
    BY <1>1, <1>3, <2>1, <2>3, <2>4
<1>4. CASE Redirect
  <2> DEFINE q == WithEnvironment(Top.session, Top.proxies)
             f == [Top EXCEPT !.route = Undecided, !.proxies = q]
  <2>1. stack' = [stack EXCEPT ![Len(stack)] = f]
    BY <1>4, <1>2 DEF Redirect, SetTop, Frame
  <2>2. q \in Proxies
    BY <1>2, Fills DEF TypeOK, Environment
  <2> HIDE DEF q
  <2>3. f \in Frame
    BY <1>2, <2>2 DEF Frame, Proxies
  <2>4. /\ f.session = Top.session /\ f.own = Top.own /\ f.restores = Top.restores
        /\ f.proxies = q /\ f.route = Undecided
    BY <1>2 DEF Frame
  <2>5. QED
    BY <1>1, <1>4, <2>1, <2>3, <2>4 DEF q
<1>5. QED
  BY <1>3, <1>4

(* What the end of a call does.                                              *)
LEMMA ReturnPops ==
  ASSUME TypeOK, Return
  PROVE  /\ stack # << >> /\ UNCHANGED <<env, mapSays, wrapped, reused, calls>>
         /\ caller' = Top.restores
         /\ stack' \in Seq(Frame) /\ Len(stack') = Len(stack) - 1
         /\ \A i \in 1 .. Len(stack') : stack'[i] = stack[i] /\ i \in 1 .. Len(stack)
<1>1. /\ stack # << >> /\ UNCHANGED <<env, mapSays, wrapped, reused, calls>>
      /\ caller' = Top.restores /\ stack' = SubSeq(stack, 1, Len(stack) - 1)
  BY DEF Return, Front
<1>2. stack \in Seq(Frame) /\ Len(stack) \in Nat \ {0}
  BY <1>1, TopTyped DEF TypeOK
<1>3. /\ stack' \in Seq(Frame) /\ Len(stack') = Len(stack) - 1
      /\ \A i \in 1 .. Len(stack) - 1 : stack'[i] = stack[i]
  <2>1. \A i \in 1 .. Len(stack) - 1 : stack[i] \in Frame
    BY <1>2
  <2>2. 1 \in Int /\ Len(stack) - 1 \in Int
    BY <1>2
  <2> DEFINE n == Len(stack) - 1
             t == SubSeq(stack, 1, n)
  <2>3. /\ t \in Seq(Frame) /\ Len(t) = IF 1 <= n THEN n - 1 + 1 ELSE 0
        /\ \A i \in 1 .. n - 1 + 1 : t[i] = stack[1 + i - 1]
    BY <2>1, <2>2, SubSeqProperties
  <2>4. n \in Nat
    BY <1>2
  <2> HIDE DEF n, t
  <2>5. Len(t) = n
    BY <2>3, <2>4
  <2>6. ASSUME NEW i \in 1 .. n PROVE t[i] = stack[i]
    <3>1. i \in 1 .. n - 1 + 1 /\ 1 + i - 1 = i
      BY <2>4
    <3>2. QED
      BY <2>3, <3>1
  <2>7. stack' = t
    BY <1>1 DEF t, n
  <2>8. QED
    BY <2>3, <2>5, <2>6, <2>7 DEF n
<1>4. QED
  BY <1>1, <1>2, <1>3

(* Types at the start, and after every step. *)
LEMMA TypesInit == Init => RestoresTyped
<1> SUFFICES ASSUME Init PROVE RestoresTyped
  OBVIOUS
<1>1. reused \in Dict /\ stack = << >> /\ stack \in Seq(Frame) /\ Len(stack) = 0
  BY RoutingAssumption DEF Init
<1>2. QED
  BY <1>1, RoutingAssumption DEF Init, RestoresTyped, TypeOK

(* Every step keeps the types. *)
LEMMA TypesNext == RestoresTyped /\ [Next]_vars => RestoresTyped'
<1> SUFFICES ASSUME RestoresTyped, [Next]_vars PROVE RestoresTyped'
  OBVIOUS
<1>1. TypeOK
  BY DEF RestoresTyped
<1>2. /\ stack \in Seq(Frame) /\ Len(stack) \in Nat /\ Len(stack) <= MaxDepth
      /\ caller \in Caller \cup {NoCaller} /\ MaxDepth \in Nat /\ MaxCalls \in Nat
      /\ calls \in 0 .. MaxCalls
  BY RoutingAssumption DEF RestoresTyped, TypeOK
<1>3. ASSUME NEW s \in Session, Request(s) \/ Send(s) PROVE RestoresTyped'
  <2>1. PICK f \in Frame : stack' = Append(stack, f) /\ f.restores = caller
    BY <1>1, <1>3, CallPushes
  <2>2. /\ caller' \in Caller \cup {caller} /\ (~wrapped => caller' = caller)
        /\ Len(stack) < MaxDepth /\ calls < MaxCalls /\ calls' = calls + 1
        /\ reused' \in Dict
        /\ UNCHANGED <<env, mapSays, wrapped>>
    BY <1>1, <1>3, CallPushes
  <2>3. /\ stack' \in Seq(Frame) /\ Len(stack') = Len(stack) + 1
        /\ \A i \in 1 .. Len(stack') : stack'[i] = IF i = Len(stack) + 1 THEN f ELSE stack[i]
    BY <1>2, <2>1
  <2>4. TypeOK'
    BY <1>2, <2>2, <2>3 DEF RestoresTyped, TypeOK
  <2>5. ~wrapped' => \A i \in 1 .. Len(stack') : stack'[i].restores = NoCaller
    BY <1>2, <2>1, <2>2, <2>3 DEF RestoresTyped, TypeOK
  <2>6. stack'[1].restores = NoCaller
    BY <1>2, <2>1, <2>3 DEF RestoresTyped, TypeOK
  <2>7. QED
    BY <2>4, <2>5, <2>6 DEF RestoresTyped
<1>4. ASSUME AdapterSend \/ Redirect PROVE RestoresTyped'
  <2>1. stack # << >> /\ UNCHANGED <<env, mapSays, wrapped, reused, caller, calls>>
    BY <1>1, <1>4, TopChanges
  <2>2. PICK f \in Frame :
          stack' = [stack EXCEPT ![Len(stack)] = f] /\ f.restores = Top.restores
    BY <1>1, <1>4, TopChanges
  <2>3. Top = stack[Len(stack)]
    BY DEF Top
  <2>4. /\ stack' \in Seq(Frame) /\ Len(stack') = Len(stack)
        /\ \A i \in 1 .. Len(stack) : stack'[i].restores = stack[i].restores
    <3>1. /\ stack' \in Seq(Frame) /\ Len(stack') = Len(stack)
          /\ \A i \in 1 .. Len(stack) : stack'[i] = IF i = Len(stack) THEN f ELSE stack[i]
      <4>1. Len(stack) \in 1 .. Len(stack)
        BY <1>1, <2>1, TopTyped
      <4>2. QED
        BY <1>2, <2>2, <4>1, ExceptSeq
    <3>2. QED
      BY <3>1, <2>2, <2>3
  <2>5. TypeOK'
    BY <1>2, <2>1, <2>4 DEF RestoresTyped, TypeOK
  <2>6. Len(stack) >= 1
    BY <1>2, <2>1
  <2>7. QED
    BY <1>2, <2>1, <2>4, <2>5, <2>6 DEF RestoresTyped
<1>5. CASE Return
  <2>1. /\ stack # << >> /\ UNCHANGED <<env, mapSays, wrapped, reused, calls>>
        /\ caller' = Top.restores
        /\ stack' \in Seq(Frame) /\ Len(stack') = Len(stack) - 1
        /\ \A i \in 1 .. Len(stack') : stack'[i] = stack[i] /\ i \in 1 .. Len(stack)
    BY <1>1, <1>5, ReturnPops
  <2>2. Top = stack[Len(stack)] /\ Top.restores \in Caller \cup {NoCaller}
    BY <1>1, <2>1, TopTyped DEF Frame
  <2>3. stack' = << >> => Top.restores = NoCaller
    <3>1. ASSUME stack' = << >> PROVE Len(stack) = 1
      BY <1>2, <2>1, <3>1, EmptySeq
    <3>2. stack[1].restores = NoCaller
      BY <2>1 DEF RestoresTyped
    <3>3. QED
      BY <2>2, <3>1, <3>2
  <2>4. ~wrapped => Top.restores = NoCaller
    BY <1>2, <2>1, <2>2 DEF RestoresTyped
  <2>5. TypeOK'
    BY <1>2, <2>1, <2>2, <2>3, <2>4 DEF RestoresTyped, TypeOK
  <2>6. ~wrapped' => \A i \in 1 .. Len(stack') : stack'[i].restores = NoCaller
    BY <2>1 DEF RestoresTyped
  <2>7. stack' # << >> => stack'[1].restores = NoCaller
    BY <1>2, <2>1 DEF RestoresTyped
  <2>8. QED
    BY <2>5, <2>6, <2>7 DEF RestoresTyped
<1>6. CASE UNCHANGED vars
  BY <1>6 DEF vars, RestoresTyped, TypeOK
<1>7. QED
  BY <1>3, <1>4, <1>5, <1>6 DEF Next

(* The variables keep their types, and outside any call, or without the      *)
(* wrappers, nothing is recorded: every call puts back what it found.        *)
THEOREM RoutingTypes == Spec => []TypeOK
<1>1. RestoresTyped => TypeOK
  BY DEF RestoresTyped
<1>2. QED
  BY <1>1, TypesInit, TypesNext, PTL DEF Spec

-----------------------------------------------------------------------------
(* Who decides.                                                              *)

(* The adapter decides for the innermost call as the properties say.         *)
LEMMA RouteRight ==
  ASSUME TypeOK, CallersRecorded, stack # << >>, FromOwn(Top),
         NEW f, f.session = Top.session, f.own = Top.own, f.proxies = Top.proxies,
         f.route = Route
  PROVE  RightRoute(f)
<1> DEFINE own == Top.own
           p == Top.proxies
           s == Top.session
           x == Explicit
           sel == SelectProxy(p)
<1>1. own \in Proxies /\ p \in Proxies
  BY TopTyped
<1>2. /\ IsProxyDict(own) \/ IsProxyDict(p) => p = own
      /\ ~IsProxyDict(p) => \A k \in Keys : \/ p[k] \in {own[k], Nothing}
                                            \/ s \in Trusting /\ k = "scheme" /\ p[k] = env
  BY DEF FromOwn
<1>3. x = IF wrapped /\ ~IsProxyDict(p) THEN SelectProxy(own) ELSE Nothing
  <2>1. wrapped => caller = RecordOf(Top) /\ caller \in Caller
    <3>1. RecordOf(Top) = [trust |-> s \in Trusting, explicit |-> own]
      BY DEF RecordOf
    <3>2. (s \in Trusting) \in BOOLEAN
      OBVIOUS
    <3>3. RecordOf(Top) \in Caller
      BY <1>1, <3>1, <3>2, Recorded
    <3>4. wrapped => caller = RecordOf(Top)
      BY DEF CallersRecorded
    <3>5. QED
      BY <3>3, <3>4
  <2>2. ~wrapped => caller = NoCaller
    BY DEF CallersRecorded
  <2>3. wrapped => caller # NoCaller /\ caller.explicit = own
    BY <2>1, Recorded DEF RecordOf
  <2>4. QED
    BY <2>2, <2>3 DEF Explicit
<1>4. IgnoresMap <=> wrapped /\ ~IsProxyDict(p) /\ s \in Patched /\ s \notin Trusting
  <2>1. wrapped => caller # NoCaller /\ caller.trust = (s \in Trusting)
    <3>1. RecordOf(Top) = [trust |-> s \in Trusting, explicit |-> own]
      BY DEF RecordOf
    <3>2. (s \in Trusting) \in BOOLEAN
      OBVIOUS
    <3>3. RecordOf(Top) \in Caller
      BY <1>1, <3>1, <3>2, Recorded
    <3>4. wrapped => caller = RecordOf(Top)
      BY DEF CallersRecorded
    <3>5. RecordOf(Top).trust = (s \in Trusting)
      BY <3>1
    <3>6. QED
      BY <3>3, <3>4, <3>5, Recorded
  <2>2. wrapped => (caller.trust <=> s \in Trusting)
    BY <2>1
  <2>3. QED
    BY <2>1, <2>2 DEF IgnoresMap, IsPatched
<1>5. sel \in Value /\ x \in Value /\ SelectProxy(own) \in Value
  BY <1>1, Selects, ExplicitTyped
<1>6. sel[1] # "map" /\ x[1] # "map" /\ SelectProxy(own)[1] # "map"
  BY <1>5, Givers
<1>7. LET decides == ~Asserts(p) /\ x = Nothing /\ ~IgnoresMap
                       /\ mapSays = "opinion" /\ ~HasHostKey
      IN  /\ decides => Route = "map"
          /\ ~decides => \/ Asserts(p) /\ Route = "dict"
                         \/ x # Nothing /\ Route = x[1]
                         \/ Route = sel[1]
  BY Routes
<1>8. HasHostKey <=> ~IsProxyDict(p) /\ p["host"] # Nothing
  BY DEF HasHostKey
<1>9. Asserts(p) => IsProxyDict(p)
  BY DEF Asserts
<1>10. CallersProxy(f) = SelectProxy(WithoutEnvironment(own))
  BY DEF CallersProxy
<1>11. /\ f.session = s /\ f.own = own /\ f.proxies = p /\ f.route = Route
       /\ "host" \in Keys /\ "host" # "scheme"
  BY Selects, <1>1
<1> HIDE DEF own, p, s, x, sel
<1>12. /\ CallersProxy(f) # Nothing => SelectProxy(own) # Nothing
       /\ IsCallersOwn(own) => CallersProxy(f) = SelectProxy(own)
       /\ IsCallersOwn(own) /\ ~IsProxyDict(own) => \A k \in Keys : own[k][1] # "env"
  BY <1>1, <1>10, WithoutNone
<1>13. wrapped /\ CallersProxy(f) # Nothing => Route # "map"
  <2>1. SelectProxy(own) # Nothing => ~IsProxyDict(own) /\ ~IsProxyDict(p)
    <3>1. IsProxyDict(own) => SelectProxy(own) = Nothing
      BY <1>1, Selects
    <3>2. QED
      BY <1>2, <3>1
  <2>2. wrapped /\ SelectProxy(own) # Nothing => x # Nothing
    BY <1>3, <2>1
  <2>3. QED
    BY <1>6, <1>7, <1>12, <2>2
<1>14. ~IsProxyDict(p) /\ p["host"] # Nothing => Route # "map"
  BY <1>6, <1>7, <1>8
<1>15. ASSUME IsCallersOwn(own), mapSays = "opinion", ~Asserts(own), CallersProxy(f) = Nothing,
              s \in Trusting \/ ~IsPatched(s)
       PROVE  Route = "map"
  <2>1. ~Asserts(p)
    BY <1>2, <1>9, <1>15
  <2>2. SelectProxy(own) = Nothing
    BY <1>12, <1>15
  <2>3. x = Nothing
    BY <1>3, <2>2
  <2>4. ~IgnoresMap
    BY <1>4, <1>15 DEF IsPatched
  <2>5. ~HasHostKey
    <3>1. SUFFICES ASSUME ~IsProxyDict(p), p["host"] # Nothing PROVE FALSE
      BY <1>8
    <3>2. p["host"] = own["host"]
      BY <1>2, <1>11, <3>1
    <3>3. ~IsProxyDict(own)
      BY <1>2, <3>1
    <3>4. SelectProxy(own) # Nothing
      BY <1>1, <3>1, <3>2, <3>3, Selects
    <3>5. QED
      BY <2>2, <3>4
  <2>6. QED
    BY <1>7, <1>15, <2>1, <2>3, <2>4, <2>5
<1>16. ASSUME IsPatched(s), s \notin Trusting, ~IsProxyDict(own), IsCallersOwn(own)
       PROVE  Route \notin {"map", "env"}
  <2>1. ~IsProxyDict(p)
    BY <1>2, <1>16
  <2>2. \A k \in Keys : own[k][1] # "env" /\ own[k] \in Value
    BY <1>1, <1>12, <1>16, Kinds DEF Proxies
  <2>3. \A k \in Keys : p[k][1] # "env"
    <3>1. Nothing[1] # "env"
      BY Kinds, Givers
    <3>2. \A k \in Keys : p[k] = own[k] \/ p[k] = Nothing
      BY <1>2, <1>16, <2>1
    <3>3. QED
      BY <2>2, <3>1, <3>2
  <2>4. SelectProxy(own)[1] # "env"
    BY <1>1, <1>16, <2>2, Selects
  <2>5. sel[1] # "env"
    BY <1>1, <2>1, <2>3, Selects DEF sel
  <2>6. x # Nothing => x = SelectProxy(own)
    BY <1>3
  <2>7. IgnoresMap
    BY <1>4, <1>16, <2>1 DEF IsPatched
  <2>8. (x # Nothing /\ Route = x[1]) \/ Route = sel[1]
    BY <1>7, <1>9, <2>1, <2>7
  <2>9. QED
    BY <1>6, <2>4, <2>5, <2>6, <2>8
<1>17. QED
  BY <1>11, <1>13, <1>14, <1>15, <1>16 DEF RightRoute, MapDecides

(* A call no step touches stays right.                                       *)
LEMMA StaysRight ==
  ASSUME UNCHANGED <<env, mapSays, wrapped>>, NEW i, NEW f, stack'[i] = f
  PROVE  /\ FromOwn(f) => FromOwn(stack[i])'
         /\ RightRoute(f) => RightRoute(stack[i])'
<1>1. FromOwn(f) => FromOwn(stack[i])'
  BY DEF FromOwn
<1>2. RightRoute(f) => RightRoute(stack[i])'
  BY DEF RightRoute, MapDecides, IsPatched
<1>3. QED
  BY <1>1, <1>2

(* No call is under way at the start.                                        *)
LEMMA RoutingInit == Init => RoutingInv
<1> SUFFICES ASSUME Init PROVE RoutingInv
  OBVIOUS
<1>1. TypeOK
  BY TypesInit DEF RestoresTyped
<1>2. stack = << >> /\ Len(stack) = 0 /\ caller = NoCaller
  BY DEF Init
<1>3. QED
  BY <1>1, <1>2 DEF RoutingInv, CallersRecorded, CallsRight

(* Every step keeps the calls right and _CALLER the innermost call's.        *)
LEMMA RoutingNext ==
  ASSUME HooksOnlyRequest, RestoresTyped, RoutingInv, [Next]_vars
  PROVE  RoutingInv'
<1>1. TypeOK /\ TypeOK'
  BY TypesNext DEF RestoresTyped
<1>2. stack \in Seq(Frame) /\ Len(stack) \in Nat
  BY <1>1 DEF TypeOK
<1>3. CallersRecorded /\ CallsRight
  BY DEF RoutingInv
<1>4. ASSUME NEW s \in Session, Request(s) \/ Send(s) PROVE CallersRecorded' /\ CallsRight'
  <2>1. PICK f \in Frame :
          /\ stack' = Append(stack, f) /\ f.restores = caller /\ f.route = Undecided
          /\ FromOwn(f)
          /\ HooksOnlyRequest /\ wrapped => caller' = RecordOf(f)
    BY <1>1, <1>4, CallPushes
  <2>2. /\ (~wrapped => caller' = caller) /\ UNCHANGED <<env, mapSays, wrapped>>
    BY <1>1, <1>4, CallPushes
  <2> DEFINE n == Len(stack)
  <2>3. /\ stack' \in Seq(Frame) /\ Len(stack') = n + 1 /\ n \in Nat
        /\ \A i \in 1 .. n : stack'[i] = stack[i]
        /\ stack'[n + 1] = f
    BY <1>2, <2>1
  <2>4. stack' # << >> /\ Top' = f /\ (stack # << >> => n # 0 /\ Top = stack[n])
    BY <1>2, <2>3, EmptySeq DEF Top
  <2>5. stack = << >> => n = 0
    OBVIOUS
  <2>6. n = 0 => stack = << >>
    BY <1>2
  <2> HIDE DEF n
  <2>7. caller' = IF wrapped THEN RecordOf(f) ELSE NoCaller
    BY <1>3, <2>1, <2>2 DEF CallersRecorded
  <2>8. ASSUME NEW i \in 1 .. n + 1
        PROVE  stack'[i].restores = IF wrapped /\ i > 1 THEN RecordOf(stack'[i - 1]) ELSE NoCaller
    <3>1. CASE i = n + 1 /\ n > 0
      <4>1. stack # << >> /\ n \in 1 .. n /\ i - 1 = n /\ i > 1
        BY <2>3, <2>5, <3>1
      <4>2. stack'[i - 1] = Top
        BY <2>3, <2>4, <4>1
      <4>3. f.restores = IF wrapped THEN RecordOf(Top) ELSE NoCaller
        BY <1>3, <2>1, <4>1 DEF CallersRecorded
      <4>4. QED
        BY <2>3, <3>1, <4>1, <4>2, <4>3
    <3>2. CASE i = n + 1 /\ n = 0
      BY <1>3, <2>1, <2>3, <2>6, <3>2 DEF CallersRecorded
    <3>3. CASE i \in 1 .. n
      <4>1. i > 1 => i - 1 \in 1 .. n
        BY <2>3, <3>3
      <4>2. stack[i].restores = IF wrapped /\ i > 1 THEN RecordOf(stack[i - 1]) ELSE NoCaller
        BY <1>3, <3>3 DEF CallersRecorded, n
      <4>3. QED
        BY <2>3, <3>3, <4>1, <4>2
    <3>4. QED
      BY <2>3, <3>1, <3>2, <3>3
  <2>9. CallersRecorded'
    BY <2>2, <2>3, <2>4, <2>7, <2>8 DEF CallersRecorded
  <2>10. ASSUME NEW i \in 1 .. n + 1
         PROVE  (FromOwn(stack[i]) /\ (stack[i].route # Undecided => RightRoute(stack[i])))'
    <3>1. CASE i = n + 1
      BY <2>1, <2>2, <2>3, <3>1, StaysRight
    <3>2. CASE i \in 1 .. n
      <4>1. FromOwn(stack[i]) /\ (stack[i].route # Undecided => RightRoute(stack[i]))
        BY <1>3, <3>2 DEF CallsRight, n
      <4>2. QED
        BY <2>2, <2>3, <3>2, <4>1, StaysRight
    <3>3. QED
      BY <2>3, <3>1, <3>2
  <2>11. QED
    BY <2>3, <2>9, <2>10 DEF CallsRight
<1>5. ASSUME AdapterSend \/ Redirect PROVE CallersRecorded' /\ CallsRight'
  <2>1. stack # << >> /\ UNCHANGED <<env, mapSays, wrapped, reused, caller, calls>>
    BY <1>1, <1>5, TopChanges
  <2>2. PICK f \in Frame :
          /\ stack' = [stack EXCEPT ![Len(stack)] = f]
          /\ f.session = Top.session /\ f.own = Top.own /\ f.restores = Top.restores
          /\ \/ AdapterSend /\ f.proxies = Top.proxies /\ f.route = Route
             \/ /\ Redirect /\ f.proxies = WithEnvironment(Top.session, Top.proxies)
                /\ f.route = Undecided
    BY <1>1, <1>5, TopChanges
  <2> DEFINE n == Len(stack)
  <2>3. n \in Nat \ {0} /\ n \in 1 .. n /\ Top = stack[n]
    BY <1>1, <2>1, TopTyped
  <2>4. /\ stack' \in Seq(Frame) /\ Len(stack') = n
        /\ \A i \in 1 .. n : stack'[i] = IF i = n THEN f ELSE stack[i]
    BY <1>2, <2>2, <2>3, ExceptSeq
  <2>5. stack' # << >> /\ Top' = f
    BY <2>3, <2>4 DEF Top
  <2> HIDE DEF n
  <2>6. RecordOf(f) = RecordOf(Top) /\ \A i \in 1 .. n : RecordOf(stack'[i]) = RecordOf(stack[i])
    BY <2>2, <2>3, <2>4 DEF RecordOf
  <2>7. \A i \in 1 .. n : stack'[i].restores = stack[i].restores
    BY <2>2, <2>3, <2>4
  <2>8. CallersRecorded'
    <3>1. caller' = IF wrapped' /\ stack' # << >> THEN RecordOf(Top') ELSE NoCaller
      BY <1>3, <2>1, <2>5, <2>6 DEF CallersRecorded
    <3>2. ASSUME NEW i \in 1 .. n
          PROVE  stack'[i].restores = IF wrapped /\ i > 1 THEN RecordOf(stack'[i - 1]) ELSE NoCaller
      <4>1. i > 1 => i - 1 \in 1 .. n
        BY <2>3
      <4>2. stack[i].restores = IF wrapped /\ i > 1 THEN RecordOf(stack[i - 1]) ELSE NoCaller
        BY <1>3 DEF CallersRecorded, n
      <4>3. QED
        BY <2>6, <2>7, <4>1, <4>2
    <3>3. QED
      BY <2>1, <2>4, <3>1, <3>2 DEF CallersRecorded
  <2>9. FromOwn(Top)
    BY <1>3, <2>3 DEF CallsRight, n
  <2>10. FromOwn(f) /\ (f.route # Undecided => RightRoute(f))
    <3>1. CASE AdapterSend /\ f.proxies = Top.proxies /\ f.route = Route
      <4>1. RightRoute(f)
        BY <1>1, <1>3, <2>1, <2>2, <2>9, <3>1, RouteRight
      <4>2. FromOwn(f)
        BY <2>2, <2>9, <3>1 DEF FromOwn
      <4>3. QED
        BY <4>1, <4>2
    <3>2. CASE f.proxies = WithEnvironment(Top.session, Top.proxies) /\ f.route = Undecided
      <4> DEFINE p == Top.proxies
                 q == f.proxies
      <4>1. env \in Environment /\ p \in Proxies
        BY <1>1, <2>1, TopTyped DEF TypeOK, Environment
      <4>2. /\ IsProxyDict(p) => q = p
            /\ ~IsProxyDict(p) =>
                 \A k \in Keys : \/ q[k] = p[k]
                                 \/ /\ Top.session \in Trusting /\ k = "scheme"
                                    /\ p[k] = Nothing /\ q[k] = env
            /\ IsProxyDict(q) <=> IsProxyDict(p)
        BY <3>2, <4>1, Fills
      <4>3. /\ IsProxyDict(Top.own) \/ IsProxyDict(p) => p = Top.own
            /\ ~IsProxyDict(p) =>
                 \A k \in Keys : \/ p[k] \in {Top.own[k], Nothing}
                                 \/ Top.session \in Trusting /\ k = "scheme" /\ p[k] = env
        BY <2>9 DEF FromOwn
      <4> HIDE DEF p, q
      <4>4. IsProxyDict(Top.own) \/ IsProxyDict(q) => q = Top.own
        BY <4>2, <4>3
      <4>5. ASSUME ~IsProxyDict(q), NEW k \in Keys
            PROVE  \/ q[k] \in {Top.own[k], Nothing}
                   \/ Top.session \in Trusting /\ k = "scheme" /\ q[k] = env
        <5>1. \/ q[k] = p[k]
              \/ Top.session \in Trusting /\ k = "scheme" /\ q[k] = env
          BY <4>2, <4>5
        <5>2. \/ p[k] \in {Top.own[k], Nothing}
              \/ Top.session \in Trusting /\ k = "scheme" /\ p[k] = env
          BY <4>2, <4>3, <4>5
        <5>3. QED
          BY <5>1, <5>2
      <4>6. FromOwn(f)
        BY <2>2, <4>4, <4>5 DEF FromOwn, q
      <4>7. QED
        BY <3>2, <4>6
    <3>3. QED
      BY <2>2, <3>1, <3>2
  <2>11. ASSUME NEW i \in 1 .. n
         PROVE  (FromOwn(stack[i]) /\ (stack[i].route # Undecided => RightRoute(stack[i])))'
    <3>1. CASE i = n
      BY <2>1, <2>4, <2>10, <3>1, StaysRight
    <3>2. CASE i # n
      <4>1. FromOwn(stack[i]) /\ (stack[i].route # Undecided => RightRoute(stack[i]))
        BY <1>3 DEF CallsRight, n
      <4>2. QED
        BY <2>1, <2>4, <3>2, <4>1, StaysRight
    <3>3. QED
      BY <3>1, <3>2
  <2>12. QED
    BY <2>4, <2>8, <2>11 DEF CallsRight
<1>6. ASSUME Return PROVE CallersRecorded' /\ CallsRight'
  <2>1. /\ stack # << >> /\ UNCHANGED <<env, mapSays, wrapped, reused, calls>>
        /\ caller' = Top.restores
        /\ stack' \in Seq(Frame) /\ Len(stack') = Len(stack) - 1
        /\ \A i \in 1 .. Len(stack') : stack'[i] = stack[i] /\ i \in 1 .. Len(stack)
    BY <1>1, <1>6, ReturnPops
  <2> DEFINE n == Len(stack)
             m == Len(stack')
  <2>2. n \in Nat \ {0} /\ n \in 1 .. n /\ Top = stack[n] /\ m = n - 1 /\ m \in Nat
    BY <1>1, <2>1, TopTyped
  <2>3. (stack' = << >> <=> m = 0) /\ Top' = stack'[m]
    BY <2>1, EmptySeq DEF Top
  <2>4. \A i \in 1 .. n :
          stack[i].restores = IF wrapped /\ i > 1 THEN RecordOf(stack[i - 1]) ELSE NoCaller
    BY <1>3 DEF CallersRecorded
  <2>5. \A i \in 1 .. m : stack'[i] = stack[i] /\ i \in 1 .. n
    BY <2>1
  <2> HIDE DEF n, m
  <2>6. caller' = IF wrapped' /\ stack' # << >> THEN RecordOf(Top') ELSE NoCaller
    <3>1. CASE m = 0
      BY <2>1, <2>2, <2>3, <2>4, <3>1
    <3>2. CASE m # 0
      <4>1. m \in 1 .. m /\ n > 1 /\ n - 1 = m
        BY <2>2, <3>2
      <4>2. Top' = stack[m]
        BY <2>3, <2>5, <4>1
      <4>3. Top.restores = IF wrapped THEN RecordOf(stack[m]) ELSE NoCaller
        BY <2>2, <2>4, <4>1
      <4>4. QED
        BY <2>1, <2>3, <3>2, <4>2, <4>3
    <3>3. QED
      BY <3>1, <3>2
  <2>7. ASSUME NEW i \in 1 .. m
        PROVE  stack'[i].restores = IF wrapped /\ i > 1 THEN RecordOf(stack'[i - 1]) ELSE NoCaller
    <3>1. i > 1 => i - 1 \in 1 .. m
      BY <2>2
    <3>2. QED
      BY <2>4, <2>5, <3>1
  <2>8. CallersRecorded'
    BY <2>1, <2>6, <2>7 DEF CallersRecorded, m
  <2>9. ASSUME NEW i \in 1 .. m
        PROVE  (FromOwn(stack[i]) /\ (stack[i].route # Undecided => RightRoute(stack[i])))'
    <3>1. FromOwn(stack[i]) /\ (stack[i].route # Undecided => RightRoute(stack[i]))
      BY <1>3, <2>5 DEF CallsRight, n
    <3>2. QED
      BY <2>1, <2>5, <3>1, StaysRight
  <2>10. QED
    BY <2>8, <2>9 DEF CallsRight, m
<1>7. ASSUME UNCHANGED vars PROVE CallersRecorded' /\ CallsRight'
  <2>1. UNCHANGED <<env, mapSays, wrapped>> /\ stack' = stack /\ caller' = caller
    BY <1>7 DEF vars
  <2>2. CallersRecorded'
    BY <1>3, <2>1 DEF CallersRecorded, Top
  <2>3. ASSUME NEW i \in 1 .. Len(stack)
        PROVE  (FromOwn(stack[i]) /\ (stack[i].route # Undecided => RightRoute(stack[i])))'
    <3>1. FromOwn(stack[i]) /\ (stack[i].route # Undecided => RightRoute(stack[i]))
      BY <1>3 DEF CallsRight
    <3>2. QED
      BY <2>1, <3>1, StaysRight
  <2>4. QED
    BY <2>1, <2>2, <2>3 DEF CallsRight
<1>8. QED
  BY <1>1, <1>4, <1>5, <1>6, <1>7 DEF Next, RoutingInv

(* When hooks call request() only, _CALLER is always the innermost call's    *)
(* and every decided call was decided by who should.                         *)
THEOREM RoutingInvariant ==
  ASSUME HooksOnlyRequest
  PROVE  Spec => []RoutingInv
<1>1. Init => RestoresTyped /\ RoutingInv
  BY TypesInit, RoutingInit
<1>2. RestoresTyped /\ RoutingInv /\ [Next]_vars => RestoresTyped' /\ RoutingInv'
  BY HooksOnlyRequest, TypesNext, RoutingNext
<1>3. QED
  BY <1>1, <1>2, PTL DEF Spec

(* The map never overrules a proxy the caller or the session gave.           *)
THEOREM CallersProxyDecides ==
  ASSUME HooksOnlyRequest
  PROVE  Spec => []CallersProxyWins
<1>1. RoutingInv => CallersProxyWins
  BY DEF RoutingInv, CallsRight, RightRoute, CallersProxyWins, DecidedCalls
<1>2. QED
  BY <1>1, RoutingInvariant, PTL

(* The map is asked before the environment, in every call whose dict is the  *)
(* caller's own.                                                             *)
THEOREM MapGoesFirst ==
  ASSUME HooksOnlyRequest
  PROVE  Spec => []MapBeatsEnvironment
<1>1. RoutingInv => MapBeatsEnvironment
  BY DEF RoutingInv, CallsRight, RightRoute, MapBeatsEnvironment, DecidedCalls
<1>2. QED
  BY <1>1, RoutingInvariant, PTL

(* A patched session that does not trust the environment goes by its         *)
(* caller's proxies alone.                                                   *)
THEOREM UntrustingLeftAlone ==
  ASSUME HooksOnlyRequest
  PROVE  Spec => []UntrustingIgnoresMap
<1>1. RoutingInv => UntrustingIgnoresMap
  BY DEF RoutingInv, CallsRight, RightRoute, UntrustingIgnoresMap, DecidedCalls
<1>2. QED
  BY <1>1, RoutingInvariant, PTL
=============================================================================
