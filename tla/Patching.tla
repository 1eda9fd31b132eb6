------------------------------ MODULE Patching ------------------------------
(***************************************************************************)
(* proxylib.patching: the stack of patches, the registry of client         *)
(* integrations, the importpatch hooks that install them, and the clients  *)
(* a program makes.  A thread runs one call at a time; _lock covers the    *)
(* stack, one install, and one change of the registry, and a call takes it *)
(* several times.  patch() and register_patcher() with arguments they      *)
(* refuse change nothing and are left out, as is undo() of a patch that is *)
(* not the newest (RuntimeError) or has ended.                             *)
(***************************************************************************)
EXTENDS Integers, Sequences, FiniteSets, SequencesExt

CONSTANTS
    Thread, Target,
    BuiltIn,         \* targets registered when proxylib is imported
    Unnamed,         \* those registered with unnamed=True
    Deciders,        \* clients whose proxies are settled when they are made (httpx)
    Broken,          \* targets whose install raises
    Unimportable,    \* clients that are there and whose import raises
    Settings,        \* what PROXYLIB_IMPORTPATCH and _AUTOPROXY may say, see Setting
    ImportsOverlap,  \* whether an import may run while another thread patches
    MayUninstall,    \* whether _uninstall() may be called
    MaxPatches, MaxVersion, MaxClients   \* bounds

Setting == [off : BOOLEAN, unset : BOOLEAN, named : SUBSET Target, auto : SUBSET Target]

ASSUME PatchingAssumption ==
    /\ Target # {}
    /\ BuiltIn \cup Unnamed \cup Deciders \cup Broken \cup Unimportable \subseteq Target
    /\ Settings \subseteq Setting /\ {ImportsOverlap, MayUninstall} \subseteq BOOLEAN
    /\ {MaxPatches, MaxVersion, MaxClients} \subseteq Nat /\ MaxVersion > 0

VARIABLES
    setting,    \* the two environment variables
    registry,   \* [Target -> version registered, 0 for none]
    hooked,     \* _hooked
    hooks,      \* external: modules with proxylib's importpatch hook
    imported,   \* external: [Target -> how far its client's import is]
    installed,  \* _installed
    wraps,      \* the client itself: how often each version's install changed it
    frames,     \* _frames
    pc,         \* [Thread -> what it runs]
    todo,       \* [Thread -> the names its loop has left]
    at,         \* [Thread -> the name in hand, and the step after it]
    mine,       \* [Thread -> the patch it is making]
    outcome,    \* history: how each patch() call ended
    clients,    \* the client objects made: a sequence
    uninstalled \* history: _uninstall() has been called

vars == <<setting, registry, hooked, hooks, imported, installed, wraps, frames,
          pc, todo, at, mine, outcome, clients, uninstalled>>

environment == <<setting, registry, hooked, hooks, imported>>
history == <<outcome, clients, uninstalled>>

Patches == 1 .. MaxPatches
Versions == 1 .. MaxVersion
Untouched == [v \in Versions |-> 0]
(* Who decides where a request goes: a patch by its number, or one of these. *)
NoOpinion == 0
AutoProxy == -1
OwnChoice == -2
Nobody == -3
Opinions == Patches \cup {NoOpinion, AutoProxy}
Nowhere == [name |-> CHOOSE n \in Target : TRUE, next |-> "idle"]
PCs == {"idle", "import", "list", "mark", "ready", "execute", "loaded", "hook", "add",
        "wanted", "install"}
Frame == [id : Patches, all : BOOLEAN, names : SUBSET Target,
          before : [Target -> Opinions]]   \* before: history, what was active
Client == [target : Target, via : {"own", "adapter", "transport"},
           promised : BOOLEAN, marked : BOOLEAN]   \* history, see Promised and Marked

TypeOK ==
    /\ setting \in Setting /\ registry \in [Target -> 0 .. MaxVersion]
    /\ hooked \subseteq Target /\ hooks \subseteq Target /\ installed \subseteq Target
    /\ imported \in [Target -> {"no", "initializing", "done"}]
    /\ wraps \in [Target -> [Versions -> Nat]]
    /\ frames \in Seq(Frame)
    /\ pc \in [Thread -> PCs] /\ todo \in [Thread -> SUBSET Target]
    /\ at \in [Thread -> [name : Target, next : PCs]]
    /\ mine \in [Thread -> 0 .. MaxPatches]
    /\ \A t \in Thread : pc[t] = "idle" => mine[t] = 0 /\ todo[t] = {}
    /\ outcome \in Seq({"running", "returned", "raised"}) /\ Len(outcome) <= MaxPatches
    /\ clients \in Seq(Client) /\ Len(clients) <= MaxClients /\ uninstalled \in BOOLEAN

Init ==
    /\ setting \in Settings
    /\ registry = [n \in Target |-> IF n \in BuiltIn THEN 1 ELSE 0]
    /\ hooked = BuiltIn /\ hooks = BuiltIn
    /\ imported = [n \in Target |-> "no"]
    /\ installed = {} /\ wraps = [n \in Target |-> Untouched] /\ frames = << >>
    /\ pc = [t \in Thread |-> "idle"] /\ todo = [t \in Thread |-> {}]
    /\ at = [t \in Thread |-> Nowhere] /\ mine = [t \in Thread |-> 0]
    /\ outcome = << >> /\ clients = << >> /\ uninstalled = FALSE

-----------------------------------------------------------------------------
Registered == {n \in Target : registry[n] > 0}

Covers(frame, n) == frame.all \/ n \in frame.names

Default(n) == IF n \in setting.auto THEN AutoProxy ELSE NoOpinion

Active(n) ==
    LET covering == {i \in 1 .. Len(frames) : Covers(frames[i], n)}
    IN  IF covering = {} THEN Default(n)
        ELSE frames[CHOOSE i \in covering : \A j \in covering : j <= i].id

SettingWants(n) ==
    /\ ~setting.off
    /\ \/ n \in setting.auto
       \/ IF setting.unset THEN n \in Unnamed ELSE n \in setting.named

Wanted(n) == (\E i \in 1 .. Len(frames) : Covers(frames[i], n)) \/ SettingWants(n)

(* The thread goes on to "wanted" with name n, and from there to next. *)
Offer(t, n, next) ==
    /\ pc' = [pc EXCEPT ![t] = "wanted"]
    /\ at' = [at EXCEPT ![t] = [name |-> n, next |-> next]]

Goto(t, place) == pc' = [pc EXCEPT ![t] = place]

GoOn(t) ==
    /\ Goto(t, at[t].next)
    /\ at' = IF at[t].next = "loaded" THEN at ELSE [at EXCEPT ![t] = Nowhere]

(* _wanted lets _lock go before _install takes it again *)
CheckWanted(t) ==
    /\ pc[t] = "wanted"
    /\ IF Wanted(at[t].name) THEN Goto(t, "install") /\ UNCHANGED at ELSE GoOn(t)
    /\ UNCHANGED <<environment, installed, wraps, frames, todo, mine, history>>

(* Mutant: nothing remembers what is installed. *)
InstallAgain(t) ==
    LET n == at[t].name
    IN  /\ pc[t] = "install"
        /\ IF n \in Registered \ Broken
             THEN wraps' = [wraps EXCEPT ![n][registry[n]] = @ + 1]
                  /\ installed' = installed \cup {n}
             ELSE UNCHANGED <<wraps, installed>>
        /\ GoOn(t)
        /\ UNCHANGED <<environment, frames, todo, mine, history>>

Install(t) ==
    LET n == at[t].name
    IN  /\ pc[t] = "install"
        /\ IF n \in Registered \ (installed \cup Broken)
             THEN wraps' = [wraps EXCEPT ![n][registry[n]] = @ + 1]
                  /\ installed' = installed \cup {n}
             ELSE UNCHANGED <<wraps, installed>>
        /\ GoOn(t)
        /\ UNCHANGED <<environment, frames, todo, mine, history>>

-----------------------------------------------------------------------------
(* Importing a client: the program's own import, or the one in patch().  The *)
(* hook runs at the end of the module's execution, before its import ends.   *)
Importing == {t \in Thread : pc[t] \in {"execute", "loaded"} \/ at[t].next = "loaded"}
Patching == {t \in Thread : mine[t] # 0}

Import(t) ==
    /\ pc[t] = "idle" /\ (ImportsOverlap \/ Patching = {})
    /\ \E n \in Target \ Unimportable :
        /\ imported[n] = "no"
        /\ imported' = [imported EXCEPT ![n] = "initializing"]
        /\ at' = [at EXCEPT ![t] = [name |-> n, next |-> "loaded"]]
    /\ Goto(t, "execute")
    /\ UNCHANGED <<setting, registry, hooked, hooks, installed, wraps, frames, todo, mine, history>>

(* patch() imports a client it was told to cover, or finds it imported *)
ImportNamed(t) ==
    /\ pc[t] = "import"
    /\ \E n \in todo[t] \ Unimportable :
        /\ imported[n] # "initializing"
        /\ todo' = [todo EXCEPT ![t] = @ \ {n}]
        /\ IF imported[n] = "no"
             THEN /\ ImportsOverlap \/ Patching = {t}
                  /\ imported' = [imported EXCEPT ![n] = "initializing"]
                  /\ at' = [at EXCEPT ![t] = [name |-> n, next |-> "loaded"]]
                  /\ Goto(t, "execute")
             ELSE /\ at' = [at EXCEPT ![t] = [name |-> n, next |-> "import"]]
                  /\ Goto(t, "hook") /\ UNCHANGED imported
    /\ UNCHANGED <<setting, registry, hooked, hooks, installed, wraps, frames, mine, history>>

Executed(t) ==
    /\ pc[t] = "execute"
    /\ Goto(t, IF at[t].name \in hooks THEN "wanted" ELSE "loaded")
    /\ UNCHANGED <<environment, installed, wraps, frames, todo, at, mine, history>>

(* Mutant: patch() ends with the first client it imports. *)
LoadedAlone(t) ==
    /\ pc[t] = "loaded"
    /\ imported' = [imported EXCEPT ![at[t].name] = "done"]
    /\ at' = [at EXCEPT ![t] = Nowhere]
    /\ Goto(t, "idle")
    /\ UNCHANGED <<setting, registry, hooked, hooks, installed, wraps, frames, todo, mine, history>>

Loaded(t) ==
    /\ pc[t] = "loaded"
    /\ imported' = [imported EXCEPT ![at[t].name] = "done"]
    /\ IF mine[t] # 0
         THEN at' = [at EXCEPT ![t].next = "import"] /\ Goto(t, "hook")
         ELSE at' = [at EXCEPT ![t] = Nowhere] /\ Goto(t, "idle")
    /\ UNCHANGED <<setting, registry, hooked, hooks, installed, wraps, frames, todo, mine, history>>

-----------------------------------------------------------------------------
(* _hook, called by patch() for each client and by register_patcher().  The  *)
(* mark is made under _lock; importpatch.add comes after it, and so a call   *)
(* that finds the mark returns while another has yet to add the hook.        *)
Mark(t, n, next) ==
    /\ hooked' = hooked \cup {n}
    /\ IF n \in hooked
         THEN Goto(t, next) /\ at' = [at EXCEPT ![t] = Nowhere]
         ELSE Goto(t, "add") /\ at' = [at EXCEPT ![t] = [name |-> n, next |-> next]]

Hook(t) ==
    /\ pc[t] = "hook"
    /\ Mark(t, at[t].name, at[t].next)
    /\ UNCHANGED <<setting, registry, hooks, imported, installed, wraps, frames, todo, mine, history>>

(* importpatch.add runs the hook at once for a module in sys.modules *)
Add(t) ==
    /\ pc[t] = "add"
    /\ hooks' = hooks \cup {at[t].name}
    /\ IF imported[at[t].name] # "no" THEN Goto(t, "wanted") /\ UNCHANGED at ELSE GoOn(t)
    /\ UNCHANGED <<setting, registry, hooked, imported, installed, wraps, frames, todo, mine, history>>

-----------------------------------------------------------------------------
(* patch(): the frame is pushed first; then each named client is imported    *)
(* and hooked, or each registered one hooked.                                *)
BeginPatch(t) ==
    /\ pc[t] = "idle" /\ Len(outcome) < MaxPatches /\ (ImportsOverlap \/ Importing = {})
    /\ \E all \in BOOLEAN, names \in SUBSET Registered :
        /\ all => names = {}
        /\ frames' = Append(frames, [id |-> Len(outcome) + 1, all |-> all, names |-> names,
                                     before |-> [n \in Target |-> Active(n)]])
        /\ todo' = [todo EXCEPT ![t] = names]
        /\ Goto(t, IF all THEN "list" ELSE "import")
    /\ mine' = [mine EXCEPT ![t] = Len(outcome) + 1]
    /\ outcome' = Append(outcome, "running")
    /\ UNCHANGED <<environment, installed, wraps, at, clients, uninstalled>>

(* the names as they are once the lock is let go *)
ListTargets(t) ==
    /\ pc[t] = "list"
    /\ todo' = [todo EXCEPT ![t] = Registered]
    /\ Goto(t, "mark")
    /\ UNCHANGED <<environment, installed, wraps, frames, at, mine, history>>

HookEach(t) ==
    /\ pc[t] = "mark"
    /\ \E n \in todo[t] :
        /\ todo' = [todo EXCEPT ![t] = @ \ {n}]
        /\ Mark(t, n, "mark")
    /\ UNCHANGED <<setting, registry, hooks, imported, installed, wraps, frames, mine, history>>

EndPatch(t, how) ==
    /\ outcome' = [outcome EXCEPT ![mine[t]] = how]
    /\ mine' = [mine EXCEPT ![t] = 0]
    /\ todo' = [todo EXCEPT ![t] = {}]
    /\ Goto(t, "idle")
    /\ UNCHANGED <<environment, installed, wraps, frames, at, clients, uninstalled>>

ImportRaises(t) ==
    /\ pc[t] = "import" /\ todo[t] \cap Unimportable # {}
    /\ EndPatch(t, "raised")

InstallReady(t) ==
    /\ pc[t] \in {"import", "mark"} /\ todo[t] = {}
    /\ todo' = [todo EXCEPT ![t] = Registered]
    /\ Goto(t, "ready")
    /\ UNCHANGED <<environment, installed, wraps, frames, at, mine, history>>

(* Mutant: the clients imported before the patch are not looked at again. *)
InstallReadyNone(t) ==
    /\ pc[t] = "ready"
    /\ \E n \in todo[t] :
        /\ todo' = [todo EXCEPT ![t] = @ \ {n}]
        /\ UNCHANGED <<pc, at>>
    /\ UNCHANGED <<environment, installed, wraps, frames, mine, history>>

(* a client whose import has not ended is left to its hook *)
InstallReadyOne(t) ==
    /\ pc[t] = "ready"
    /\ \E n \in todo[t] :
        /\ todo' = [todo EXCEPT ![t] = @ \ {n}]
        /\ IF imported[n] = "done" THEN Offer(t, n, "ready") ELSE UNCHANGED <<pc, at>>
    /\ UNCHANGED <<environment, installed, wraps, frames, mine, history>>

PatchReturns(t) ==
    /\ pc[t] = "ready" /\ todo[t] = {}
    /\ EndPatch(t, "returned")

Keep(some) ==
    /\ frames' = some
    /\ UNCHANGED <<environment, installed, wraps, pc, todo, at, mine, history>>

(* Mutant: a patch is undone whatever came after it. *)
UndoAny ==
    \E i \in 1 .. Len(frames) :
        outcome[frames[i].id] = "returned" /\ Keep(RemoveAt(frames, i))

(* Patch.undo, on any thread that has the handle *)
Undo ==
    /\ frames # << >>
    /\ outcome[Last(frames).id] = "returned" /\ Keep(Front(frames))

Unpatch == frames # << >> /\ Keep(<< >>)

-----------------------------------------------------------------------------
Register(t) ==
    /\ pc[t] = "idle"
    /\ \E n \in Target :
        /\ registry[n] < MaxVersion
        /\ registry' = [registry EXCEPT ![n] = @ + 1]
        /\ hooked' = hooked \ {n}
        /\ at' = [at EXCEPT ![t] = [name |-> n, next |-> "idle"]]
    /\ Goto(t, "hook")
    /\ UNCHANGED <<setting, hooks, imported, installed, wraps, frames, todo, mine, history>>

(* _uninstall calls the uninstall now in the registry *)
Uninstall ==
    /\ MayUninstall /\ (installed # {} \/ frames # << >>)
    /\ wraps' = [n \in Target |->
                   IF n \in installed THEN [wraps[n] EXCEPT ![registry[n]] = 0]
                   ELSE wraps[n]]
    /\ installed' = {} /\ frames' = << >> /\ uninstalled' = TRUE
    /\ UNCHANGED <<environment, pc, todo, at, mine, outcome, clients>>

-----------------------------------------------------------------------------
(* A program makes a client object.  promised: the integration is to reach it, *)
(* since a patch() that returned covers it or a setting installs it, nobody is *)
(* in a call that registers it, and, when the object settles its proxies as it *)
(* is made, there is an opinion.  marked: a patch() that has put its target in *)
(* _hooked has not installed it yet.                                           *)
Registering(n) == \E t \in Thread : at[t] = [name |-> n, next |-> "idle"] /\ pc[t] # "idle"

Marked(n) ==
    \E t \in Thread : /\ at[t].name = n /\ at[t].next \in {"import", "mark"}
                     /\ pc[t] \in {"add", "wanted", "install"}

Promised(n) ==
    /\ n \in Registered \ Broken /\ ~Registering(n)
    /\ \/ \E i \in 1 .. Len(frames) :
            Covers(frames[i], n) /\ outcome[frames[i].id] = "returned"
       \/ SettingWants(n) /\ ~uninstalled
    /\ n \in Deciders => Active(n) # NoOpinion

Via(n) ==
    IF wraps[n] = Untouched THEN "own"
    ELSE IF n \notin Deciders THEN "adapter"
    ELSE IF Active(n) = NoOpinion THEN "own" ELSE "transport"

MakeClient ==
    /\ Len(clients) < MaxClients
    /\ \E n \in Target :
        /\ imported[n] = "done"
        /\ clients' = Append(clients, [target |-> n, via |-> Via(n),
                                       promised |-> Promised(n), marked |-> Marked(n)])
    /\ UNCHANGED <<environment, installed, wraps, frames, pc, todo, at, mine, outcome, uninstalled>>

(* Who chooses the proxy of the next request through a client: its own rules, *)
(* the active map, or nobody, so that it goes DIRECT.                         *)
Route(c) ==
    IF c.via = "own" THEN OwnChoice
    ELSE IF Active(c.target) # NoOpinion THEN Active(c.target)
    ELSE IF c.via = "adapter" THEN OwnChoice ELSE Nobody

Step(t) ==
    \/ CheckWanted(t) \/ Install(t) \/ Import(t) \/ ImportNamed(t) \/ Executed(t)
    \/ Loaded(t) \/ Hook(t) \/ Add(t) \/ BeginPatch(t) \/ ListTargets(t) \/ HookEach(t)
    \/ ImportRaises(t) \/ InstallReady(t) \/ InstallReadyOne(t) \/ PatchReturns(t) \/ Register(t)

Next == (\E t \in Thread : Step(t)) \/ Undo \/ Unpatch \/ Uninstall \/ MakeClient

Spec == Init /\ [][Next]_vars

-----------------------------------------------------------------------------
(* A client's integration is installed at most once at a time, by however    *)
(* many threads, hooks and patches at once, and _installed says whether it   *)
(* is (patching.py:189-202).                                                 *)
InstalledOnce ==
    \A n \in Target :
        IF n \in installed THEN \E v \in Versions : wraps[n] = [Untouched EXCEPT ![v] = 1]
        ELSE wraps[n] = Untouched

(* Undoing a patch makes active again, for every client, the map that was    *)
(* active when the patch began, whatever other threads patched and undid     *)
(* meanwhile (patching.py:249-250, 267-276).                                 *)
UndoRestores ==
    [][ \A i \in 1 .. Len(frames) :
          frames' = RemoveAt(frames, i) =>
             \A n \in Target : Active(n)' = frames[i].before[n] ]_vars

(* A client made while a patch() that returned covers it, or while the       *)
(* settings have it installed, goes through the newest map with an opinion   *)
(* for as long as it lives, through every later patch and undo, wherever its *)
(* import, the patch and the registration ran (patching.py:9-11, 285-288);   *)
(* but for one made while a patch() has marked its target and not installed  *)
(* it.                                                                       *)
Follows(c) == Active(c.target) # NoOpinion => Route(c) = Active(c.target)

CoveredClientsFollow ==
    \A i \in 1 .. Len(clients) : clients[i].promised /\ ~clients[i].marked => Follows(clients[i])

(* With no such exception: an "install(proxymap) is called once [...] module *)
(* has been imported and the target is wanted" (patching.py:328-330).        *)
InstalledWhenRegistered ==
    \A i \in 1 .. Len(clients) : clients[i].promised => Follows(clients[i])

(* A patch() that raised is not in effect: its caller has no handle to undo  *)
(* it with (patching.py:286-288).                                            *)
FailedPatchIsOver ==
    \A i \in 1 .. Len(frames) : outcome[frames[i].id] # "raised"

(* With no patch and no default, a client chooses its proxy as it always     *)
(* does (patching.py:17-18).                                                 *)
ClientsChooseThemselves ==
    \A i \in 1 .. Len(clients) :
        Active(clients[i].target) = NoOpinion => Route(clients[i]) = OwnChoice

(* An install registered in another's place is called once the client is     *)
(* imported and wanted (patching.py:328-334).                                *)
Settled == \A t \in Thread : pc[t] = "idle"
RegisteredIsInstalled ==
    Settled => \A n \in Registered \ Broken :
        (imported[n] = "done" /\ SettingWants(n) /\ ~uninstalled)
            => wraps[n][registry[n]] > 0

(* _uninstall removes every installed integration (patching.py:352).         *)
UninstallRemovesAll == [][ uninstalled' # uninstalled => \A n \in Target : wraps'[n] = Untouched ]_vars
=============================================================================
