----------------------------- MODULE MCCluster ------------------------------
(* The components that share no state with each other, one per behaviour: the  *)
(* executor registry, the rate limiter, the job service, the routers, the      *)
(* script engines, the templates and the observers.  The variables of the      *)
(* others are Off, and the job service, which this module extends, is at rest. *)
EXTENDS JobControl, FiniteSets, TLC

CONSTANTS
    Off,
    Addrs, Slots, TTL, MaxStarts, MaxBoots,            \* ExecutorRegistry
    Workers,
    MaxTime, MaxLimiters,                              \* RateLimit
    RouteAddrs, Hashes, MaxRoutes,                     \* Routes
    Runs, Builtin, MaxOutput, MaxChunk,                \* ScriptEngine
    Names, Values, MaxID, MaxUpdates, MaxJobs,         \* Templates
    QueueCap, MaxEvents                                \* Observer

Configs == {[rate |-> 1, burst |-> 2, window |-> 2, limit |-> 1]}

Configured == <<
    [type |-> "GO", mode |-> "file", limit |-> 2, found |-> TRUE, disabled |-> FALSE],
    [type |-> "SHELL", mode |-> "inline", limit |-> 3, found |-> TRUE, disabled |-> TRUE],
    [type |-> "RUBY", mode |-> "bad", limit |-> 3, found |-> TRUE, disabled |-> FALSE],
    [type |-> "JAVA", mode |-> "inline", limit |-> 3, found |-> FALSE, disabled |-> FALSE]>>

VARIABLES
    part,
    row, listing, probe, req, proc, starts, boot, listed, boots, dead, missed, raced,
    now, limiters, registry, check,
    strategy, hash, counter, count, lastUsed, routed, chosen, recent, whole,
    engines, read, run,
    templates, nameToID, nextID, updates, call, jobs, versions,
    kind, running, stopCh, closed, loop, queue, early, taken, stop, overtaken, panicked

registryVars == <<row, listing, probe, req, proc, starts, boot, listed, boots, dead, missed,
                  raced>>
limitVars == <<now, limiters, registry, check>>
routeVars == <<strategy, hash, counter, count, lastUsed, routed, chosen, recent, whole>>
scriptVars == <<engines, read, run>>
templateVars == <<templates, nameToID, nextID, updates, call, jobs, versions>>
observerVars == <<kind, running, stopCh, closed, loop, queue, early, taken, stop, overtaken,
                  panicked>>

Executors == INSTANCE ExecutorRegistry WITH entry <- listing
Limits == INSTANCE RateLimit
Routers == INSTANCE Routes WITH Addrs <- RouteAddrs, MaxCalls <- MaxRoutes, calls <- routed
Scripts == INSTANCE ScriptEngine WITH loaded <- read
Tpl == INSTANCE Templates
Observers == INSTANCE Observer WITH Stoppers <- Callers

\* The bounds are natural numbers, no template has the name that stands for none, TTL
\* is not zero, and a router knows finitely many addresses.
ASSUME ClusterAssumption ==
    /\ {MaxStarts, MaxBoots, MaxTime, MaxLimiters, MaxRoutes, MaxOutput, MaxChunk, MaxID,
        MaxUpdates, MaxJobs, QueueCap, MaxEvents} \subseteq Nat
    /\ TTL \in Nat \ {0}
    /\ Tpl!NoName \notin Names
    /\ IsFiniteSet(RouteAddrs) /\ Hashes \subseteq Nat

LimitsOff == now = Off /\ limiters = Off /\ registry = Off /\ check = Off
\* The job was created and deleted again, and the scheduler has started.
ControlAtRest ==
    /\ db = NoJob /\ entry = NoJob /\ flushing = NoJob /\ dirty = FALSE
    /\ pc = [c \in Callers |-> "idle"] /\ copy = [c \in Callers |-> NoJob]
    /\ calls = 2 /\ want = "none" /\ loaded = TRUE /\ overlap = FALSE
RoutersOff == /\ strategy = Off /\ hash = Off /\ counter = Off /\ count = Off /\ lastUsed = Off
              /\ routed = Off /\ chosen = Off /\ recent = Off /\ whole = Off
ScriptsOff == engines = Off /\ read = Off /\ run = Off
TplOff == /\ templates = Off /\ nameToID = Off /\ nextID = Off /\ updates = Off /\ call = Off
          /\ jobs = Off /\ versions = Off
ObserversOff == /\ kind = Off /\ running = Off /\ stopCh = Off /\ closed = Off /\ loop = Off
                /\ queue = Off /\ early = Off /\ taken = Off /\ stop = Off
                /\ overtaken = Off /\ panicked = Off

RegistryOff == /\ row = Off /\ listing = Off /\ probe = Off /\ req = Off /\ proc = Off
               /\ starts = Off /\ dead = Off /\ boot = Off /\ listed = Off /\ boots = Off
               /\ missed = Off /\ raced = Off

ClusterInit ==
    /\ part \in {"registry", "limits", "control", "routers", "scripts", "templates",
                "observers"}
    /\ IF part = "registry" THEN Executors!Init ELSE RegistryOff
    /\ IF part = "limits" THEN Limits!Init ELSE LimitsOff
    /\ IF part = "control" THEN Init ELSE ControlAtRest
    /\ IF part = "routers" THEN Routers!Init ELSE RoutersOff
    /\ IF part = "scripts" THEN Scripts!Init ELSE ScriptsOff
    /\ IF part = "templates" THEN Tpl!Init ELSE TplOff
    /\ IF part = "observers" THEN Observers!Init ELSE ObserversOff

ClusterNext ==
    /\ IF part = "registry" THEN Executors!Next ELSE UNCHANGED registryVars
    /\ IF part = "limits" THEN Limits!Next ELSE UNCHANGED limitVars
    /\ IF part = "control" THEN Next ELSE UNCHANGED vars
    /\ IF part = "routers" THEN Routers!Next ELSE UNCHANGED routeVars
    /\ IF part = "scripts" THEN Scripts!Next ELSE UNCHANGED scriptVars
    /\ IF part = "templates" THEN Tpl!Next ELSE UNCHANGED templateVars
    /\ IF part = "observers" THEN Observers!Next ELSE UNCHANGED observerVars
    /\ UNCHANGED part

ClusterSpec ==
    ClusterInit /\ [][ClusterNext]_<<part, vars, registryVars, limitVars, routeVars, scriptVars,
                                     templateVars, observerVars>>

Symmetry == Permutations(Slots) \cup Permutations(Workers)
-----------------------------------------------------------------------------
\* The types of every component.
ClusterTypeOK ==
    CASE part = "registry"  -> Executors!TypeOK
      [] part = "limits"    -> Limits!TypeOK
      [] part = "control"   -> TypeOK
      [] part = "routers"   -> Routers!TypeOK
      [] part = "scripts"   -> Scripts!TypeOK
      [] part = "templates" -> Tpl!TypeOK
      [] part = "observers" -> Observers!TypeOK

\* An executor whose calls all took effect and that has left comes back by no heartbeat,
\* probe or bootstrap (ExecutorRegistry).
LeaveIsFinal == part = "registry" => Executors!CleanLeaveIsFinal

\* Whoever beats is routed to and whoever is dead is not, whatever late probes and the two
\* sweeps do (ExecutorRegistry).
RoutesAreLive == part = "registry" => Executors!RoutesFollowBeats

\* No bucket pays out tokens it has not earned and no window more than its limit, whoever
\* checks at once and whichever limiter is replaced meanwhile (RateLimit).
LimitsHold == part = "limits" => Limits!LimitsHold

\* Round robin, LFU and LRU spread the load in every order of the lists (Routes).
LoadIsSpread == part = "routers" => Routers!LoadIsSpread

\* A nil answer of a script means exit code 0 and its output up to the limit, and no
\* temporary file stays (ScriptEngine).
ScriptResultHolds == part = "scripts" => Scripts!ScriptResultHolds

\* The registry's two maps agree, templates are valid, and a job inherits from one version
\* of its template (Templates).
TemplatesAgree == part = "templates" => Tpl!TemplatesAgree

\* When Stop has returned, every event taken before it has been recorded and no loop is left,
\* unless a Start came while it waited (Observer).
StopDrains == part = "observers" => Observers!StopDrains
=============================================================================
