---------------------------- MODULE PluginRuntime ----------------------------
(***************************************************************************)
(* The plugin runtime: activation of all plugins at boot, the hot reload   *)
(* of single plugins (PluginRuntime.reload_plugin, called under the        *)
(* coordinator's lock of that plugin), and shutdown; with the lifecycle    *)
(* hooks, the resource scopes and the subscriptions on the message bus.    *)
(*                                                                         *)
(* A plugin object is named by its plugin and its generation.  An action   *)
(* is the code between two awaits: hooks, the creation of the plugin's     *)
(* storage and the wait for its tasks are where the others run.            *)
(***************************************************************************)
EXTENDS Integers, LoadOrder

CONSTANTS
  Plugins,    \* plugin ids
  Sorted,     \* the same, in alphabetical order
  Versions,
  Handlers,   \* Handlers[p][v]: names under which version v of p subscribes
  Tasked,     \* plugins with background tasks
  Graphs,     \* dependency graphs a boot may find in the manifests
  MaxGen,     \* bound: generations
  MaxEvents,  \* bound: events dispatched
  NULL

\* The versions of a plugin there are packages of.
Packages(p) == DOMAIN Handlers[p]

ASSUME OrderAssumption == Sorted \in Seq(Plugins) /\ Loaded(Sorted) = Plugins /\ Distinct(Sorted)
ASSUME BoundAssumption == MaxGen \in Nat \ {0} /\ MaxEvents \in Nat
ASSUME PackagesAssumption == \A p \in Plugins : Packages(p) \subseteq Versions
ASSUME NullAssumption == NULL \notin Versions

VARIABLES
  phase,       \* "boot", "up", "down"
  needs,       \* dependencies the manifests declare; only a boot looks at them
  todo,        \* candidates activate() has yet to activate
  generation,  \* PluginRuntime._generation
  object,      \* the LoadedPlugin of plugin p, generation g
  plugins,     \* PluginRuntime._plugins: managed generation, 0 if none
  published,   \* Registry.current: generation indexed, 0 if none
  subs,        \* MessageBus._subscriptions: handler name and object
  pc,          \* where the operation on p is
  op,          \* its locals: new and old object, snapshot at its start
  flight,      \* MessageBus.dispatch: what is left of its copy of the subscriptions
  events

work == <<pc, op>>
bus == <<flight, events>>
vars == <<phase, needs, todo, generation, object, plugins, published, subs, work, bus>>

Gens == 1..MaxGen
Names == UNION UNION {{Handlers[p][v] : v \in Packages(p)} : p \in Plugins}
Owner == Plugins \X Gens
Snapshots == [Plugins -> Gens \cup {0}]

\* degraded is left out: nothing calls record_handler_error.
States == {"validated", "loaded", "starting", "active", "failed", "stopped"}

Object == [version: Versions \cup {NULL}, state: States,
           scope: {"none", "open", "closing", "closed"},
           tasks: {"none", "running", "cancelled"}]

\* No such object yet.
Absent == [version |-> NULL, state |-> "validated", scope |-> "none", tasks |-> "none"]

None == [p \in Plugins |-> 0]
NoNeeds == [p \in Plugins |-> {}]
TypeOK ==
  /\ phase \in {"boot", "up", "down"}
  /\ needs \in Graphs \cup {NoNeeds}
  /\ Loaded(todo) \subseteq Plugins
  /\ generation \in 0..MaxGen
  /\ object \in [Plugins -> [Gens -> Object]]
  /\ plugins \in Snapshots /\ published \in Snapshots
  /\ subs \subseteq Names \X Owner
  /\ pc \in [Plugins -> {"idle", "prepare", "setup", "start", "compensate", "undrain",
                         "stopfailed", "faildrain", "stopold", "drain"}]
  /\ op \in [Plugins -> [new: Gens \cup {0}, old: Gens \cup {0}, saved: Snapshots]]
  /\ flight \subseteq Names \X Owner
  /\ events \in 0..MaxEvents

Idle == [new |-> 0, old |-> 0, saved |-> None]

Init ==
  /\ phase = "boot" /\ generation = 1
  /\ needs \in Graphs
  /\ \E compatible \in SUBSET Plugins :
       todo = Resolve(Sorted, Plugins, compatible, needs)
  /\ object = [p \in Plugins |-> [g \in Gens |-> Absent]]
  /\ plugins = None /\ published = None /\ subs = {}
  /\ pc = [p \in Plugins |-> "idle"] /\ op = [p \in Plugins |-> Idle]
  /\ flight = {} /\ events = 0

-----------------------------------------------------------------------------
\* The bus.

\* Mutant: the subscription that is there is kept.
Appended(s, names, o) == s \cup (names \X {o})

\* subscribe(): one subscription per name; a subscription of that name, of
\* whatever plugin, is replaced.
Subscribed(s, names, o) == {t \in s : t[1] \notin names} \cup (names \X {o})

\* Mutant: the names of the version managed now, not those the scope subscribed.
UnsubscribedNow(s, o) ==
  LET now == plugins[o[1]]
      g == IF now = 0 THEN o[2] ELSE IF object[o[1]][now].version = NULL THEN o[2] ELSE now
  IN {t \in s : t[1] \notin Handlers[o[1]][object[o[1]][g].version]}

\* SubscriptionScope.close(): unsubscribe every name the scope subscribed, by
\* name: also what another generation or plugin subscribed since.
Unsubscribed(s, o) ==
  LET ob == object[o[1]][o[2]]
  IN {t \in s : t[1] \notin Handlers[o[1]][ob.version]}

\* An event arrives: dispatch() copies the subscriptions.
Arrive ==
  /\ phase = "up" /\ flight = {} /\ events < MaxEvents
  /\ events' = events + 1
  /\ flight' = subs
  /\ UNCHANGED <<phase, needs, todo, generation, object, plugins, published, subs, work>>

\* The next handler of the copy runs; when it consumes the event the rest is
\* not called.
Handle ==
  /\ \E s \in flight, consumes \in BOOLEAN :
       flight' = IF consumes THEN {} ELSE flight \ {s}
  /\ UNCHANGED <<phase, needs, todo, generation, object, plugins, published, subs, work, events>>

-----------------------------------------------------------------------------
\* Activation of one candidate, _activate_one.

At(p, step) == pc' = [pc EXCEPT ![p] = step]

New(p) == <<p, op[p].new>>
\* Mutant: what is stopped is looked up among the managed plugins.
OldLookedUp(p) == <<p, IF plugins[p] = 0 THEN op[p].old ELSE plugins[p]>>
Old(p) == <<p, op[p].old>>
ObjectSet(o, r) == [object EXCEPT ![o[1]][o[2]] = r]
The(o) == object[o[1]][o[2]]

Managed(p, g) == [plugins EXCEPT ![p] = g]

\* build_snapshot(): the active plugins among those managed.
Snapshot(managed, obj) ==
  [p \in Plugins |-> IF managed[p] # 0 /\ obj[p][managed[p]].state = "active"
                     THEN managed[p] ELSE 0]

\* The object is created, its entrypoint imported, its scope opened; storage
\* is created next.
Create(p, v, old, gen) ==
  /\ object' = ObjectSet(<<p, gen>>,
       [version |-> v, state |-> "loaded", scope |-> "open", tasks |-> "none"])
  /\ op' = [op EXCEPT ![p] = [new |-> gen, old |-> old, saved |-> published]]
  /\ At(p, "prepare")

\* activate(): the candidates one after the other.
BootNext ==
  /\ phase = "boot" /\ todo # <<>>
  /\ \A q \in Plugins : pc[q] = "idle"
  /\ \E v \in Packages(Head(todo)) : Create(Head(todo), v, 0, generation)
  /\ todo' = Tail(todo)
  /\ UNCHANGED <<phase, needs, generation, plugins, published, subs, bus>>

\* The import fails at boot: no scope, nothing to undo.
BootImportFails ==
  /\ phase = "boot" /\ todo # <<>>
  /\ \A q \in Plugins : pc[q] = "idle"
  /\ object' = ObjectSet(<<Head(todo), generation>>, [Absent EXCEPT !.state = "failed"])
  /\ plugins' = Managed(Head(todo), generation)
  /\ todo' = Tail(todo)
  /\ UNCHANGED <<phase, needs, generation, published, subs, work, bus>>

\* All were tried: the snapshot is published (there is no older one to drain).
BootPublish ==
  /\ phase = "boot" /\ todo = <<>>
  /\ \A q \in Plugins : pc[q] = "idle"
  /\ phase' = "up"
  /\ published' = Snapshot(plugins, object)
  /\ needs' = NoNeeds
  /\ UNCHANGED <<todo, generation, object, plugins, subs, work, bus>>

\* _register_on_bus(): a subscription for each of its handlers.
OnBus(p) == Subscribed(subs, Handlers[p][The(New(p)).version], New(p))

\* _prepare_plugin() ends with the subscriptions, before any hook has run.
Register(p) ==
  /\ pc[p] = "prepare"
  /\ subs' = OnBus(p)
  /\ object' = ObjectSet(New(p), [The(New(p)) EXCEPT !.state = "starting"])
  /\ At(p, "setup")
  /\ UNCHANGED <<phase, needs, todo, generation, plugins, published, op, bus>>

\* _prepare_plugin() fails.  At boot the object stays as it is, its scope open.
PrepareFails(p) ==
  /\ pc[p] = "prepare"
  /\ object' = ObjectSet(New(p), [The(New(p)) EXCEPT !.state = "failed"])
  /\ plugins' = Managed(p, op[p].new)
  /\ IF phase = "boot" THEN /\ At(p, "idle")
                            /\ op' = [op EXCEPT ![p] = Idle]
     ELSE At(p, "stopfailed") /\ UNCHANGED op
  /\ UNCHANGED <<phase, needs, todo, generation, published, subs, bus>>

SetupDone(p) ==
  /\ pc[p] = "setup" /\ At(p, "start")
  /\ UNCHANGED <<phase, needs, todo, generation, object, plugins, published, subs, op, bus>>

\* A hook raises or times out: failed, and the stop hooks compensate.
HookFails(p) ==
  /\ pc[p] \in {"setup", "start"}
  /\ object' = ObjectSet(New(p), [The(New(p)) EXCEPT !.state = "failed"])
  /\ At(p, "compensate")
  /\ UNCHANGED <<phase, needs, todo, generation, plugins, published, subs, op, bus>>

\* The start hooks are done: active.  A reload publishes, then stops the old one.
StartDone(p) ==
  /\ pc[p] = "start"
  /\ object' = ObjectSet(New(p), [The(New(p)) EXCEPT !.state = "active"])
  /\ plugins' = Managed(p, op[p].new)
  /\ published' = IF phase = "boot" THEN published ELSE Snapshot(plugins', object')
  /\ IF op[p].old # 0 THEN At(p, "stopold") /\ UNCHANGED op
     ELSE At(p, "idle") /\ op' = [op EXCEPT ![p] = Idle]
  /\ UNCHANGED <<phase, needs, todo, generation, subs, bus>>

\* ResourceScope.close() up to its await: closed, unsubscribed, tasks cancelled.
Closing(r) == [r EXCEPT !.scope = "closing",
                        !.tasks = IF @ = "running" THEN "cancelled" ELSE @]

\* The stop hooks that compensate are done; _start_plugin closes the scope.
Compensated(p) ==
  /\ pc[p] = "compensate"
  /\ object' = ObjectSet(New(p), Closing(The(New(p))))
  /\ subs' = Unsubscribed(subs, New(p))
  /\ At(p, "undrain")
  /\ UNCHANGED <<phase, needs, todo, generation, plugins, published, op, bus>>

\* The tasks have ended or the wait for them timed out.
Undrained(p) ==
  /\ pc[p] = "undrain"
  /\ object' = ObjectSet(New(p), [The(New(p)) EXCEPT !.scope = "closed"])
  /\ plugins' = Managed(p, op[p].new)
  /\ IF phase = "boot" THEN At(p, "idle") /\ op' = [op EXCEPT ![p] = Idle]
     ELSE At(p, "stopfailed") /\ UNCHANGED op
  /\ UNCHANGED <<phase, needs, todo, generation, published, subs, bus>>

-----------------------------------------------------------------------------
\* reload_plugin.

MayReload(p) == phase = "up" /\ pc[p] = "idle" /\ generation < MaxGen

\* A package is there: it is loaded next to the running generation.
Reload(p) ==
  /\ MayReload(p)
  /\ generation' = generation + 1
  /\ \E v \in Packages(p) : Create(p, v, plugins[p], generation + 1)
  /\ UNCHANGED <<phase, needs, todo, plugins, published, subs, bus>>

\* Its import fails: nothing awaits before the old object is managed again.
ReloadImportFails(p) ==
  /\ MayReload(p)
  /\ generation' = generation + 1
  /\ object' = ObjectSet(<<p, generation + 1>>, [Absent EXCEPT !.state = "stopped"])
  /\ UNCHANGED <<phase, needs, todo, plugins, published, subs, work, bus>>

\* The package is gone or disabled: unpublished, then stopped.
Remove(p) ==
  /\ MayReload(p)
  /\ generation' = generation + 1
  /\ IF plugins[p] = 0 THEN UNCHANGED <<plugins, published, work>>
     ELSE /\ plugins' = Managed(p, 0)
          /\ published' = Snapshot(plugins', object)
          /\ op' = [op EXCEPT ![p].old = plugins[p]]
          /\ At(p, "stopold")
  /\ UNCHANGED <<phase, needs, todo, object, subs, bus>>

\* The new generation failed and is stopped; the old object is managed again
\* and the snapshot taken at the start is published.
Restore(p) ==
  /\ plugins' = Managed(p, op[p].old)
  /\ published' = op[p].saved
  /\ At(p, "idle") /\ op' = [op EXCEPT ![p] = Idle]

StopFailed(p) ==
  /\ pc[p] = "stopfailed"
  /\ LET stopped == [The(New(p)) EXCEPT !.state = "stopped"]
     IN IF stopped.scope = "open"
        THEN /\ object' = ObjectSet(New(p), Closing(stopped))
             /\ subs' = Unsubscribed(subs, New(p))
             /\ At(p, "faildrain") /\ UNCHANGED <<plugins, published, op>>
        ELSE /\ object' = ObjectSet(New(p), stopped)
             /\ Restore(p) /\ UNCHANGED subs
  /\ UNCHANGED <<phase, needs, todo, generation, bus>>

FailedDrained(p) ==
  /\ pc[p] = "faildrain"
  /\ object' = ObjectSet(New(p), [The(New(p)) EXCEPT !.scope = "closed"])
  /\ Restore(p)
  /\ UNCHANGED <<phase, needs, todo, generation, subs, bus>>

\* _stop_plugin of the replaced, removed or shut down object: its stop hooks are
\* done; stopped, and its scope is closed.
StopOld(p) ==
  /\ pc[p] = "stopold"
  /\ LET stopped == [The(Old(p)) EXCEPT !.state = "stopped"]
     IN IF stopped.scope = "open"
        THEN /\ object' = ObjectSet(Old(p), Closing(stopped))
             /\ subs' = Unsubscribed(subs, Old(p))
             /\ At(p, "drain") /\ UNCHANGED op
        ELSE /\ object' = ObjectSet(Old(p), stopped)
             /\ At(p, "idle") /\ op' = [op EXCEPT ![p] = Idle] /\ UNCHANGED subs
  /\ UNCHANGED <<phase, needs, todo, generation, plugins, published, bus>>

Drained(p) ==
  /\ pc[p] = "drain"
  /\ object' = ObjectSet(Old(p), [The(Old(p)) EXCEPT !.scope = "closed"])
  /\ At(p, "idle") /\ op' = [op EXCEPT ![p] = Idle]
  /\ UNCHANGED <<phase, needs, todo, generation, plugins, published, subs, bus>>

-----------------------------------------------------------------------------
\* Background tasks and shutdown.

\* A hook or a handler starts a background task, which runs until it is
\* cancelled; a closed supervisor refuses.
StartTask(p) ==
  /\ p \in Tasked
  /\ \E g \in Gens :
       /\ object[p][g].scope = "open" /\ object[p][g].tasks = "none"
       /\ object[p][g].state \in {"starting", "active"}
       /\ object' = [object EXCEPT ![p][g].tasks = "running"]
  /\ UNCHANGED <<phase, needs, todo, generation, plugins, published, subs, work, bus>>

\* Bot._cleanup: the event loop has ended, every managed plugin is stopped in turn.
ShutDown ==
  /\ phase = "up" /\ \A q \in Plugins : pc[q] = "idle"
  /\ flight = {}
  /\ phase' = "down"
  /\ UNCHANGED <<needs, todo, generation, object, plugins, published, subs, work, bus>>

ShutDownNext(p) ==
  /\ phase = "down" /\ \A q \in Plugins : pc[q] = "idle"
  /\ plugins[p] # 0 /\ The(<<p, plugins[p]>>).state # "stopped"
  /\ op' = [op EXCEPT ![p].old = plugins[p]]
  /\ At(p, "stopold")
  /\ UNCHANGED <<phase, needs, todo, generation, object, plugins, published, subs, bus>>

\* All are stopped: an empty snapshot is published.
ShutDownDone ==
  /\ phase = "down" /\ \A q \in Plugins : pc[q] = "idle"
  /\ \A p \in Plugins : plugins[p] # 0 => The(<<p, plugins[p]>>).state = "stopped"
  /\ published' = None
  /\ UNCHANGED <<phase, needs, todo, generation, object, plugins, subs, work, bus>>

\* The steps of an operation under way: hooks and waits have time limits.
Continue(p) ==
  \/ Register(p) \/ PrepareFails(p) \/ SetupDone(p) \/ HookFails(p) \/ StartDone(p)
  \/ Compensated(p) \/ Undrained(p) \/ StopFailed(p) \/ FailedDrained(p)
  \/ StopOld(p) \/ Drained(p)

Next ==
  \/ BootNext \/ BootImportFails \/ BootPublish
  \/ \E p \in Plugins :
       \/ Continue(p) \/ Reload(p) \/ ReloadImportFails(p) \/ Remove(p)
       \/ StartTask(p) \/ ShutDownNext(p)
  \/ Arrive \/ Handle \/ ShutDown \/ ShutDownDone

Spec == Init /\ [][Next]_vars

-----------------------------------------------------------------------------
\* Properties.

\* Whatever a closed scope subscribed is off the bus, also after another
\* generation or another plugin subscribed under the same names meanwhile: no
\* event that arrives from then on reaches a closed generation.
ClosedScopeIsSilent ==
  \A s \in subs : object[s[2][1]][s[2][2]].scope = "open"

\* Once no operation on a plugin is under way, every generation of it but the
\* managed one is stopped, its scope closed and its tasks ended or cancelled,
\* whether it was replaced, removed or failed half-way: reloads leak nothing.
Settled(p) == phase = "up" /\ pc[p] = "idle"
RetiredIsStopped ==
  \A p \in Plugins, g \in Gens :
    Settled(p) /\ g # plugins[p] /\ object[p][g] # Absent =>
      /\ object[p][g].state = "stopped"
      /\ object[p][g].scope \in {"none", "closed"}
      /\ object[p][g].tasks # "running"

\* An event in flight while plugins are reloaded is handled under one name by
\* one generation only.
EventHasOneGeneration ==
  \A s, t \in flight : s[1] = t[1] => s = t

\* At boot a plugin is activated after every dependency of it that is going to
\* be activated at all.
DependenciesFirst ==
  [][\A p \in Plugins :
       phase = "boot" /\ pc[p] = "idle" /\ pc'[p] # "idle" =>
         Loaded(todo') \cap needs[p] \subseteq {p}]_vars

\* What the registry publishes is what the bus runs: every name the published
\* version handles is subscribed by the published object.
PublishedIsSubscribed ==
  \A p \in Plugins :
    Settled(p) /\ published[p] # 0 =>
      \A n \in Handlers[p][object[p][published[p]].version] :
        <<n, <<p, published[p]>>>> \in subs

=============================================================================
