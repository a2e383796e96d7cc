----------------------------- MODULE TaskStore -----------------------------
(***************************************************************************)
(* The workbench's saved tasks and their experiment recipes (web.py,       *)
(* experiments.py) and the choice of a checkpoint to restore (cli.py).     *)
(* Tasks are created, copied, edited, resized and saved; runs of them      *)
(* start, are checkpointed and end; guest images are rebuilt in between.   *)
(*                                                                         *)
(* An image is a version number; its hash tells versions apart.  A run     *)
(* carries the guest it really holds: the image unpacked into its memory   *)
(* and the machine it was booted on.                                       *)
(***************************************************************************)
EXTENDS Topology

CONSTANTS
    TaskIds,             \* task file names
    Templates,           \* topologies of the built-in templates
    Latencies,           \* link latencies a user sets
    JettyLimits,         \* max_jettys a user sets
    Imports,             \* other topologies a client submits
    Recipes,             \* experiment recipes a client submits
    DefaultRecipe,       \* DEFAULT_RECIPE
    OldCheckpoints,      \* checkpoints kept from earlier versions
    MaxRequests,         \* bound: requests that write a task
    MaxImage,            \* bound: versions of a guest image
    MaxCheckpoints,      \* bound: checkpoints taken
    RebuildWhileRunning  \* may a guest image be rebuilt during a run

\* JSON objects of the right form; what else is wrong with them, Compiles refuses.
ASSUME TopologiesAssumption ==
    /\ Templates \cup Imports \subseteq Topologies
    /\ Latencies \subseteq Nat /\ JettyLimits \subseteq Nat

\* The numbers of a recipe are integers.
ASSUME RecipesAssumption ==
    \A r \in Recipes \cup {DefaultRecipe} :
        r.jettys \subseteq Nat /\ r.total \in Nat /\ r.depth \in Nat /\ r.jfc \in Nat

NoSpec == [nodes |-> <<>>]
NoRecipe == [jettys |-> {}]
NoRun == [on |-> FALSE]
ImagePaths == {"template", "standard"}

VARIABLES
    store,        \* task files
    recipe,       \* recipe files
    image,        \* version of every guest image, 0 before it is built
    checkpoints,  \* directories under checkpoints/
    run,          \* the gem5 run, with the topology it was started from
    experiment,   \* what the experiment of this run runs
    requests      \* requests made

vars == <<store, recipe, image, checkpoints, run, experiment, requests>>

Exists(t) == store[t] # NoSpec
Request == requests < MaxRequests /\ requests' = requests + 1

----------------------------------------------------------------------------
(* Tasks *)

\* Topologies a client derives from one it was given: a link's latency (on all ports of
\* its device or on one), the Jetty limit (of every device or of one), the sync mode.
Edited(spec) ==
    {[spec EXCEPT !.links = [i \in DOMAIN @ |-> IF @[i].device = d THEN [@[i] EXCEPT !.latency = x] ELSE @[i]]] :
        d \in 1 .. MaxHosts, x \in Latencies}
    \cup {[spec EXCEPT !.links[1].latency = x] : x \in Latencies}
    \cup {[spec EXCEPT !.devices = [i \in DOMAIN @ |-> [@[i] EXCEPT !.jettys = j]]] : j \in JettyLimits}
    \cup {[spec EXCEPT !.devices[1].jettys = j] : j \in JettyLimits}
    \cup {[spec EXCEPT !.sync = s] : s \in {"off", "required"}}

Submitted(spec) ==
    Edited(spec) \cup Imports \cup {Resized(spec, k) : k \in {c \in 2 .. MaxHosts : Resizable(spec, c)}}

\* _create_task: the resized template has to compile, too.
CreateTask(t, template, count) ==
    /\ Request /\ ~Exists(t) /\ Resizable(template, count) /\ Compiles(Resized(template, count))
    /\ store' = [store EXCEPT ![t] = Resized(template, count)]
    /\ UNCHANGED <<recipe, image, checkpoints, run, experiment>>

MutAccepts(spec) == NodesCompile(spec) /\ DevicesCompile(spec)
Accepts(spec) == Compiles(spec)

\* _save_task
SaveTask(t, spec) ==
    /\ Request /\ Exists(t) /\ Accepts(spec)
    /\ store' = [store EXCEPT ![t] = spec]
    /\ UNCHANGED <<recipe, image, checkpoints, run, experiment>>

\* validate_recipe: Jetty counts within the devices' limit, work split evenly over them, and
\* completions of every Jetty's window within the JFC.
DeviceJettys(d) == IF d.jettys = UnspecifiedJettys THEN 47 ELSE d.jettys
ValidRecipe(r, spec) ==
    /\ \A j \in r.jettys :
         /\ j \in 1 .. Min({DeviceJettys(d) : d \in Elements(spec.devices)})
         /\ r.total % j = 0 /\ r.total \div j >= r.post
         /\ r.jfc >= j * Min({r.depth, r.total \div j})
    /\ r.latency => r.jettys = {1}
    /\ r.depth >= r.post
    /\ Compiles(spec) /\ Len(spec.nodes) = 2 /\ Ports(spec) = 1

\* PUT /api/tasks/ID/recipe
PutRecipe(t, r) ==
    /\ Request /\ Exists(t) /\ ValidRecipe(r, store[t])
    /\ recipe' = [recipe EXCEPT ![t] = r]
    /\ UNCHANGED <<store, image, checkpoints, run, experiment>>

\* _copy_task: the recipe of a two-host task is checked again.  When it no longer fits, the
\* request fails, but the copy's own file has been written by then.
CopyTask(t, u) ==
    /\ Request /\ Exists(t) /\ ~Exists(u) /\ Compiles(store[t])
    /\ store' = [store EXCEPT ![u] = store[t]]
    /\ recipe' = [recipe EXCEPT ![u] =
                    IF recipe[t] # NoRecipe /\ Len(store[t].nodes) = 2 /\ ValidRecipe(recipe[t], store[t])
                    THEN recipe[t] ELSE NoRecipe]
    /\ UNCHANGED <<image, checkpoints, run, experiment>>

MutReadable(t, r) == Compiles(store[t])
\* read_recipe validates what it returns against the topology as it is now.
Readable(t, r) == ValidRecipe(r, store[t])

\* What experiments.run takes from a task, the task running.
RunExperiment(t) ==
    /\ Exists(t) /\ run # NoRun /\ run.task = t /\ run.spec = store[t]
    /\ LET r == IF recipe[t] = NoRecipe THEN DefaultRecipe ELSE recipe[t]
       IN /\ Readable(t, r)
          /\ experiment' = [spec |-> store[t], recipe |-> r]
    /\ UNCHANGED <<store, recipe, image, checkpoints, run, requests>>

----------------------------------------------------------------------------
(* Checkpoints *)

\* A manifest entry of a checkpoint; entries that did not exist when it was taken have
\* their original defaults, and older manifests had one setting for all links.
Entry(c, key) ==
    CASE key = "max_jettys" -> IF c.manifest.max_jettys = None THEN 1152 ELSE c.manifest.max_jettys
      [] key = "lifecycle" -> c.manifest.lifecycle
      [] OTHER -> c.manifest[key]

LinkEntry(c, i) ==
    IF i \in DOMAIN c.manifest.node_links THEN c.manifest.node_links[i]
    ELSE [rate |-> c.manifest.peer_link_rate_gbps, latency |-> c.manifest.peer_latency_ns]

SameFormat(c, desired) ==
    \/ c.manifest.udma_state_format = desired.udma_state_format
    \/ c.manifest.udma_state_format = 3 /\ desired.udma_state_format = 4

SameLinks(c, desired) == \A i \in DOMAIN desired.node_links : LinkEntry(c, i) = desired.node_links[i]

MatchingManifest(c, desired) ==
    /\ \A key \in {"profile", "memory_size", "peer_latency_ns", "peer_link_rate_gbps",
                   "ub_port_count", "max_jettys", "lifecycle"} : Entry(c, key) = desired[key]
    /\ SameFormat(c, desired)
    /\ ~c.template => c.manifest.node_count = desired.node_count /\ SameLinks(c, desired)

MutMatchingImage(c, desired, hash) == c.hash # None => c.hash = hash
\* A checkpoint without a recorded hash is trusted, except for the modern profile.
MatchingImage(c, desired, hash) ==
    c.hash # None \/ desired.profile = "modern" => c.hash = hash

\* _select_compatible_checkpoint
Compatible(desired, hash) ==
    {c \in checkpoints : c.complete /\ MatchingManifest(c, desired) /\ MatchingImage(c, desired, hash)}
Newest(cs) == CHOOSE c \in cs : \A d \in cs : d.created <= c.created

\* A checkpoint's manifest tells what is in it: the machine, of a coordinated checkpoint also
\* the hosts and their links, and of a modern guest the image, when its hash was recorded.
Described(c) ==
    LET m == c.manifest
        g == c.guest
    IN /\ g = [image |-> g.image, profile |-> g.profile, memory |-> g.memory, ports |-> g.ports,
               jettys |-> g.jettys, lifecycle |-> g.lifecycle, hosts |-> g.hosts, links |-> g.links]
       /\ g.profile = m.profile /\ g.memory = m.memory_size /\ g.ports = m.ub_port_count
       /\ g.jettys = Entry(c, "max_jettys") /\ g.lifecycle = m.lifecycle
       /\ ~c.template => g.hosts = m.node_count /\ g.links = [i \in 1 .. m.node_count |-> LinkEntry(c, i)]
       /\ m.profile = "modern" /\ c.hash # None => g.image = c.hash

\* Checkpoints of earlier versions were written with their manifests.
ASSUME CheckpointsAssumption ==
    /\ IsFiniteSet(OldCheckpoints) /\ MaxCheckpoints \in Nat
    /\ \A c \in OldCheckpoints : Described(c) /\ c.created \in 0 .. MaxCheckpoints

\* The guest a topology describes.
GuestOf(spec, version) ==
    [image |-> version, profile |-> spec.nodes[1].setting, memory |-> Resolve(spec).memory_size,
     ports |-> Ports(spec), jettys |-> PlanJettys(spec), lifecycle |-> spec.sync = "required",
     hosts |-> Len(spec.nodes), links |-> NodeLinks(spec)]

\* start_gem5: restore the selected checkpoint or boot.  A template serves any number of
\* hosts and gives each its own links.
StartRun(t) ==
    /\ Exists(t) /\ run = NoRun /\ Sim(store[t]) = "gem5"
    /\ LET spec == store[t]
           version == image[ImagePath(spec)]
           cold == GuestOf(spec, version)
           found == IF spec.checkpoint = "auto" THEN Compatible(Resolve(spec), version) ELSE {}
           c == Newest(found)
       IN /\ version # 0
          /\ found # {} /\ c.template => spec.nodes[1].setting = "modern"
          /\ run' = [on |-> TRUE, task |-> t, spec |-> spec, version |-> version,
                     guest |-> IF found = {} THEN cold
                               ELSE IF c.template
                               THEN [c.guest EXCEPT !.hosts = cold.hosts, !.links = cold.links]
                               ELSE c.guest]
    /\ UNCHANGED <<store, recipe, image, checkpoints, experiment, requests>>

\* scripts/run/checkpoint-dual.sh: the manifest of the run, and the hash of the image file
\* as it is when the checkpoint is written.  The run ends.
Checkpoint ==
    /\ run # NoRun /\ Cardinality(checkpoints) < MaxCheckpoints
    /\ checkpoints' = checkpoints \cup
         {[manifest |-> Resolve(run.spec), template |-> FALSE, complete |-> TRUE,
           hash |-> image[ImagePath(run.spec)], created |-> Cardinality(checkpoints),
           guest |-> run.guest]}
    /\ run' = NoRun /\ experiment' = NoRun
    /\ UNCHANGED <<store, recipe, image, requests>>

StopRun ==
    /\ run # NoRun
    /\ run' = NoRun /\ experiment' = NoRun
    /\ UNCHANGED <<store, recipe, image, checkpoints, requests>>

\* A build writes a new guest image.
Rebuild(path) ==
    /\ image[path] < MaxImage
    /\ run # NoRun => RebuildWhileRunning
    /\ image' = [image EXCEPT ![path] = @ + 1]
    /\ UNCHANGED <<store, recipe, checkpoints, run, experiment, requests>>

----------------------------------------------------------------------------

Init ==
    /\ store = [t \in TaskIds |-> NoSpec]
    /\ recipe = [t \in TaskIds |-> NoRecipe]
    /\ image = [p \in ImagePaths |-> 1]
    /\ checkpoints = OldCheckpoints
    /\ run = NoRun
    /\ experiment = NoRun
    /\ requests = 0

Next ==
    \/ \E t \in TaskIds : \E spec \in Templates : \E k \in 2 .. MaxHosts : CreateTask(t, spec, k)
    \/ \E t \in TaskIds : Exists(t) /\ \E spec \in Submitted(store[t]) : SaveTask(t, spec)
    \/ \E t \in TaskIds : \E r \in Recipes : PutRecipe(t, r)
    \/ \E t, u \in TaskIds : CopyTask(t, u)
    \/ \E t \in TaskIds : RunExperiment(t) \/ StartRun(t)
    \/ Checkpoint \/ StopRun
    \/ \E p \in ImagePaths : Rebuild(p)

Spec == Init /\ [][Next]_vars

----------------------------------------------------------------------------
(* Properties *)

\* Every task file holds a topology the launcher accepts, whatever was submitted.
TasksCompile == \A t \in TaskIds : Exists(t) => Compiles(store[t])

Canonical(spec) ==
    \A i \in Hosts(spec) :
        spec.nodes[i].id = i /\ \E d \in Elements(spec.devices) : d.id = i /\ d.node = i

\* "keeping parameters on existing hosts and links": a star with generated names can be given
\* any size; hosts and links that stay keep their parameters, and new ones take the first's.
ResizeKeepsParameters ==
    \A t \in TaskIds : \A k \in 2 .. MaxHosts :
        Exists(t) /\ Resizable(store[t], k) /\ Canonical(store[t]) =>
            LET old == store[t]
                new == Resized(old, k)
            IN /\ new.switch \notin 1 .. k => Compiles(new)
               /\ \A i \in 1 .. k :
                    LET j == IF i <= Len(old.nodes) THEN i ELSE 1
                    IN /\ new.nodes[i].setting = old.nodes[j].setting
                       /\ i <= Len(old.nodes) /\ Compiles(new) => NodeLinks(new)[i] = NodeLinks(old)[i]

\* An experiment never asks for more Jettys than its devices have or for completions its JFC
\* cannot hold, although the recipe may have been saved for an earlier topology.
ExperimentFits ==
    experiment # NoRun =>
        LET r == experiment.recipe
        IN /\ Len(experiment.spec.nodes) = 2
           /\ \A j \in r.jettys :
                /\ \A d \in Elements(experiment.spec.devices) : j <= DeviceJettys(d)
                /\ j * (r.total \div j) = r.total
                /\ j * Min({r.depth, r.total \div j}) <= r.jfc

\* "Matching only the machine manifest can silently restore an older guest binary after
\* rebuilding": a run holds the guest its topology describes, with the image as it was when
\* the run was started; a profile other than modern may hold an image of unknown hash.
RunsDescribedGuest ==
    run # NoRun =>
        LET g == GuestOf(run.spec, run.version)
        IN IF g.profile = "modern" THEN run.guest = g
           ELSE [run.guest EXCEPT !.image = 0] = [g EXCEPT !.image = 0]
=============================================================================
