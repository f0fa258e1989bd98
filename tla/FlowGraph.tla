------------------------------ MODULE FlowGraph -------------------------------
(***************************************************************************)
(* A project's flow: datasets, the recipes between them, their CP-1 labels *)
(* and the builds that keep produced datasets up to date.  The writers are *)
(* the recipes router (create, patch, archive), the datasets router        *)
(* (create, patch, archive) and a build: resolve_build, then one resolve   *)
(* and one flip per step (JobExecutor has the queue and the workers).      *)
(*                                                                         *)
(* Saving a recipe is two steps: everything the request reads and decides  *)
(* on, and the writes it commits; no lock spans them.  Whether requests and*)
(* builds overlap in time is for the rules of a behaviour to say.          *)
(*                                                                         *)
(* A recipe's kind, config and config_hash are one number: the hash of the *)
(* canonical JSON tells configs apart.  A label is its rank on the ladder  *)
(* none < persoonsgegevens < bijzonder < bsn; bbn_level and confidentiality*)
(* move like it.  Events, audit and the search index are left out.         *)
(***************************************************************************)
EXTENDS RecipeGraph, FiniteSetsExt

CONSTANTS
  Datasets,
  Recipes,      (* ids, natural numbers                                    *)
  Configs,      (* recipe configs, numbers from 1                          *)
  Uploads,      (* datasets that may be created from a source              *)
  MaxVersion,   (* bound: no build starts that would pass it               *)
  Rules,        (* what may happen in a behaviour, a set of records:       *)
                (*   wirings    the <<inputs, outputs>> requests ask for   *)
                (*   given      the parts of a wiring they give            *)
                (*   topLabel   labels are 0..topLabel                     *)
                (*   overlap    may requests and builds overlap?           *)
                (*   mayRewire  may a dataset get other inputs once it is  *)
                (*              being built?                               *)
                (*   mayLower   may PATCH lower a label?                   *)
  None

ASSUME RecipesAssumption == Recipes \subseteq Nat /\ IsFiniteSet(Recipes)
ASSUME ConfigsAssumption == Configs \subseteq Nat \ {0}
ASSUME RulesAssumption ==
  \A some \in Rules :
    /\ some.topLabel \in Nat
    /\ some.given \subseteq SUBSET {"ins", "outs"} \ {{}}
    /\ some.overlap \in BOOLEAN /\ some.mayRewire \in BOOLEAN /\ some.mayLower \in BOOLEAN
    /\ some.wirings \subseteq (Seq(Datasets) \ {<<>>}) \X (Seq(Datasets) \ {<<>>})

VARIABLES
  recipe,       (* recipes.status                                          *)
  config,       (* recipes.config_hash                                     *)
  ins, outs,    (* recipe_inputs and recipe_outputs, by ordinal            *)
  dataset,      (* datasets.status                                         *)
  label,        (* datasets.classification                                 *)
  versions,     (* dataset_versions, by version                            *)
  save,         (* the recipe save in flight for each recipe id            *)
  job,          (* the build in flight                                     *)
  rules         (* the rules of this behaviour                             *)

recipeVars == <<recipe, config, ins, outs>>
datasetVars == <<dataset, label, versions>>
vars == <<recipeVars, datasetVars, save, job, rules>>

Labels == 0..rules.topLabel
current(d) == Len(versions[d])

\* load_graph: the active recipes and their rows.
ActiveRecipes == {r \in Recipes : recipe[r] = "active"}
Graph == [recipes |-> ActiveRecipes, ins |-> ins, outs |-> outs]

\* The graph while a save of recipe r is checked: its own rows are deleted.
GraphWithout(r) == [Graph EXCEPT !.recipes = @ \ {r}]

TypeOK ==
  /\ recipe \in [Recipes -> {"absent", "active", "archived"}]
  /\ config \in [Recipes -> Configs \cup {0}]
  /\ \A r \in Recipes : ins[r] \in Seq(Datasets) /\ outs[r] \in Seq(Datasets)
  /\ dataset \in [Datasets -> {"absent", "active", "archived"}]
  /\ label \in [Datasets -> Labels]
  /\ \A d \in Datasets : dataset[d] = "absent" => versions[d] = <<>>
  /\ \A r \in Recipes : save[r] # None => save[r].ins \in Seq(Datasets)
  /\ job # None => job.todo \in Seq(Recipes \X Datasets)

Init ==
  /\ recipe = [r \in Recipes |-> "absent"]
  /\ config = [r \in Recipes |-> 0]
  /\ ins = [r \in Recipes |-> <<>>]
  /\ outs = [r \in Recipes |-> <<>>]
  /\ dataset = [d \in Datasets |-> "absent"]
  /\ label = [d \in Datasets |-> 0]
  /\ versions = [d \in Datasets |-> <<>>]
  /\ save = [r \in Recipes |-> None]
  /\ job = None
  /\ rules \in Rules

\* Nothing else is in flight, where requests do not overlap.
Alone == rules.overlap \/ (job = None /\ \A r \in Recipes : save[r] = None)

(***************************************************************************)
(* Labels (propagation.py).                                                *)
(***************************************************************************)

LowestLabel(lab, D) == Min({lab[d] : d \in D})
Floor(lab, D) == Max({lab[d] : d \in D})

\* apply_classification_floor
Raised(l, floor) == IF l < floor THEN floor ELSE l

(***************************************************************************)
(* The datasets router.                                                    *)
(***************************************************************************)

SourceVersion(d) == [config |-> 0, consumed |-> <<>>, inputLabels |-> {}, content |-> <<d>>]

CreateDataset(d, l) ==
  /\ Alone
  /\ d \in Uploads
  /\ dataset[d] = "absent"
  /\ dataset' = [dataset EXCEPT ![d] = "active"]
  /\ label' = [label EXCEPT ![d] = l]
  /\ versions' = [versions EXCEPT ![d] = <<SourceVersion(d)>>]
  /\ UNCHANGED <<recipeVars, save, job>>

PatchLabel(d, l) ==
  /\ Alone
  /\ dataset[d] = "active"
  /\ l # label[d]
  /\ rules.mayLower \/ l > label[d]
  /\ label' = [label EXCEPT ![d] = l]
  /\ UNCHANGED <<recipeVars, dataset, versions, save, job>>

NeverReferenced(d) == FALSE
Referenced(d) ==
  \E r \in ActiveRecipes : d \in Ins(Graph, r) \cup Outs(Graph, r)

ArchiveDataset(d) ==
  /\ Alone
  /\ dataset[d] = "active"
  /\ ~Referenced(d)
  /\ dataset' = [dataset EXCEPT ![d] = "archived"]
  /\ UNCHANGED <<recipeVars, label, versions, save, job>>

(***************************************************************************)
(* The recipes router.                                                     *)
(***************************************************************************)

\* A recipe_outputs row of another recipe names d, archived recipes included.
ProducedElsewhere(d, r) == \E q \in Recipes \ {r} : d \in ToSet(outs[q])

RejectsCycle(r, in, out) == WouldCreateCycle(GraphWithout(r), r, in, out)

\* A create gives inputs and outputs, a PATCH one of them or both, the same ones if it
\* likes, and keeps the rows of the other.  Inputs given resolve, outputs given exist or
\* can be provisioned, and no cycle appears; the labels are those of the rows read here.
\* A save whose check fails changes nothing.
BeginSave(r, w) ==
  \E given \in rules.given :
    LET in == IF "ins" \in given THEN w[1] ELSE ins[r]
        out == IF "outs" \in given THEN w[2] ELSE outs[r]
    IN
    /\ Alone
    /\ save[r] = None
    /\ recipe[r] = "active" \/ (recipe[r] = "absent" /\ given = {"ins", "outs"})
    /\ "ins" \in given => \A d \in ToSet(in) : dataset[d] = "active"
    /\ "outs" \in given => \A d \in ToSet(out) : /\ dataset[d] # "archived"
                                                 /\ ~ProducedElsewhere(d, r)
    /\ ~RejectsCycle(r, in, out)
    /\ save' = [save EXCEPT ![r] =
                  [ins |-> in, outs |-> out, moved |-> "outs" \in given, label |-> label,
                   floor |-> IF "ins" \in given THEN Floor(label, ToSet(in)) ELSE 0,
                   new |-> {d \in ToSet(out) : dataset[d] = "absent"}]]
    /\ UNCHANGED <<recipeVars, datasetVars, job>>

\* A unique key is taken by now (recipe_outputs.dataset_id, or the name of a
\* dataset to provision): the transaction rolls back.
SaveConflicts(r) ==
  /\ save[r].moved
  /\ \/ \E d \in ToSet(save[r].outs) : ProducedElsewhere(d, r)
     \/ \E d \in save[r].new : dataset[d] # "absent"

\* No output has data yet, nor is about to get some.
Unbuilt(D) ==
  \A d \in D : /\ versions[d] = <<>>
               /\ job # None => \A n \in 1..Len(job.todo) : job.todo[n][2] # d

AbortSave(r) ==
  /\ save[r] # None /\ SaveConflicts(r)
  /\ save' = [save EXCEPT ![r] = None]
  /\ UNCHANGED <<recipeVars, datasetVars, job>>

\* The rows, provisioned datasets and raised labels become visible.
EndSave(r, c) ==
  LET s == save[r] IN
  /\ save[r] # None /\ ~SaveConflicts(r)
  /\ rules.mayRewire \/ Unbuilt(ToSet(s.outs)) \/ <<s.ins, s.outs>> = <<ins[r], outs[r]>>
  /\ recipe' = [recipe EXCEPT ![r] = IF @ = "absent" THEN "active" ELSE @]
  /\ config' = [config EXCEPT ![r] = IF recipe[r] = "absent" THEN c ELSE @]
  /\ ins' = [ins EXCEPT ![r] = s.ins]
  /\ outs' = [outs EXCEPT ![r] = IF s.moved THEN s.outs ELSE @]
  /\ dataset' = [d \in Datasets |-> IF d \in s.new THEN "active" ELSE dataset[d]]
  /\ label' = [d \in Datasets |->
                 IF d \in ToSet(s.outs) /\ s.label[d] < s.floor
                   THEN s.floor ELSE label[d]]
  /\ save' = [save EXCEPT ![r] = None]
  /\ UNCHANGED <<versions, job>>

PatchConfig(r, c) ==
  /\ Alone
  /\ recipe[r] = "active" /\ c # config[r]
  /\ config' = [config EXCEPT ![r] = c]
  /\ UNCHANGED <<recipe, ins, outs, datasetVars, save, job>>

NoOutputs(r) == <<>>

\* The output datasets become producer-less; they are not archived.
ArchiveRecipe(r) ==
  /\ Alone
  /\ recipe[r] = "active"
  /\ recipe' = [recipe EXCEPT ![r] = "archived"]
  /\ outs' = [outs EXCEPT ![r] = NoOutputs(r)]
  /\ UNCHANGED <<config, ins, datasetVars, save, job>>

(***************************************************************************)
(* Staleness (compute_staleness) and the plan of a build (resolve_build).  *)
(***************************************************************************)

Primary(r) == outs[r][1]
LatestVersion(d) == versions[d][current(d)]

IgnoresConfig(r, v) == FALSE
OtherConfig(r, v) == config[r] # v.config

\* An input that the version did not consume counts as consumed at 0.
Consumed(v, i) == IF i \in DOMAIN v.consumed THEN v.consumed[i] ELSE 0

Staleness(r, d) ==
  IF current(d) = 0 THEN "never_built"
  ELSE IF \/ OtherConfig(r, LatestVersion(d))
          \/ \E i \in ToSet(ins[r]) : /\ dataset[i] = "active"
                                      /\ current(i) > Consumed(LatestVersion(d), i)
    THEN "stale"
  ELSE "fresh"

OutputStale(r) ==
  dataset[Primary(r)] # "active" \/ Staleness(r, Primary(r)) # "fresh"

AnyProducer(r) == {}
\* The producers of r's inputs.
FeedsFrom(r) == UpstreamOf(Graph, r)

\* The steps: in topological order, every recipe that is stale, forced, or fed by one
\* that will be built.
Chosen(steps) == {s[1] : s \in ToSet(steps)}
Plan(d, force) ==
  LET order == TopoOrder(Graph, UpstreamClosure(Graph, Producers(Graph, d)))
      steps[n \in 0..Len(order)] ==
        IF n = 0 THEN <<>>
        ELSE LET r == order[n] IN
             IF force \/ OutputStale(r) \/ FeedsFrom(r) \cap Chosen(steps[n - 1]) # {}
               THEN Append(steps[n - 1], <<r, Primary(r)>>)
               ELSE steps[n - 1]
  IN  steps[Len(order)]

\* POST /builds with one target; a cyclic closure is refused, and a build of
\* nothing is recorded as succeeded at once.
RequestBuild(d, force) ==
  /\ job = None /\ Alone
  /\ dataset[d] = "active" /\ Producers(Graph, d) # {}
  /\ ~Cyclic(Graph, UpstreamClosure(Graph, Producers(Graph, d)))
  /\ Plan(d, force) # <<>>
  /\ \A e \in Datasets : current(e) < MaxVersion
  /\ job' = [target |-> d, todo |-> Plan(d, force), at |-> "next", read |-> None]
  /\ UNCHANGED <<recipeVars, datasetVars, save>>

(***************************************************************************)
(* The steps of a build (_run_step, _commit_version).                      *)
(***************************************************************************)

\* The versions and the config a step will use; an input without a version
\* fails the job.
ResolveStep ==
  /\ job # None /\ job.at = "next" /\ job.todo # <<>>
  /\ LET r == Head(job.todo)[1] IN
     IF \E i \in ToSet(ins[r]) : current(i) = 0
       THEN job' = None
       ELSE job' = [job EXCEPT !.at = "flip",
                      !.read = [config |-> config[r], ins |-> ins[r],
                                consumed |-> [i \in ToSet(ins[r]) |-> current(i)]]]
  /\ UNCHANGED <<recipeVars, datasetVars, save>>

\* The step fails, or the job is cancelled.
StopBuild ==
  /\ job # None /\ job.at = "flip"
  /\ job' = None
  /\ UNCHANGED <<recipeVars, datasetVars, save>>

ReadFloor(read) == Floor(label, ToSet(read.ins))

\* What the recipe computes from the versions it read.
Content(read) ==
  <<read.config, [n \in 1..Len(read.ins) |->
                    versions[read.ins[n]][read.consumed[read.ins[n]]].content]>>

CommitStep ==
  LET d == Head(job.todo)[2] IN
  /\ job # None /\ job.at = "flip"
  /\ versions' = [versions EXCEPT ![d] = Append(@,
       [config |-> job.read.config, consumed |-> job.read.consumed,
        inputLabels |-> {label[i] : i \in ToSet(job.read.ins)}, content |-> Content(job.read)])]
  /\ label' = [label EXCEPT ![d] = Raised(@, ReadFloor(job.read))]
  /\ job' = [job EXCEPT !.todo = Tail(@), !.at = "next", !.read = None]
  /\ UNCHANGED <<recipeVars, dataset, save>>

FinishBuild ==
  /\ job # None /\ job.at = "next" /\ job.todo = <<>>
  /\ job' = None
  /\ UNCHANGED <<recipeVars, datasetVars, save>>

Steps ==
  \/ \E d \in Datasets, l \in Labels : CreateDataset(d, l) \/ PatchLabel(d, l)
  \/ \E d \in Datasets : ArchiveDataset(d)
  \/ \E r \in Recipes, w \in rules.wirings : BeginSave(r, w)
  \/ \E r \in Recipes, c \in Configs : EndSave(r, c) \/ PatchConfig(r, c)
  \/ \E r \in Recipes : AbortSave(r) \/ ArchiveRecipe(r)
  \/ \E d \in Datasets, force \in BOOLEAN : RequestBuild(d, force)
  \/ ResolveStep \/ StopBuild \/ CommitStep \/ FinishBuild

Next == Steps /\ UNCHANGED rules

Spec == Init /\ [][Next]_vars

-----------------------------------------------------------------------------
(***************************************************************************)
(* Properties.                                                             *)
(***************************************************************************)

\* The flow stays a DAG: no build is ever refused as cyclic (recipes_service.py
\* 75-110, build_service.py 91-92).
FlowAcyclic == ~rules.overlap => ~Cyclic(Graph, ActiveRecipes)

\* The walk of the cycle check rejects exactly the wirings that Kahn's algorithm
\* could not order.
CycleCheckExact ==
  ~rules.overlap =>
    \A r \in Recipes, w \in rules.wirings :
      LET g == Overlay(GraphWithout(r), r, w[1], w[2]) IN
      RejectsCycle(r, w[1], w[2]) <=> Cyclic(g, g.recipes)

\* No active recipe reads or writes an archived dataset (datasets.py 590-609).
ActiveUsesActive ==
  ~rules.overlap =>
    \A r \in ActiveRecipes : \A d \in Ins(Graph, r) \cup Outs(Graph, r) : dataset[d] = "active"

\* The outputs of an archived recipe can be wired to a new one (recipes.py
\* 653-656).
ArchivedLetsGo == \A r \in Recipes : recipe[r] = "archived" => outs[r] = <<>>

\* When every step of a build went through, nothing upstream of its target is
\* stale or unbuilt any more.
BuildMakesFresh ==
  ~rules.overlap /\ job # None /\ job.at = "next" /\ job.todo = <<>> =>
    \A r \in UpstreamClosure(Graph, Producers(Graph, job.target)) : ~OutputStale(r)

\* Data is labelled at least as strictly as the data it was computed from, as
\* long as nobody lowers a label by hand (ADR-0007 7).
LabelsFollowLineage ==
  ~rules.overlap /\ ~rules.mayLower =>
    \A d \in Datasets : versions[d] # <<>> =>
      \A l \in LatestVersion(d).inputLabels : label[d] >= l

\* Only PATCH /datasets lowers a label (propagation.py 31-33).
OnlyPatchLowers ==
  [][\A d \in Datasets : label'[d] < label[d] => \E l \in Labels : PatchLabel(d, l)]_vars

\* No label goes below the MAX of the labels of the inputs (ADR-0007 7).
NeverBelowFloor ==
  [][\A r \in ActiveRecipes : \A d \in Outs(Graph, r) :
       label'[d] < label[d] => label'[d] >= Floor(label, Ins(Graph, r))]_vars

\* What d would contain if everything upstream were rebuilt now.
Ideal(d) ==
  LET Builders(e) == {r \in ActiveRecipes : Primary(r) = e}
      ideal[n \in Nat] ==
        [e \in Datasets |->
           IF n = 0 \/ Builders(e) = {}
             THEN IF versions[e] = <<>> THEN None ELSE LatestVersion(e).content
             ELSE LET r == CHOOSE r \in Builders(e) : TRUE IN
                  <<config[r], [i \in 1..Len(ins[r]) |-> ideal[n - 1][ins[r][i]]]>>]
  IN  ideal[Cardinality(ActiveRecipes)][d]

\* Data reported fresh, with everything upstream of it fresh and nothing it comes
\* from archived, is what a complete rebuild would compute (compute_staleness,
\* recipes_service.py 184-210).
FreshIsIdeal ==
  ~rules.mayRewire =>
    \A r \in ActiveRecipes :
      (\A q \in UpstreamClosure(Graph, {r}) :
         ~OutputStale(q) /\ \A i \in Ins(Graph, q) : dataset[i] = "active")
        => LatestVersion(Primary(r)).content = Ideal(Primary(r))
=============================================================================
