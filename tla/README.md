# modoki-operator in TLA+

modoki-operator is a small platform on Kubernetes.  A user writes an
*Application*; the operator runs a cdk8s program that turns it into a
Deployment, a Service, an Ingress and so on, and applies them.  A *RemoteSync*
follows a branch, a commit or a pull request on GitHub, has kpack build its
image, and writes the image into an Application.  An *AppPipeline* keeps one
Application and one RemoteSync for every open pull request of a repository.  A
second process, the webhook server, receives GitHub's events and touches the
objects that an event concerns, so that the operator looks at them again.

This directory holds TLA+ models of these parts, the TLC runs that check them on
small instances, and proofs, checked by TLAPS, of the safety of each of them for
every value of the constants.

## Inventory

| Component | State | Operations | Talks to |
|---|---|---|---|
| Application controller (`controllers/application_controller.go`, `api/v1alpha1/util.go`) | the Application (spec, status with inventory), its children with their last-applied annotation and controller reference, a queue key | `Reconcile`: read, generate, a loop of Get and Create or Patch, deletion of obsolete objects, status update | API server, generator, garbage collector |
| RemoteSync controller and kpack builder (`controllers/remotesync_controller.go`, `pkg/kpackbuilder`) | the RemoteSync's message, a ServiceAccount, kpack Images named after short revisions, the Application's image | `Reconcile`, `Run`, `prepareServiceAccount`, `prepareImage` with `cleanupOldImages` | informer caches, API server, GitHub, kpack |
| AppPipeline controller (`controllers/apppipeline_controller.go`, `pkg/pipeline/github`) | the AppPipeline's message, labelled Applications and RemoteSyncs | `Reconcile`, `Run`: list pull requests, create or update, delete the obsolete, for either kind | informer caches, API server, GitHub |
| Webhook server (`webhook/main.go`, `pkg/webhook`, `pkg/k8sclientutil/patch.go`) | a mutex per handler, goroutines, an informer cache, the annotation of a refresh | `NewHandler`, `call`, `operation`, `refresh` with five tries | GitHub, API server |
| Queue, caches, API server (controller-runtime 0.6.2, client-go) | set of keys, delayed re-adds, lagging caches, resource versions | external; modelled from how the controllers use them | all of the above |
| Command generator (`generators/command.go`, `pkg/yaml`) | a child process, four goroutines, pipes, a context | `Generate`, `ParseUnstructuredAll` | Application controller, cdk8s template |
| cdk8s template (`cdk8s-template/main.ts`, `charts/chart.ts`, `application.ts`, `imports/k8s.ts`) | a construct tree, built once | JSON and a configuration file in, YAML out | generator |
| Start-up, config, token transport, API types, YAML | none after the start | | |

What is hard here: every controller reads through a cache that lags behind what
it and others write; a reconciliation is a sequence of ten or more calls, any of
which may fail, lose its reply or be the last before a crash; four actors
(users, two controllers, the garbage collector) write the same Application; the
controllers must finish their work by retries alone; GitHub is asked in several
calls that do not see one state; webhook events arrive in any order and are
handled by goroutines.  `PROJECT.json` lists these hazards line by line.

What makes each part correct:

* Application controller: never at rest on unfinished work; a status is true when
  it is stored; the recorded inventory does not forget an object that was not
  deleted; the live spec is applied in the end.
* RemoteSync controller: at rest, the account has the right secrets and exactly
  the Image of the resolved revision exists; what is built is deployed; a newer
  image is not replaced by an older one, and nothing is deployed that GitHub has
  not named and kpack not built; the head is deployed in the end; and a
  RemoteSync that is gone leaves nothing.
* AppPipeline controller: at rest, previews and pull requests agree; other
  controllers' writes are not lost; a preview changes only to what the AppPipeline
  has in its template, and goes only when its pull request or its owner has gone;
  exactly the open pull requests have previews in the end.
* Webhook server: no change on GitHub is missed, unless a fault took its refresh.
* Command generator: it returns an error or all objects of the chart, and leaves
  nothing running.
* cdk8s template: what it prints has the types of the Kubernetes API and hangs
  together, so that every domain is served; two Applications are kept apart; an
  edit keeps names and selectors, and the operator can write its annotation on
  every object: all of it as the operator reads what was printed.

## Modules

| Module | Models | Checked by |
|---|---|---|
| `ApplicationReconciler` | Application controller, one Application | `app_*` through `MCApplication` |
| `DesiredState` | what that controller promises, without caches, calls and crashes | `app_liveness`, as `Refines` |
| `ApplicationProofs` | theorems about it, the refinement among them | TLAPS |
| `Informer` | the versions of an object between a cache and the API server | used by the next two |
| `InformerProofs` | lemmas about them | TLAPS |
| `RemoteSyncReconciler` | RemoteSync controller and kpack builder, the RemoteSyncs of one name | `sync_*` through `MCRemoteSync` |
| `Rollout` | what that controller promises, without caches, calls, crashes and Images | `sync_deploys`, as `Refines` |
| `RemoteSyncProofs` | theorems about what is true at rest | TLAPS |
| `RolloutProofs` | theorems about the order of what is deployed, the refinement among them | TLAPS |
| `GitHubPipeline` | AppPipeline controller and pipeline, the AppPipelines of one name | `pipe_*` through `MCPipeline` |
| `Previews` | what that controller promises, without caches of previews, conflicts, lost replies and retries | `pipe_liveness`, as `Refines` |
| `PipelineProofs` | theorems about it, the refinement among them | TLAPS |
| `WebhookRefresh` | webhook server and its handlers, one repository | `hook_*` through `MCWebhook` |
| `WebhookProofs` | theorems about it | TLAPS |
| `KubernetesObjects` | the types of `imports/k8s.ts` that the chart uses | used by the next |
| `AppChart` | the cdk8s program: the chart, `main.ts`, the reading of its YAML | `gen_*`, through the next |
| `ChartProofs` | lemmas about what the chart prints | TLAPS |
| `CommandGenerator` | `Generate`, its goroutines and child | `gen_*` through `MCGenerator` |
| `GeneratorProofs` | theorems about both | TLAPS |

The parts meet at data that one module takes as a constant or as a free input and
another produces: `ApplicationReconciler` takes what is generated for a spec as
`Manifest`, a spec for which `Generate` fails is `Broken`, and both are justified
by `CommandGenerator` (an error, or a function of the Application and the
configuration); the image that `RemoteSyncReconciler` deploys and the writes of
`GitHubPipeline` into an Application are edits there; the refresh of
`WebhookRefresh` ends in the work queues of the two GitHub controllers, which
their modules start from.

### ApplicationReconciler

`log` is every version of the Application the API server has stored, its index
the resource version; `seen` is the version in the informer cache, so that a
stale read is a read of `log[seen]`.  `dirty` and `retry` are the key in the work
queue and its delayed re-add.  `pc` names the call `Reconcile` makes next, and
`rv`, `todo`, `cur`, `kept` are its locals: the version it works on, the objects
the loop has still to deal with, the one it is dealing with, and `resources`.
`applied` and `owner` are the children: what their last-applied annotation says,
and the uid of their controller reference.  The children are read without a
cache (they are unstructured objects, which the 0.6.2 client reads directly).

One action stands for one call and what follows it up to the next call:
`Reconcile` (lines 81-105), `Generate` (107-117), `GetChild` (118-182),
`CreateChild` (146-157), `PatchChild` (159-208), `DeleteObsolete` (210-224),
`UpdateStatus` (226-238).  `PatchMissing` is a Patch of a child that was
collected after the Get.  A write may take effect and lose its reply
(`ReplyLost`), a call may fail without effect (`CallFails`, also the end of the
minute that a reconciliation has), and the operator may die (`Restart`, which
refills the cache and the queue).  Users `Edit`, `DeleteApplication` and
`RecreateApplication`; the garbage collector removes children whose owner is
gone; a watch may skip versions.  The order in which the loop visits the objects
is free.

Three things in this code look odd and are modelled as they are: an object that
was created leaves the loop by `continue` and is not appended to `resources`
(line 156); the object passed to `Delete` has no name, so the call is always
rejected (lines 216-219); and the deferred status update of a failed
reconciliation runs after the deferred `cancel()`, on a cancelled context, so
that it stores nothing (lines 91-105).

Abstracted: the manifests of a child are one value up to equality, its
annotations are its last-applied content or `Foreign` for none, the status
message is left out (the code stores it only with "failed").  Assumed: no text of
what is generated is misread (see AppChart: a misread annotation makes line 69
panic at every attempt, any other misread text makes the API server refuse the
object at every attempt), and nobody but the operator and the garbage collector
writes children once it has started.

### DesiredState

Four variables: `wanted`, the versions that users asked for; `following`, the one
that the controller follows; the child `objects`; and its `report`.  Users `Want`;
the controller may `Follow` a newer version but never an older one, `Bring` about
a child of the version it follows, and `Report` "deployed" only when all children
of the newest version are there.  A child may be lost (`Lose`) only when the
Application is not the first of its name, or deleted.

`ApplicationReconciler` implements it with `wanted` the log without statuses,
`following` the version that `Reconcile` works on or the cached one when it is
idle, `objects` the last-applied contents, `report` the live status without its
inventory.  `app_liveness` checks `Refines`, and `Implements` proves it.

### Informer

A *view* is the sequence of versions of an object (or of all objects of a kind)
from the cached one to the live one; the watch delivers the next with `Tail`.  It
is a smaller form of the log above: it forgets versions everybody has seen, which
keeps the state spaces of controllers with four caches finite and small.

### RemoteSyncReconciler

Four views: the RemoteSyncs of one name (a uid, alive or not, a spec and a
message), the ServiceAccount, the Images, the Application.
`github` is what GitHub answers: the head of the branch or pull request, the
revision of the test merge, and whether mergeability is known.  The locals of
`Reconcile`, `Run` and `prepareImage` are variables; `resolved` is a history
variable, the last revision an Image was prepared for.  A read from the cache and
the write that follows are one step, because a watch event between the two could
as well come after them; the API server's part of the write (Create fails on an
existing object, Patch on a missing one) looks at the live version.  Errors pass
through `Fail`: while the pull request is pending, the deferred function of `Run`
hides the errors of its last part (builder.go, 44-49).  Pushes, merges, builds,
edits, deletions by others, lost replies and restarts interleave with all of it.

Revisions are numbers, a larger one a newer commit; `Short` maps them to the
short names of their Images, and may map two to one.

The AppPipeline deletes the RemoteSync of a pull request that is closed, and
creates another of the same name when it is reopened (`DeleteRemoteSync`,
`RecreateRemoteSync`, up to `MaxUid`).  The garbage collector removes what the
old one owned, running ahead of the caches by at most `MaxLag` versions.  In the
meantime the new RemoteSync meets the old one's objects: an Image of the revision
it wants is taken over (`Wanted`), since `SetControllerReference` compares names
and not uids; an account that has the right secrets is returned as it is, keeps
its old owner, is collected later, and is made again when its watch tells
(`HasSecrets`).  A `Reconcile` that has still read the old RemoteSync may create
objects for it after they were collected; they are collected in their turn
(`NothingIsLeft`).  An Application may be deleted and created again, too.

Not modelled: an answer of GitHub without a revision, which ends `Run` quietly
(builder.go, 60), and a second build of one revision by kpack, which would give
it a new image.

### Rollout

Three variables: the revision that GitHub has `named` last, the `builds` that are
known, and the revision that the Application is `running`.  GitHub may only
`Advance`, kpack may `Build` a revision that was named, a build may be forgotten
(`Forget`, when its Image is deleted), and the controller may `Deploy` a build
that is known and not older than what is running.  Others create and delete the
Application.

`RemoteSyncReconciler` implements it with `named` the answer of GitHub for the
live spec (`Named`), `builds` the builds in any version of the Images that is
stored or on its way to the cache, and the one that `Run` holds (`KnownBuilds`),
and `running` the live Application.  `sync_deploys` checks `Refines`, and
`RolloutImplemented` proves it, under `Linear`: branches are never reset, all
specs of the RemoteSync follow the same kind of source (and one commit, if it is
a commit), and short names tell revisions apart.

### GitHubPipeline

Views of the AppPipelines of one name (a uid, alive or not, and a spec), of the
Applications and of the RemoteSyncs; the four loops
of `Run` (create or update Applications, delete obsolete ones, the same for
RemoteSyncs) are driven by `todo`, and each pull request of a loop is one step.
`CreateOrUpdate` writes the cached copy with its resource version: it conflicts
with any version the cache has not seen (`Conflict`).  A field of the template
that is empty leaves the old value (`MutateApplication`); `base` stands for the
fields that are overwritten always.  Other controllers write into the same
objects (`TouchApplication`, `TouchRemoteSync`), users delete and edit previews.
`listed` is a history variable: the last list whose loops all succeeded.

The AppPipeline may be deleted and created again (`DeletePipeline`,
`RecreatePipeline`, up to `MaxUid`). Its previews are then collected one by one
(`CollectApplication`, `CollectRemoteSync`), and the cached copies lag behind
the collector by at most `MaxLag` versions; a preview that the collector has not
reached yet is taken over by the new AppPipeline, because
`SetControllerReference` compares names and not uids, and keeps living.

Not modelled: users who change the labels by which previews are found, and two
AppPipelines whose previews share names.

### Previews

Six variables: the `open` pull requests; `upcoming`, the AppPipelines from the
oldest that may still be followed to the newest; the one the controller is
`following`; the `list` of pull requests that it holds for open; and the previews,
`apps` and `syncs`.  Users `Want` another AppPipeline.  The controller may
`CatchUp`, never to return to what it has passed; `Follow` an AppPipeline; take the
`List` of the pull requests that are open at that moment, all of them if they fit
on a page; and then, while it holds that list, `Bring` a preview of a listed pull
request to the template or `Drop` one of another.  It `Finish`es with a message or
without, or dies (`Restart`).  The collector may `Collect` a preview whose owner is
gone, other controllers `Touch` their part of one.

`GitHubPipeline` implements it with `upcoming` the view of the AppPipeline,
`following` the copy that `Reconcile` works on, `list` the answer of GitHub once it
is there, and the previews the live versions of the two views.  What is cached of
the previews, `todo`, `fresh` and the queue do not appear.  `pipe_liveness` checks
`Refines`, and `PreviewsImplemented` proves it for users who leave the previews alone
(`LeftAlone`; there are no faults in that run, and `DeletePreview` and
`EditPreview` are faults).  Users who do not may `Meddle`: `RefinesWithUsers`, which
`PreviewsImplementedWithUsers` proves.  It also passes on the instance of
`pipe_settles`, in three minutes, and is no part of that run.

### WebhookRefresh

An event is sent, travels, is called (any order), waits as a goroutine for the
mutex of its handler, lists the cached objects, and refreshes those that match.
A refresh stores the second in an annotation; the API server makes no event of a
patch that changes nothing.  `news` are the objects for which GitHub has changed
since they were last reconciled.

What the server has accepted is only in its memory.  A request may be lost
(GitHub does not try again), a List may fail (the handler goes on with an empty
list), a patch may fail for the fifth time (`GiveUp`) or lose its reply, the
minute of an operation may be over (`TimeIsUp`), and the server may die
(`Restart`).  `lost`, a history variable, notes whose refresh a fault destroyed,
so that the properties can say that nothing else does.

### AppChart and KubernetesObjects

`MyChart` is the constructor of the class of that name, object by object and
field by field; `ConfigFor` the merge of the configuration and its defaults;
`Throws` the refusal of the construct tree to take a second child of the same id;
`Main` what `main.ts` prints, which is nothing when the promise is rejected.
`Decoded` is what the operator reads: `yaml.stringify` writes YAML 1.2 and leaves
texts such as "on", "yes" or "1_000" unquoted, while the decoder reads YAML 1.1 and
makes a boolean or a number of them.  `Misread` is the set of these texts and
`NotText` stands for what becomes of them.  `Decoded` reads every text that a user
or the configuration chooses: the namespace, the labels and selectors (the name of
the Application), the annotations, image, command, arguments, service account,
pull secret and hosts.  What the chart writes down itself is never misread, nor is
`AppTag` (the text "modoki-NAME-app") or the name of an object.  Left out: a *key*
of a configured annotation that is misread.

`KubernetesObjects` has the types of `imports/k8s.ts` that the chart builds its
objects from, each with the fields that the chart sets.  That file has 13025
lines, generated from the Kubernetes API: interfaces that leave no trace in the
program, and a class per kind of object.  Three of the classes and some twenty
of the interfaces are used; a model of the others would be a list of fields that
nothing in this repository reads.

### CommandGenerator

`main` is the goroutine of `Generate`, which becomes the parser; `encoder` writes
the Application into the child and closes the pipe; `starter` starts it and
waits; `killer` waits for the context or for the starter.  `child` is a run of
`AppChart!Main`.  Output is counted in halves of documents, `written` by the
child and `read` by the parser, so that the pipe (of `Capacity` halves) may be
full and a document may be cut in its middle.  `Wait` closes the operator's end
of the pipe as soon as the child has exited, whatever the parser has still to
read; half a document at the end of the output is an error or a document that
lacks something (`Cut`).  The context may end at any moment.

Faults: a pipe that cannot be opened, a `Start` that fails, a child that crashes,
hangs, or prints something else first (`Junk`).  One fact comes from the Dockerfile
(line 24) and not from the code: Node 12 exits with 0 after a rejected promise.

## Runs

Every bound is a constant of a cfg.  A run takes at most about two minutes on two
workers.

| Run | Instance | Shows |
|---|---|---|
| `app_safety` | 4 specs (one rejected by the generator), 2 children, at most 4 versions by users, 2 uids, 1 fault | `TypeOK`, `NoLostWork`, `TruthfulStatus`, `InventoryNeverForgets`, and `IInv`, the invariant of the proof |
| `app_liveness` | fewer specs, 4 versions, 1 uid, 1 fault, fairness | `Converges`, `Refines` |
| `app_failed_status` | 2 versions, no faults, fairness | violation: "failed" is never stored |
| `app_reused_name` | 2 uids, no faults | violation: a re-created Application is reported deployed and loses its children |
| `sync_settles` | branch or commit, 3 revisions of which two share a short name, 1 uid, 1 push, edit or deletion, 1 fault | `TypeOK`, `ObjectsSettle`, `IInv` |
| `sync_deploys` | a pull request, 2 revisions, 2 uids, 1 push, refresh or deletion, fairness | `ObjectsSettle`, `ImageIsDeployed`, `NeverRollsBack`, `Refines`, and `OrderInv` and `DeployInv`, the invariants of their proofs; `HeadIsDeployed`, `NothingIsLeft` |
| `pipe_settles` | 2 pull requests, 1 spec of the AppPipeline, 1 uid, 1 event, 1 fault | `TypeOK`, `PreviewsSettle`, `NoLostUpdate`, `IInv` |
| `pipe_liveness` | 1 pull request, 2 specs, 2 uids, 2 events, fairness | `PreviewsSettle` across a deletion, a re-creation and an edit; `PreviewsFollow`, `Refines` |
| `hook_seen` | 3 objects, 2 events, 2 seconds, 1 fault, fairness; no event in the second of a refresh nor about an object the server does not know | `TypeOK`, `ChangesAreSeen`, `IInv`, `ChangesArrive` |
| `hook_second` | 2 events in one second | violation: the second change is missed |
| `gen_whole` | 6 Applications, 4 configurations, a pipe of three halves, 2 faults, fairness | `TypeOK`, `OutputIsWhole`, `IInv`, `DomainsAreServed`, `AppsAreIsolated`, `EditsPatchInPlace`, `AnnotationsTakeLastApplied`, `Returns` |
| `gen_cut` | the same without faults | violation: a child that has printed everything is reported as failed |

Why the bounds are enough.  Two children let one be applied while the other is
not, and one be obsolete while the other is kept; four versions let a user edit
between a read and a write of the same reconciliation, twice; two uids let a name
be used again.  One fault at any call covers each error path once, and the
retry that follows it can be hit by edits.  Three revisions let two share a name
with a third between them; two pull requests let a loop fail half way, and one,
with two AppPipelines, lets a preview be collected before, during and after a
reconciliation for the second.  Two uids of a RemoteSync let the account and the
Images of the first be met before, during and after their collection; one event
is enough for that, since a deletion may be followed by a creation at no cost, and
for a push at any moment of a reconciliation.  (With
`SPECIFICATION Spec` and `MaxEdits = 2`, `ImageIsDeployed` and `NeverRollsBack`
pass as well, in 4.7 million states.)  Two events and two seconds let the refreshes of
two events meet in either order and share a handler's mutex.  Three halves let
the pipe be full with a document cut in it, and the child block with output left;
two faults let a child that hangs also have printed something else.  The six
Applications are one and an edit of it, a namesake in another namespace with a
misread argument, another name, one with the OAuth2 attribute, and one whose name
is misread; the four configurations are none, an empty one, one that repeats the
default and one with a misread annotation.  `DomainsAreServed` and
`AppsAreIsolated` speak of objects that the API server takes (`Accepted`): all
but the Deployment with the misread argument, the objects of the last Application,
and every Ingress under the last configuration.  All safety is also proved, so that no bound matters to
it: faults across the end of one RemoteSync and the start of the next, for
instance, are in no run.  (`ImageIsDeployed`, `NeverRollsBack` and the refinement
of `Rollout` are proved under `Linear`, which `sync_deploys` satisfies,
`ImageIsDeployed` for an Application that nobody deletes, and the refinement of
`Previews` for previews that no user writes; `ChangesAreSeen` under the two
conditions of its run.)

`hook_*` and `gen_*` switch deadlock checking off: a run of the generator ends,
and the bounds on events and time let the webhook server come to a real end.

`NoLostWork` and `Converges` speak of the first object of a name, since
`app_reused_name` refutes them for later ones; `Converges` allows two conditions
that no retry gets past (`Blocked`): a spec the generator rejects, and an
obsolete object in the inventory.

### Fairness

`FairSpec` of each controller assumes that watches deliver (client-go
reconnects and lists again), that a delayed re-add fires, and that the single
worker goroutine goes on.  `Resync` is weakly fair in `RemoteSyncReconciler` and
`GitHubPipeline`: main.go sets no SyncPeriod, so controller-runtime's default of
about ten hours applies.  Nothing else makes the RemoteSync controller learn of
a push whose webhook was lost, so the liveness properties of both rest on it; the
Application controller's does not.  GitHub computes merges, kpack builds and the
Application is created, in the end: without these there is nothing to deploy.
The garbage collector removes what a deleted AppPipeline or RemoteSync owned, one
object or another.

In `WebhookRefresh` requests arrive, goroutines run (none waits for ever for a
mutex that is released again and again: the set of those who wait is finite), and
the operator reconciles what is queued.  In `CommandGenerator` every goroutine
runs on, a child that is not stuck runs on, and the context ends: Reconcile makes
it with a minute (application_controller.go, 104).  A child that hangs has no
fairness at all; the killer ends it.

No fairness is assumed for users, faults and restarts.

### Statements that the code does not keep

The four violations are in `PROJECT.json` under "findings", each with the line
of the repository it contradicts.  Others show in the models and have
no run of their own:

* `Delete` is given an object without a name, so an obsolete child is never
  deleted (application_controller.go, 216-222); `Blocked` and
  `InventoryNeverForgets` are what is left.  And `resources` never lists an
  object created by the same reconciliation (line 156), so that the inventory at
  rest is incomplete.
* With `Rewind = TRUE` (a branch reset to an earlier commit) `ImageIsDeployed`
  fails: the build is read from the cached copy of an Image, even of one that the
  controller itself has deleted, and the Application is not watched.
* With short names that collide `NeverRollsBack` fails, and with it `Refines`:
  revisions 1 and 3 share the Image "a"; the reconciliation for 2 lists the Images
  before the cache shows "a", so that it is not cleaned up, and 2 is deployed; the
  one for 3 finds "a" and changes its revision, but takes the build from the cached
  copy, which is that of 1 (image.go, 131, 217 to 228 and 248).  Seven hexadecimal
  digits make that unlikely, not impossible; `Linear` excludes it.
* An Application that is deleted and created again while the RemoteSync controller
  is at rest runs no image until that controller's next event or resync, since it
  does not watch Applications; this is why `sync_deploys` has no faults, and
  `DeleteApplication` is one.
* With `LateCache = TRUE` `ChangesAreSeen` fails: handlers list a cache that may
  not know a new object.
* With more open pull requests than `PageSize`, which GitHub sets to 30,
  `PreviewsFollow` fails: those on later pages count as closed (pipeline.go, 56).
* The test merge of a pull request and its mergeability come from two calls
  (image.go, 182 and 188), so that a merge computed between them is taken for
  ready with the old revision; the next resync or event repairs it.  And
  `mutateRemoteSync` never copies the pipeline's `subPath` (remoteSync.go, 30).
* An Application with the OAuth2 attribute never generates anything: chart.ts
  gives the id "ingress" to a second child (line 151), which the construct tree
  refuses (`Throws`).
* main.ts (line 23) writes YAML 1.2 and the operator reads YAML 1.1.  So an
  Application whose name, namespace, image, argument, host, service account or
  pull secret is a text such as "on" gets objects with a boolean there: those that
  hold it are refused by the API server at every attempt, though the name is a
  valid one.
* And a configured annotation such as nginx's `proxy-buffering: "on"` (chart.ts,
  117-122) leaves the Ingress with a boolean among its annotations, for which
  `GetAnnotations` gives nil (application_controller.go, 61): the assignment in
  line 69 panics, for every Application.  `AnnotationsTakeLastApplied` states that
  this happens in exactly that case; no doc or test says otherwise.

## Proofs

Every theorem holds for all values of the constants that the named assumptions
allow; TLC evaluates the assumptions in the runs.

| Module | Theorem | States |
|---|---|---|
| `ApplicationProofs` | `Invariant` | `Spec => []IInv` |
| | `TypeCorrect` | `Spec => []TypeOK` |
| | `WorkIsFinished` | `Spec => []NoLostWork` |
| | `StatusIsTruthful` | `Spec => TruthfulStatus` |
| | `InventoryGrows` | `Spec => InventoryNeverForgets` |
| | `Implements` | `Spec => Refines` |
| `RemoteSyncProofs` | `TypeCorrect`, `InvariantHolds` | `Spec => []TypeOK`, `Spec => []IInv` |
| | `ObjectsAreSettled` | `Spec => []ObjectsSettle` |
| `RolloutProofs` | `OrderHolds` | `Spec => []OrderInv`, if `Linear` |
| | `ImagesGoForward` | `Spec => NeverRollsBack`, if `Linear` |
| | `RolloutImplemented` | `Spec => Refines`, if `Linear` |
| | `DeployHolds`, `BuildsAreDeployed` | `Spec /\ ApplicationStays` `=>` `[]DeployInv` and `[]ImageIsDeployed`, if `Linear` |
| `PipelineProofs` | `TypeCorrect`, `InvariantHolds` | `Spec => []TypeOK`, `Spec => []IInv` |
| | `PreviewsAreSettled` | `Spec => []PreviewsSettle` |
| | `UpdatesSurvive` | `Spec => NoLostUpdate` |
| | `PreviewsImplemented` | `Spec /\ LeftAlone => Refines` |
| | `PreviewsImplementedWithUsers` | `Spec => RefinesWithUsers` |
| `WebhookProofs` | `TypeCorrect` | `Spec => []TypeOK` |
| | `InvariantHolds`, `NothingMissed` | `Spec => []IInv`, `Spec => []ChangesAreSeen`, if `SlowEvents` and not `LateCache` |
| `GeneratorProofs` | `TypeCorrect`, `InvariantHolds` | `Spec => []TypeOK`, `Spec => []IInv` |
| | `WholeOutput` | `Spec => []OutputIsWhole` |
| | `ServedDomains`, `IsolatedApps`, `PatchableEdits`, `WritableAnnotations` | `Spec => []` of `DomainsAreServed`, `AppsAreIsolated`, `EditsPatchInPlace`, `AnnotationsTakeLastApplied` |

Assumptions on constants: `ManifestAssumption` (the chart maps every spec to a
content or to nothing for each child), `SourceAssumption` (specs, revisions and
their short names; two may be the same), `PipelineAssumption` (finitely many pull
requests; a template is a field or `Unset`), `WebhookAssumption` (what a target
follows), `ChartAssumption` (the texts of chart.ts are texts and are not misread, nor are
`AppTag` and "8080"; any other text may be, names of Applications and namespaces
included; what a misread text becomes is no text; cdk8s gives different children
different names, as the hash it appends is meant to),
`GeneratorAssumption`; `ObjectAssumption` (`NoObject` is no object, and neither a
revision nor the lack of one, nor a list of pull requests); and `BoundsAssumption` or `LimitAssumption` (the
bounds are naturals).  `Linear`, `ApplicationStays` and `LeftAlone` are hypotheses of the
theorems that need them, and not assumed of the module: what fails without them is
listed above.

### The Application controller

`NoLostWork` is not inductive: whether the controller may rest depends on what
its last reconciliation did, on which version, while users were editing.  `IInv`
adds what links them.  `VersionInv` says that `Reconcile` works on a version in
which the object was alive; `HistoryInv`, that uids only grow and a first object,
while it is alive, was never deleted; `OwnerInv`, that no child is owned by a
later uid; `LoopInv`, that what is left to do was generated and that the loop ends
only when no recorded object is obsolete; `AppliedInv`, that what the loop has
dealt with stays applied while the first object lives.  The last one is the heart
of it: the garbage collector is the only actor that could undo it, and
`HistoryInv` and `OwnerInv` show that it has nothing to collect
(`NothingToCollect`).  Then `UpdateStatus` succeeds only when the version read is
the live one, so what was applied is what the live spec asks for
(`StatusUpdate`), which gives `TruthfulStatus`; and a step that brings the
controller to rest is such an update, or returns from a deleted Application, or
is no step of a first object (`QuietStep`), which gives `NoLostWork`.

The lemmas follow that order: what a step does to the log (`LogStep`,
`LogGrows`, `AppFixed`, `PositionStep`), typing (`TypeStep`), one lemma per
conjunct of `IInv`, then `InitInv` and `NextInv`.  For `Implements` each action
is mapped to a step of `DesiredState` or a stutter; what is followed never goes
back because `rv` is at most `seen`, and a report needs `Complete`, which is
`AppliedInv` at the end of the loop.

### The two controllers over GitHub

`ObjectsSettle` and `PreviewsSettle` say what is true at rest, and rest is
reached by a `Reconcile` that found nothing to do.  The invariants carry what it
has found so far: `ReadInv`, that it works on the cached spec; `AccountInv` and
`ImagesInv`, or `AppsInv` and `SyncsInv`, that what its calls and loops have
passed is as it wants it.  Each is conditional on the key not being queued and
the view being up to date, and this is the argument: a write that changes
anything puts a version behind the cached one (`Grows` in `InformerProofs`); only
a watch event or a restart takes it away again, and either queues the key.  So as
long as the key is not queued and the view is up to date, `Reconcile` has written
nothing of it, and the cached view is the one it has seen from its beginning.
A failed call leads to a retry, which is no rest.

The Application is left out of the RemoteSync controller's `IInv`: no watch on it
queues anything, so that the argument fails for it.  The next section has
another.  The collector's deletions need no argument of
their own: they, too, come back as events of the watches.  While there is no
RemoteSync nothing is promised at rest.  `NoLostUpdate` rests on resource versions: an
update through a stale cached copy conflicts, and one through a current copy
keeps what others have stored in it, in an Application and in a RemoteSync
(`OthersSurvive`).

For the refinement of `Previews` each action is mapped to one of its steps or a
stutter.  `Previews` writes the template over the live object, the code over a
cached one: they are the same, since `~Conflict` says that there is no version
between them (`Current`, `TemplateOver`).  And it writes previews of listed pull
requests only and drops no other, which is what `LoopInv` keeps of `todo`.  A reply
that is lost or a crash leaves the previews as they are, and the list is given up.

### The order of what is deployed

A build reaches the Application by a long way: GitHub names a revision, an Image
is made of it, a cache shows the Image and what kpack has built of it, `Run` takes
the build and, a call later, writes it into the Application.  At each station
things may be old.  `OrderInv` says that at each of them nothing is newer than at
the one before and that the last one has not been overtaken: every version of an
Image, cached or live, builds only the revision of its name, which is not later
than what GitHub names; the revision that `Run` works on lies between every
version of the Application and what GitHub names; and the build that it takes is
that of the revision it works on.  That last part is where short names matter.

The lemmas take the stations one by one.  `GitHubChange` and `NamedGrows`: what is
named never gets older, for a pull request because a test merge is computed of a
head that is already there.  `ImagesChange` and `ImagesStep`: a step leaves the
Images alone, delivers versions of them, or writes one of the revision that `Run`
works on.  `ApplicationChange` and `RunChange`: the Application changes only by
`UpdateApplication`, by creation and deletion; and `Run` takes its revision from
GitHub's answer at that moment and keeps it.  So a revision that was read lies at
or after all that was deployed until then, and nothing is deployed until the same
`Run` does it, since there is one worker.  `NeverRollsBack` follows from `OrderInv`
and one step.

For `Refines` each action is mapped to a step of `Rollout` or a stutter.
`Rollout` does not ask what `Images` there are but what builds are known; a cache
that moves on, a restart or a deletion only makes that set smaller (`Forget`), a
build of kpack adds the revision of an Image, which `OrderInv` shows was named
(`Build`), and `Run` can only hold a build that a cached Image had.

`ImageIsDeployed` says that what is built and resolved is deployed at rest, and it
is not inductive without the order: `Run` skips the update when the *cached*
Application runs the build already.  `DeployInv` says that no version
of the Application on its way to the cache runs a later image than the live one,
which, once there is an image, always runs one: so the cached version and the revision at hand pin the live one from both
sides (`FoundIsDeployed`).  It also says that a `Reconcile` that ends without an
event meanwhile has deployed what its cached Image had, and that at rest the
live one has no more (`RestIsDeployed`), because kpack's build comes as an event
of the watch on Images.  An Application that is deleted while the controller rests
breaks it, as listed above, whence `ApplicationStays`.

### The webhook server

`IInv` says where the news of an object is, unless a fault took it: in the
operator's queue, or in an event, a waiting goroutine or a refresh to come, with
an annotation older than the clock, so that the refresh will change it and make
an event.  The lemmas go through what may take it from one place to the next
(`HappenCovers`, `ServeCovers`, `FaultCovers`, `OthersCover`); without
`SlowEvents` the annotation may already be that of the clock, which is
`hook_second`.

### The generator and the chart

`OutInv` says what the child has printed, and all of it when it exits with 0;
`WaitInv`, that no error of `Start` or `Wait` means that it did; `ParserInv`,
that the parser has decoded what it has taken, and everything when it ends
without an error.  An error of either hides the other, and the pipe may be closed
early, but an early close is an error of the parser: so `OutputIsWhole`.  The
other four theorems add what `ChartProofs` shows of the chart for every
Application and configuration: its three objects (`MainShape`), their types
(`MainType`), each of them as the operator reads it (`DeploymentRead`,
`ServiceRead`, `IngressRead`), that names of different Applications differ
(`NamesDiffer`), and what misreading does.  A text that is of its type after
reading was not misread (`TextRead`, `MapRead`), so an object that the API server
takes has the namespace, labels, image and hosts that the chart gave it
(`AcceptedMetadata`, `AcceptedDeployment`, `AcceptedIngress`); and a map of texts
stays one if and only if no value of it is misread, which for the annotations of
the Ingress leaves those of the configuration (`AnnotationsRead`).

### Only model-checked

All liveness (`Converges`, `HeadIsDeployed`, `NothingIsLeft`, `PreviewsFollow`,
`ChangesArrive`, `Returns`), which is out of the prover's reach, and the
violations.

## Not modelled

* Start-up, flags, configuration files of the operator and the webhook server,
  the header a token transport adds: no state after the start, or none at all.
  What a restart loses is modelled with each part.
* deepcopy code, CRD and RBAC manifests, and the rest of `imports/k8s.ts`:
  generated.  That file is 98 % of the TypeScript, so the definitions of this
  project stand for about a tenth of the TypeScript lines, though for all of
  `chart.ts`, `main.ts` and `application.ts` that computes something; the
  controllers, the generator and the webhook server are Go.
* An answer of GitHub without a revision, which ends `Run` quietly; a second build
  of one revision by kpack; users who change labels; two
  AppPipelines that share preview names; pushes to the base branch of a pull
  request, for which no handler refreshes anything.
* The event channel of main.go, which is created and never sent to.

## What is left

1. A composition of the three controllers over one shared Application, in which
   the image of the RemoteSync controller and the template of the AppPipeline
   meet in one log; the abstract specifications `DesiredState`, `Rollout` and
   `Previews` are its parts.

No module with a theorem reaches a RECURSIVE operator; invariants are
conjunctions of named parts.

## Running

    tlc -workers 2 -config app_safety.cfg MCApplication.tla
    tlapm ApplicationProofs.tla

The operators commented "Mutant" are never part of a specification.  Each is a
plausible bug in the definition it precedes; put in that definition's place, it
makes TLC report the property `PROJECT.json` names beside it.
