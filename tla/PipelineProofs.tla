--------------------------- MODULE PipelineProofs ----------------------------
(***************************************************************************)
(* The safety of GitHubPipeline, for every set of pull requests, of        *)
(* templates and of values, and every number of AppPipelines, events and   *)
(* faults: TypeOK, the invariant IInv, hence PreviewsSettle, NoLostUpdate, *)
(* and that it implements Previews.                                        *)
(*                                                                         *)
(* A write of the pipeline that changes anything puts a new version behind *)
(* the cached one (Grows), and only a watch or a restart takes it away     *)
(* again, which queues the key.  So while the key is not queued and a view *)
(* is up to date, it is the view that the running Reconcile has seen from  *)
(* its beginning, and its loops have found everything as they want it.     *)
(***************************************************************************)
EXTENDS GitHubPipeline, InformerProofs, FiniteSetTheorems

Applications == [PullRequests -> Application \union {NoObject}]
RemoteSyncs == [PullRequests -> RemoteSync \union {NoObject}]
Work == [uid : 1..MaxUid, spec : Specs]

-----------------------------------------------------------------------------
(* Objects                                                                 *)

\* What the pipeline wants an object to be, is an object that agrees with it.
LEMMA Mutated ==
  ASSUME pl \in Work
  PROVE  /\ \A object \in Application : MutateApplication(object) \in Application
         /\ \A object \in RemoteSync : MutateRemoteSync(object) \in RemoteSync
<1>1. pl.uid \in 0..MaxUid /\ pl.spec.base \in Base
      /\ pl.spec.template \in [Field -> Value \union {Unset}]
  <2>1. pl.uid \in 1..MaxUid /\ pl.spec \in Specs
    BY DEF Work
  <2> QED
    BY <2>1, PipelineAssumption, LimitAssumption
<1>2. ASSUME NEW object \in Application PROVE MutateApplication(object) \in Application
  <2> DEFINE fields == [f \in Field |->
        IF pl.spec.template[f] # Unset THEN pl.spec.template[f] ELSE object.fields[f]]
  <2>1. fields \in [Field -> Value \union {Unset}]
    BY <1>1 DEF Application
  <2> HIDE DEF fields
  <2>2. [object EXCEPT !.owner = pl.uid, !.base = pl.spec.base, !.fields = fields] \in Application
    BY <1>1, <2>1 DEF Application
  <2> QED
    BY <2>2 DEF MutateApplication, fields
<1>3. ASSUME NEW object \in RemoteSync PROVE MutateRemoteSync(object) \in RemoteSync
  BY <1>1 DEF MutateRemoteSync, RemoteSync
<1> QED
  BY <1>2, <1>3

\* The empty objects that CreateOrUpdate begins with.
LEMMA New ==
  NewApplication \in Application /\ NewRemoteSync \in RemoteSync
BY LimitAssumption DEF NewApplication, Application, NewRemoteSync, RemoteSync

-----------------------------------------------------------------------------
(* Type correctness                                                        *)

\* The parts of TypeOK: the flags, the other plain variables and the views.
Flags ==
  dirty \in BOOLEAN /\ retry \in BOOLEAN /\ fresh \in BOOLEAN /\ failed \in BOOLEAN

Plain ==
  /\ open \subseteq PullRequests
  /\ pc \in {"idle", "list", "applications", "deleteApps", "remoteSyncs",
            "deleteRemoteSyncs", "status", "error"}
  /\ pl \in IF pc = "idle" THEN {NoObject} ELSE Work
  /\ list \subseteq PullRequests /\ todo \subseteq PullRequests
  /\ listed \subseteq PullRequests
  /\ events \in Nat /\ faults \in Nat

Locals == Flags /\ Plain

Views ==
  /\ Versions(pipeline, AppPipeline)
  /\ Versions(applications, Applications)
  /\ Versions(remoteSyncs, RemoteSyncs)

LEMMA TypeParts ==
  (TypeOK <=> Locals /\ Views) /\ (TypeOK' <=> Locals' /\ Views')
BY DEF TypeOK, Locals, Flags, Plain, Views, Applications, RemoteSyncs, Work

\* The initial state is typed.
LEMMA InitTypes == Init => TypeOK
<1> SUFFICES ASSUME Init PROVE TypeOK
  OBVIOUS
<1>1. Versions(pipeline, AppPipeline)
  <2>1. PICK s \in Specs : pipeline = <<NewPipeline(1, s)>>
    BY DEF Init
  <2>2. NewPipeline(1, s) \in AppPipeline
    BY LimitAssumption DEF NewPipeline, AppPipeline, Message
  <2> QED
    BY <2>1, <2>2, Refilled
<1>2. Versions(applications, Applications) /\ Versions(remoteSyncs, RemoteSyncs)
  <2>1. [n \in PullRequests |-> NoObject] \in Applications
    BY DEF Applications
  <2>2. [n \in PullRequests |-> NoObject] \in RemoteSyncs
    BY DEF RemoteSyncs
  <2> QED
    BY <2>1, <2>2, Refilled DEF Init
<1>3. Locals
  BY DEF Init, Locals, Flags, Plain, Work
<1> QED
  BY <1>1, <1>2, <1>3, TypeParts DEF Views

\* Writes to the objects of pull request n, and their deletion.
LEMMA Stored ==
  ASSUME NEW n \in PullRequests
  PROVE  /\ Versions(applications, Applications) =>
              /\ Versions(Without(applications, n), Applications)
              /\ \A object \in Application :
                   Versions(Write(applications, [Live(applications) EXCEPT ![n] = object]),
                            Applications)
         /\ Versions(remoteSyncs, RemoteSyncs) =>
              /\ Versions(Without(remoteSyncs, n), RemoteSyncs)
              /\ \A object \in RemoteSync :
                   Versions(Write(remoteSyncs, [Live(remoteSyncs) EXCEPT ![n] = object]),
                            RemoteSyncs)
<1>1. ASSUME Versions(applications, Applications), NEW object \in Application \union {NoObject}
      PROVE  Versions(Write(applications, [Live(applications) EXCEPT ![n] = object]), Applications)
  <2>1. Live(applications) \in Applications
    BY <1>1, Ends
  <2>2. [Live(applications) EXCEPT ![n] = object] \in Applications
    BY <1>1, <2>1 DEF Applications
  <2> QED
    BY <1>1, <2>2, Written
<1>2. ASSUME Versions(remoteSyncs, RemoteSyncs), NEW object \in RemoteSync \union {NoObject}
      PROVE  Versions(Write(remoteSyncs, [Live(remoteSyncs) EXCEPT ![n] = object]), RemoteSyncs)
  <2>1. Live(remoteSyncs) \in RemoteSyncs
    BY <1>2, Ends
  <2>2. [Live(remoteSyncs) EXCEPT ![n] = object] \in RemoteSyncs
    BY <1>2, <2>1 DEF RemoteSyncs
  <2> QED
    BY <1>2, <2>2, Written
<1> QED
  BY <1>1, <1>2 DEF Without

\* The status of the AppPipeline.
LEMMA MessageStored ==
  ASSUME Versions(pipeline, AppPipeline), NEW message \in Message, StoreMessage(message)
  PROVE  /\ Versions(pipeline, AppPipeline)'
         /\ Grows(pipeline, pipeline')
         /\ fresh /\ UpToDate(pipeline)' =>
              pipeline' = pipeline /\ Live(pipeline).message = message
<1>1. CASE fresh
  <2> DEFINE stored == [Live(pipeline) EXCEPT !.message = message]
  <2>1. Live(pipeline) \in AppPipeline
    BY Ends
  <2>2. stored \in AppPipeline /\ stored.message = message
    BY <2>1 DEF AppPipeline
  <2>3. pipeline' = Write(pipeline, stored)
    BY <1>1 DEF StoreMessage
  <2> HIDE DEF stored
  <2>4. /\ Versions(Write(pipeline, stored), AppPipeline)
        /\ Grows(pipeline, Write(pipeline, stored))
        /\ UpToDate(Write(pipeline, stored)) =>
             Write(pipeline, stored) = pipeline /\ Live(pipeline) = stored
    BY <2>2, Written
  <2> QED
    BY <2>2, <2>3, <2>4 DEF Versions, UpToDate
<1>2. CASE ~fresh
  <2>1. pipeline' = pipeline
    BY <1>2 DEF StoreMessage
  <2> QED
    BY <1>2, <2>1, Stays
<1> QED
  BY <1>1, <1>2

\* Every step keeps the types.
LEMMA NextTypes == TypeOK /\ [Next]_vars => TypeOK'
<1> SUFFICES ASSUME TypeOK, [Next]_vars PROVE TypeOK'
  OBVIOUS
<1>0. Locals /\ Views
  BY TypeParts
<1>l. /\ Live(pipeline) \in AppPipeline
      /\ Live(applications) \in Applications /\ Live(remoteSyncs) \in RemoteSyncs
      /\ Cached(pipeline) \in AppPipeline
      /\ Cached(applications) \in Applications /\ Cached(remoteSyncs) \in RemoteSyncs
  BY <1>0, Ends DEF Views
<1>g. SUFFICES Locals' /\ Views'
  BY TypeParts
<1>1. ASSUME NEW n \in PullRequests, Open(n) \/ Close(n) PROVE Locals' /\ Views'
  BY <1>0, <1>1 DEF Open, Close, SpendEvent, Locals, Flags, Plain, Views, objects, queue, locals, Versions
<1>2. ASSUME NEW n \in PullRequests, TouchApplication(n) PROVE Locals' /\ Views'
  <2>1. PICK object \in Application :
          applications' = Write(applications, [Live(applications) EXCEPT ![n] = object])
    <3>1. Live(applications)[n] \in Application
      BY <1>2, <1>l DEF TouchApplication, Applications
    <3>2. [Live(applications)[n] EXCEPT !.others = 1 - @] \in Application
      BY <3>1 DEF Application
    <3> QED
      BY <1>2, <3>2 DEF TouchApplication
  <2>2. Views'
    BY <1>0, <1>2, <2>1, Stored DEF TouchApplication, Views, Versions
  <2>3. Locals'
    BY <1>0, <1>2 DEF TouchApplication, SpendFault, Locals, Flags, Plain, queue, locals
  <2> QED
    BY <2>2, <2>3
<1>3. ASSUME NEW n \in PullRequests, TouchRemoteSync(n) PROVE Locals' /\ Views'
  <2>1. PICK object \in RemoteSync :
          remoteSyncs' = Write(remoteSyncs, [Live(remoteSyncs) EXCEPT ![n] = object])
    <3>1. Live(remoteSyncs)[n] \in RemoteSync
      BY <1>3, <1>l DEF TouchRemoteSync, RemoteSyncs
    <3>2. [Live(remoteSyncs)[n] EXCEPT !.others = 1 - @] \in RemoteSync
      BY <3>1 DEF RemoteSync
    <3> QED
      BY <1>3, <3>2 DEF TouchRemoteSync
  <2>2. Views'
    BY <1>0, <1>3, <2>1, Stored DEF TouchRemoteSync, Views, Versions
  <2>3. Locals'
    BY <1>0, <1>3 DEF TouchRemoteSync, SpendFault, Locals, Flags, Plain, queue, locals
  <2> QED
    BY <2>2, <2>3
<1>4. ASSUME NEW n \in PullRequests, DeletePreview(n) PROVE Locals' /\ Views'
  <2>1. Views'
    BY <1>0, <1>4, Stored DEF DeletePreview, Views, Versions
  <2>2. Locals'
    BY <1>0, <1>4 DEF DeletePreview, SpendFault, Locals, Flags, Plain, queue, locals
  <2> QED
    BY <2>1, <2>2
<1>5. ASSUME NEW n \in PullRequests, EditPreview(n) PROVE Locals' /\ Views'
  <2>1. Locals'
    BY <1>0, <1>5 DEF EditPreview, SpendFault, Locals, Flags, Plain, queue, locals
  <2>2. CASE \E object \in Application :
               /\ applications' = Write(applications, [Live(applications) EXCEPT ![n] = object])
               /\ UNCHANGED remoteSyncs
    BY <1>0, <1>5, <2>1, <2>2, Stored DEF EditPreview, Views, Versions
  <2>3. CASE \E object \in RemoteSync :
               /\ remoteSyncs' = Write(remoteSyncs, [Live(remoteSyncs) EXCEPT ![n] = object])
               /\ UNCHANGED applications
    BY <1>0, <1>5, <2>1, <2>3, Stored DEF EditPreview, Views, Versions
  <2>4. CASE /\ Live(applications)[n] # NoObject /\ UNCHANGED remoteSyncs
             /\ \E f \in Field, v \in Value :
                  applications' = Write(applications, [Live(applications) EXCEPT ![n].fields[f] = v])
    <3>1. PICK f \in Field, v \in Value :
            applications' = Write(applications, [Live(applications) EXCEPT ![n].fields[f] = v])
      BY <2>4
    <3>2. Live(applications)[n] \in Application
      BY <1>l, <2>4 DEF Applications
    <3>3. [Live(applications)[n].fields EXCEPT ![f] = v] \in [Field -> Value \union {Unset}]
      BY <3>2 DEF Application
    <3>4. [Live(applications)[n] EXCEPT !.fields = [@ EXCEPT ![f] = v]] \in Application
      BY <3>2, <3>3 DEF Application
    <3> QED
      BY <2>2, <2>4, <3>1, <3>4
  <2>5. CASE /\ Live(applications)[n] # NoObject /\ UNCHANGED remoteSyncs
             /\ \E b \in Base :
                  applications' = Write(applications, [Live(applications) EXCEPT ![n].base = b])
    <3>1. PICK b \in Base :
            applications' = Write(applications, [Live(applications) EXCEPT ![n].base = b])
      BY <2>5
    <3>2. Live(applications)[n] \in Application
      BY <1>l, <2>5 DEF Applications
    <3>3. [Live(applications)[n] EXCEPT !.base = b] \in Application
      BY <3>2 DEF Application
    <3> QED
      BY <2>2, <2>5, <3>1, <3>3
  <2>6. CASE /\ Live(remoteSyncs)[n] # NoObject /\ UNCHANGED applications
             /\ \E b \in Base :
                  remoteSyncs' = Write(remoteSyncs, [Live(remoteSyncs) EXCEPT ![n].base = b])
    <3>1. PICK b \in Base :
            remoteSyncs' = Write(remoteSyncs, [Live(remoteSyncs) EXCEPT ![n].base = b])
      BY <2>6
    <3>2. Live(remoteSyncs)[n] \in RemoteSync
      BY <1>l, <2>6 DEF RemoteSyncs
    <3>3. [Live(remoteSyncs)[n] EXCEPT !.base = b] \in RemoteSync
      BY <3>2 DEF RemoteSync
    <3> QED
      BY <2>3, <2>6, <3>1, <3>3
  <2> QED
    BY <1>5, <2>4, <2>5, <2>6 DEF EditPreview
<1>6. ASSUME NEW n \in PullRequests, CollectApplication(n) \/ CollectRemoteSync(n)
      PROVE  Locals' /\ Views'
  <2>1. Views'
    BY <1>0, <1>6, Stored DEF CollectApplication, CollectRemoteSync, Views, Versions
  <2>2. Locals'
    BY <1>0, <1>6 DEF CollectApplication, CollectRemoteSync, Locals, Flags, Plain, queue, locals, budget
  <2> QED
    BY <2>1, <2>2
<1>7. ASSUME NEW s \in Specs, Edit(s) \/ RecreatePipeline(s) PROVE Locals' /\ Views'
  <2>1. Versions(pipeline, AppPipeline)'
    <3>1. [Live(pipeline) EXCEPT !.spec = s] \in AppPipeline
      BY <1>l DEF AppPipeline
    <3>2. CASE Edit(s)
      BY <1>0, <3>1, <3>2, Appended DEF Edit, Views, Versions
    <3>3. CASE RecreatePipeline(s)
      <4>1. Live(pipeline).uid + 1 \in 1..MaxUid
        BY <1>l, <3>3, LimitAssumption DEF AppPipeline, RecreatePipeline
      <4>2. NewPipeline(Live(pipeline).uid + 1, s) \in AppPipeline
        BY <4>1 DEF NewPipeline, AppPipeline, Message
      <4> QED
        BY <1>0, <3>3, <4>2, Appended DEF RecreatePipeline, Views, Versions
    <3> QED
      BY <1>7, <3>2, <3>3
  <2>2. Views'
    BY <1>0, <1>7, <2>1 DEF Edit, RecreatePipeline, Views, Versions
  <2>3. Locals'
    <3>1. Flags'
      BY <1>0, <1>7, Zenon DEF Edit, RecreatePipeline, SpendEvent, Locals, queue, locals, budget, Flags
    <3>2. Plain'
      BY <1>0, <1>7 DEF Edit, RecreatePipeline, SpendEvent, Locals, queue, locals, budget, Plain
    <3> QED
      BY <3>1, <3>2 DEF Locals
  <2> QED
    BY <2>2, <2>3
<1>8. CASE DeletePipeline
  <2>1. [Live(pipeline) EXCEPT !.alive = FALSE] \in AppPipeline
    BY <1>l DEF AppPipeline
  <2>2. Views'
    BY <1>0, <1>8, <2>1, Appended DEF DeletePipeline, Views, Versions
  <2>3. Locals'
    <3>1. Flags'
      BY <1>0, <1>8, Zenon DEF DeletePipeline, SpendEvent, Locals, queue, locals, Flags
    <3>2. Plain'
      BY <1>0, <1>8 DEF DeletePipeline, SpendEvent, Locals, queue, locals, Plain
    <3> QED
      BY <3>1, <3>2 DEF Locals
  <2> QED
    BY <2>2, <2>3
<1>9. CASE WatchPipeline \/ WatchApplications \/ WatchRemoteSyncs
  <2>1. Views'
    BY <1>0, <1>9, Delivered
    DEF WatchPipeline, WatchApplications, WatchRemoteSyncs, Views, Versions
  <2>2. Locals'
    BY <1>0, <1>9
    DEF WatchPipeline, WatchApplications, WatchRemoteSyncs, Locals, Flags, Plain, queue, locals, budget
  <2> QED
    BY <2>1, <2>2
<1>10. CASE Resync \/ RetryTimer
  BY <1>0, <1>10 DEF Resync, RetryTimer, Locals, Flags, Plain, Views, Versions, objects, locals, budget
<1>11. CASE Reconcile
  <2>1. Cached(pipeline).alive => [uid |-> Cached(pipeline).uid, spec |-> Cached(pipeline).spec] \in Work
    BY <1>l DEF AppPipeline, Work
  <2> QED
    BY <1>0, <1>11, <2>1 DEF Reconcile, UpToDate, Locals, Flags, Plain, Views, Versions, objects, budget
<1>12. CASE ListPullRequests
  <2>1. FirstPage(open) \subseteq PullRequests
    BY <1>0 DEF FirstPage, Locals, Flags, Plain
  <2> QED
    BY <1>0, <1>12, <2>1 DEF ListPullRequests, Locals, Flags, Plain, Views, Versions, objects, queue, budget
<1>13. ASSUME NEW n \in PullRequests, PrepareApplication(n) PROVE Locals' /\ Views'
  <2>1. Locals'
    BY <1>0, <1>13 DEF PrepareApplication, Done, Fail, ReplyLost, SpendFault, Locals, Flags, Plain, queue, budget
  <2>2. pl \in Work
    BY <1>0, <1>13 DEF Locals, Flags, Plain, PrepareApplication
  <2>3. \/ UNCHANGED applications
        \/ \E object \in Application :
              applications' = Write(applications, [Live(applications) EXCEPT ![n] = object])
    <3> DEFINE cached == Cached(applications)[n]
               wanted == MutateApplication(IF cached = NoObject THEN NewApplication ELSE cached)
    <3>1. wanted \in Application
      BY <1>l, <2>2, Mutated, New DEF Applications
    <3> QED
      BY <1>13, <3>1 DEF PrepareApplication
  <2>4. Views'
    BY <1>0, <1>13, <2>3, Stored DEF PrepareApplication, Views, Versions
  <2> QED
    BY <2>1, <2>4
<1>14. ASSUME NEW n \in PullRequests, PrepareRemoteSync(n) PROVE Locals' /\ Views'
  <2>1. Locals'
    BY <1>0, <1>14 DEF PrepareRemoteSync, Done, Fail, ReplyLost, SpendFault, Locals, Flags, Plain, queue, budget
  <2>2. pl \in Work
    BY <1>0, <1>14 DEF Locals, Flags, Plain, PrepareRemoteSync
  <2>3. \/ UNCHANGED remoteSyncs
        \/ \E object \in RemoteSync :
              remoteSyncs' = Write(remoteSyncs, [Live(remoteSyncs) EXCEPT ![n] = object])
    <3> DEFINE cached == Cached(remoteSyncs)[n]
               wanted == MutateRemoteSync(IF cached = NoObject THEN NewRemoteSync ELSE cached)
    <3>1. wanted \in RemoteSync
      BY <1>l, <2>2, Mutated, New DEF RemoteSyncs
    <3> QED
      BY <1>14, <3>1 DEF PrepareRemoteSync
  <2>4. Views'
    BY <1>0, <1>14, <2>3, Stored DEF PrepareRemoteSync, Views, Versions
  <2> QED
    BY <2>1, <2>4
<1>15. CASE ListObsoleteApps \/ ListObsoleteRemoteSyncs
  BY <1>0, <1>15
  DEF ListObsoleteApps, ListObsoleteRemoteSyncs, Existing, Locals, Flags, Plain, Views, Versions, objects,
      queue, budget
<1>16. ASSUME NEW n \in PullRequests, DeleteApp(n) \/ DeleteRemoteSync(n) PROVE Locals' /\ Views'
  <2>1. Views'
    BY <1>0, <1>16, Stored DEF DeleteApp, DeleteRemoteSync, Views, Versions
  <2>2. Locals'
    <3>1. Flags'
      BY <1>0, <1>16, Zenon DEF DeleteApp, DeleteRemoteSync, SpendFault, Locals, queue, budget, Flags
    <3>2. Plain'
      BY <1>0, <1>16 DEF DeleteApp, DeleteRemoteSync, SpendFault, Locals, queue, budget, Plain
    <3> QED
      BY <3>1, <3>2 DEF Locals
  <2> QED
    BY <2>1, <2>2
<1>17. CASE AppsPrepared \/ RemoteSyncsPrepared
  BY <1>0, <1>17
  DEF AppsPrepared, RemoteSyncsPrepared, Fail, Locals, Flags, Plain, Views, Versions, objects, queue, budget
<1>18. CASE UpdateStatus
  <2>1. Views'
    BY <1>0, <1>18, MessageStored DEF UpdateStatus, Views, Versions, Message
  <2>2. Locals'
    <3>1. Flags'
      BY <1>0, <1>18, Zenon DEF UpdateStatus, Forget, Fail, SpendFault, Locals, queue, budget, Flags
    <3>2. /\ pc = "status" /\ UNCHANGED <<open, listed>>
          /\ UNCHANGED budget \/ SpendFault
          /\ \/ pc' = "idle" /\ pl' = NoObject /\ list' = {} /\ todo' = {}
             \/ pc' = "error" /\ UNCHANGED <<pl, list, todo>>
      BY <1>18, Zenon DEF UpdateStatus, Forget, Fail
    <3>3. Plain'
      BY <1>0, <3>2 DEF SpendFault, budget, Locals, Plain
    <3> QED
      BY <3>1, <3>3 DEF Locals
  <2> QED
    BY <2>1, <2>2
<1>19. CASE StoreError
  <2>1. Views'
    BY <1>0, <1>19, MessageStored DEF StoreError, Views, Versions, Message
  <2>2. Locals'
    <3>1. Flags'
      BY <1>0, <1>19, Zenon DEF StoreError, Forget, SpendFault, Locals, budget, Flags
    <3>2. Plain'
      BY <1>0, <1>19 DEF StoreError, Forget, SpendFault, Locals, budget, Plain
    <3> QED
      BY <3>1, <3>2 DEF Locals
  <2> QED
    BY <2>1, <2>2
<1>20. CASE CallFails
  BY <1>0, <1>20 DEF CallFails, Fail, SpendFault, Locals, Flags, Plain, Views, Versions, objects, queue
<1>21. CASE Restart
  <2>1. Views'
    BY <1>l, <1>21, Refilled DEF Restart, Views, Versions
  <2>2. Locals'
    <3>1. Flags'
      BY <1>0, <1>21, Zenon DEF Restart, Forget, SpendFault, Locals, Flags
    <3>2. Plain'
      BY <1>0, <1>21 DEF Restart, Forget, SpendFault, Locals, Plain
    <3> QED
      BY <3>1, <3>2 DEF Locals
  <2> QED
    BY <2>1, <2>2
<1>22. CASE UNCHANGED vars
  BY <1>0, <1>22 DEF vars, objects, queue, locals, budget, Locals, Flags, Plain, Views, Versions
<1> QED
  BY <1>1, <1>2, <1>3, <1>4, <1>5, <1>6, <1>7, <1>8, <1>9, <1>10, <1>11, <1>12, <1>13, <1>14,
     <1>15, <1>16, <1>17, <1>18, <1>19, <1>20, <1>21, <1>22 DEF Next, Worker

\* Type correctness holds in every reachable state.
THEOREM TypeCorrect == Spec => []TypeOK
<1>1. Init => TypeOK
  BY InitTypes
<1>2. TypeOK /\ [Next]_vars => TypeOK'
  BY NextTypes
<1> QED
  BY <1>1, <1>2, PTL DEF Spec

-----------------------------------------------------------------------------
(* The invariant                                                           *)

\* An object that the mutate function leaves alone agrees with the AppPipeline.
LEMMA UnchangedAgrees ==
  ASSUME TypeOK, pl \in Work, NEW n \in PullRequests
  PROVE  /\ LET app == Cached(applications)[n]
            IN  app = MutateApplication(IF app = NoObject THEN NewApplication ELSE app)
                  => AppAgrees(pl, n)
         /\ LET sync == Cached(remoteSyncs)[n]
            IN  sync = MutateRemoteSync(IF sync = NoObject THEN NewRemoteSync ELSE sync)
                  => SyncAgrees(pl, n)
<1>1. Cached(applications) \in Applications /\ Cached(remoteSyncs) \in RemoteSyncs
  BY TypeParts, Ends DEF Views
<1>2. ASSUME NEW app, app = Cached(applications)[n],
             app = MutateApplication(IF app = NoObject THEN NewApplication ELSE app)
      PROVE  AppAgrees(pl, n)
  <2>1. PICK object \in Application : app = MutateApplication(object)
    BY <1>1, <1>2, New DEF Applications
  <2>2. app \in Application
    BY <2>1, Mutated
  <2>3. app # NoObject
    BY <2>2, ObjectAssumption
  <2>4. /\ app.owner = pl.uid /\ app.base = pl.spec.base
        /\ \A f \in Field : pl.spec.template[f] # Unset => app.fields[f] = pl.spec.template[f]
    BY <2>1 DEF MutateApplication, Application
  <2> QED
    BY <1>2, <2>3, <2>4 DEF AppAgrees
<1>3. ASSUME NEW sync, sync = Cached(remoteSyncs)[n],
             sync = MutateRemoteSync(IF sync = NoObject THEN NewRemoteSync ELSE sync)
      PROVE  SyncAgrees(pl, n)
  <2>1. PICK object \in RemoteSync : sync = MutateRemoteSync(object)
    BY <1>1, <1>3, New DEF RemoteSyncs
  <2>2. sync \in RemoteSync
    BY <2>1, Mutated
  <2>3. sync # NoObject
    BY <2>2, ObjectAssumption
  <2>4. sync.owner = pl.uid /\ sync.base = pl.spec.base
    BY <2>1 DEF MutateRemoteSync, RemoteSync
  <2> QED
    BY <1>3, <2>3, <2>4 DEF SyncAgrees
<1> QED
  BY <1>2, <1>3

\* Steps of others: they queue the key or put a new version behind the cached
\* one.
LEMMA EnvironmentKeeps ==
  ASSUME IInv, TypeOK', UNCHANGED <<pc, pl, list, todo, failed, listed>>,
         \/ dirty'
         \/ /\ dirty' = dirty /\ retry' = retry
            /\ Grows(pipeline, pipeline')
            /\ Grows(applications, applications')
            /\ Grows(remoteSyncs, remoteSyncs')
  PROVE  IInv'
<1>1. CASE dirty'
  BY <1>1 DEF IInv, ReadInv, AppsInv, SyncsInv, PreviewsSettle, Quiet
<1>2. CASE /\ dirty' = dirty /\ retry' = retry
           /\ Grows(pipeline, pipeline')
           /\ Grows(applications, applications')
           /\ Grows(remoteSyncs, remoteSyncs')
  <2>1. ReadInv'
    BY <1>2 DEF IInv, ReadInv, Grows, Cached
  <2>2. AppsInv'
    <3>1. CASE UpToDate(applications')
      <4>1. UNCHANGED <<pc, dirty, applications, list, todo, pl, failed>>
        BY <1>2, <3>1 DEF Grows
      <4> QED
        BY <4>1 DEF IInv, AppsInv, AppAgrees, Existing, UpToDate, Cached
    <3>2. CASE ~UpToDate(applications')
      BY <3>2 DEF AppsInv, UpToDate
    <3> QED
      BY <3>1, <3>2
  <2>3. SyncsInv'
    <3>1. CASE UpToDate(remoteSyncs')
      <4>1. UNCHANGED <<pc, dirty, remoteSyncs, list, todo, pl, failed>>
        BY <1>2, <3>1 DEF Grows
      <4> QED
        BY <4>1 DEF IInv, SyncsInv, SyncAgrees, Existing, UpToDate, Cached
    <3>2. CASE ~UpToDate(remoteSyncs')
      BY <3>2 DEF SyncsInv, UpToDate
    <3> QED
      BY <3>1, <3>2
  <2>4. PreviewsSettle'
    <3>1. CASE UpToDate(pipeline') /\ UpToDate(applications') /\ UpToDate(remoteSyncs')
      <4>1. UNCHANGED <<pc, dirty, retry, objects, listed>>
        BY <1>2, <3>1 DEF Grows, objects
      <4> QED
        BY <4>1
        DEF IInv, PreviewsSettle, Quiet, AppAgrees, SyncAgrees, Existing, UpToDate, Cached, Live,
            objects
    <3>2. CASE ~(UpToDate(pipeline') /\ UpToDate(applications') /\ UpToDate(remoteSyncs'))
      BY <3>2 DEF PreviewsSettle, Quiet, UpToDate
    <3> QED
      BY <3>1, <3>2
  <2> QED
    BY <2>1, <2>2, <2>3, <2>4 DEF IInv
<1> QED
  BY <1>1, <1>2

\* Calls that fail.
LEMMA ErrorKeeps ==
  ASSUME IInv, TypeOK', pc # "idle", pc' = "error", dirty' = dirty, pl' = pl,
         Grows(pipeline, pipeline')
  PROVE  IInv'
<1>1. ReadInv'
  BY DEF IInv, ReadInv, Grows, Cached
<1>2. AppsInv' /\ SyncsInv' /\ PreviewsSettle'
  BY DEF AppsInv, SyncsInv, PreviewsSettle, Quiet
<1> QED
  BY <1>1, <1>2 DEF IInv

\* The ends of a run that are not the end of the work.
LEMMA IdleKeeps ==
  ASSUME TypeOK', pc' = "idle", dirty' \/ retry'
  PROVE  IInv'
BY DEF IInv, ReadInv, AppsInv, SyncsInv, PreviewsSettle, Quiet

\* Every step of the environment keeps the invariant.
LEMMA EnvironmentSteps ==
  ASSUME IInv, TypeOK',
         \/ \E n \in PullRequests :
              \/ Open(n) \/ Close(n) \/ TouchApplication(n) \/ TouchRemoteSync(n)
              \/ DeletePreview(n) \/ EditPreview(n)
              \/ CollectApplication(n) \/ CollectRemoteSync(n)
         \/ \E s \in Specs : Edit(s) \/ RecreatePipeline(s)
         \/ DeletePipeline \/ WatchPipeline \/ WatchApplications \/ WatchRemoteSyncs
         \/ Resync \/ RetryTimer \/ UNCHANGED vars
  PROVE  IInv'
<1>0. Views /\ Flags
  BY TypeParts DEF IInv, Locals
<1>w. /\ \A object : Grows(pipeline, Write(pipeline, object))
      /\ \A object : Grows(applications, Write(applications, object))
      /\ \A object : Grows(remoteSyncs, Write(remoteSyncs, object))
  BY <1>0, WriteGrows DEF Views
<1>s. /\ Grows(pipeline, pipeline)
      /\ Grows(applications, applications)
      /\ Grows(remoteSyncs, remoteSyncs)
  BY Stays
<1>1. ASSUME NEW n \in PullRequests, Open(n) \/ Close(n) PROVE IInv'
  BY <1>1, <1>s, EnvironmentKeeps DEF Open, Close, objects, queue, locals
<1>2. ASSUME NEW n \in PullRequests, TouchApplication(n) \/ TouchRemoteSync(n) PROVE IInv'
  BY <1>2, <1>w, <1>s, EnvironmentKeeps DEF TouchApplication, TouchRemoteSync, queue, locals
<1>3. ASSUME NEW n \in PullRequests, DeletePreview(n) PROVE IInv'
  BY <1>3, <1>w, <1>s, EnvironmentKeeps DEF DeletePreview, Without, queue, locals
<1>4. ASSUME NEW n \in PullRequests, EditPreview(n) PROVE IInv'
  <2>1. Grows(applications, applications') /\ Grows(remoteSyncs, remoteSyncs')
    BY <1>4, <1>w, <1>s DEF EditPreview
  <2> QED
    BY <1>4, <1>s, <2>1, EnvironmentKeeps DEF EditPreview, queue, locals
<1>5. ASSUME NEW n \in PullRequests, CollectApplication(n) \/ CollectRemoteSync(n) PROVE IInv'
  BY <1>5, <1>w, <1>s, EnvironmentKeeps
  DEF CollectApplication, CollectRemoteSync, Without, queue, locals
<1>6. ASSUME NEW s \in Specs, Edit(s) \/ RecreatePipeline(s) PROVE IInv'
  <2>1. Live(pipeline) \in AppPipeline
    BY <1>0, Ends DEF Views
  <2>2. CASE Edit(s)
    <3>1. [Live(pipeline) EXCEPT !.spec = s] \in AppPipeline
      BY <2>1 DEF AppPipeline
    <3>2. Grows(pipeline, pipeline')
      BY <1>0, <2>2, <3>1, Appended DEF Edit, Views
    <3> QED
      BY <2>2, <1>s, <3>2, EnvironmentKeeps DEF Edit, queue
  <2>3. CASE RecreatePipeline(s)
    <3>1. NewPipeline(Live(pipeline).uid + 1, s) \in AppPipeline
      <4>1. Live(pipeline).uid + 1 \in 1..MaxUid
        BY <2>1, <2>3, LimitAssumption DEF AppPipeline, RecreatePipeline
      <4> QED
        BY <4>1 DEF NewPipeline, AppPipeline, Message
    <3>2. Grows(pipeline, pipeline')
      BY <1>0, <2>3, <3>1, Appended DEF RecreatePipeline, Views
    <3> QED
      BY <2>3, <1>s, <3>2, EnvironmentKeeps DEF RecreatePipeline, queue, locals
  <2> QED
    BY <1>6, <2>2, <2>3
<1>7. CASE DeletePipeline
  <2>1. [Live(pipeline) EXCEPT !.alive = FALSE] \in AppPipeline
    BY <1>0, Ends DEF Views, AppPipeline
  <2>2. Grows(pipeline, pipeline')
    BY <1>0, <1>7, <2>1, Appended DEF DeletePipeline, Views
  <2> QED
    BY <1>7, <1>s, <2>2, EnvironmentKeeps DEF DeletePipeline, queue
<1>8. CASE WatchPipeline \/ WatchApplications \/ WatchRemoteSyncs \/ Resync \/ RetryTimer
  BY <1>8, EnvironmentKeeps
  DEF WatchPipeline, WatchApplications, WatchRemoteSyncs, Resync, RetryTimer, locals
<1>9. CASE UNCHANGED vars
  BY <1>9, <1>s, EnvironmentKeeps DEF vars, objects, queue, locals
<1> QED
  BY <1>1, <1>2, <1>3, <1>4, <1>5, <1>6, <1>7, <1>8, <1>9

\* Every step of the worker keeps the invariant.
LEMMA WorkerSteps ==
  ASSUME IInv, TypeOK', Worker \/ CallFails \/ Restart
  PROVE  IInv'
<1>0. TypeOK /\ Views /\ Flags /\ Plain
  BY TypeParts DEF IInv, Locals
<1>w. /\ \A object : /\ Grows(applications, Write(applications, object))
                     /\ UpToDate(Write(applications, object)) => Live(applications) = object
      /\ \A object : /\ Grows(remoteSyncs, Write(remoteSyncs, object))
                     /\ UpToDate(Write(remoteSyncs, object)) => Live(remoteSyncs) = object
  BY <1>0, WriteGrows DEF Views
<1>s. Grows(pipeline, pipeline)
  BY Stays
<1>e. /\ Live(applications) \in Applications /\ Live(remoteSyncs) \in RemoteSyncs
      /\ UpToDate(pipeline) => Cached(pipeline) = Live(pipeline)
      /\ UpToDate(applications) => Cached(applications) = Live(applications)
      /\ UpToDate(remoteSyncs) => Cached(remoteSyncs) = Live(remoteSyncs)
  BY <1>0, Ends DEF Views
<1>1. CASE Reconcile
  <2>1. CASE Cached(pipeline).alive
    BY <1>1, <2>1
    DEF Reconcile, objects, IInv, ReadInv, AppsInv, SyncsInv, PreviewsSettle, Quiet, Cached
  <2>2. CASE ~Cached(pipeline).alive
    <3>1. ~PreviewsSettle!1' \/ ~UpToDate(pipeline)
      BY <1>1, <1>e, <2>2 DEF Reconcile, objects, Cached, Live, UpToDate
    <3> QED
      BY <1>1, <2>2, <3>1
      DEF Reconcile, objects, IInv, ReadInv, AppsInv, SyncsInv, PreviewsSettle, Quiet, UpToDate
  <2> QED
    BY <2>1, <2>2
<1>2. CASE ListPullRequests
  BY <1>2
  DEF ListPullRequests, objects, queue, IInv, ReadInv, AppsInv, SyncsInv, PreviewsSettle, Quiet,
      Cached
<1>3. ASSUME NEW n \in PullRequests, PrepareApplication(n) PROVE IInv'
  <2> DEFINE cached == Cached(applications)[n]
             wanted == MutateApplication(IF cached = NoObject THEN NewApplication ELSE cached)
  <2>1. CASE Fail /\ UNCHANGED pipeline
    BY <1>3, <1>s, <2>1, ErrorKeeps DEF Fail, PrepareApplication, queue
  <2>2. CASE Done(n) /\ UNCHANGED pipeline
    <3>1. ReadInv'
      BY <1>3, <2>2 DEF PrepareApplication, Done, queue, IInv, ReadInv, Cached
    <3>2. SyncsInv' /\ PreviewsSettle' /\ (pc = "status" => listed = list)'
      BY <1>3, <2>2 DEF PrepareApplication, Done, SyncsInv, PreviewsSettle, Quiet
    <3>3. ASSUME ~dirty, UpToDate(applications')
          PROVE  applications' = applications /\ AppAgrees(pl, n)
      <4>1. pl \in Work
        BY <1>0, <1>3 DEF Plain, PrepareApplication
      <4>2. CASE wanted = cached /\ UNCHANGED applications
        BY <1>0, <4>1, <4>2, UnchangedAgrees
      <4>3. CASE /\ wanted # cached
                 /\ applications' = Write(applications, [Live(applications) EXCEPT ![n] = wanted])
        <5>1. /\ applications' = applications
              /\ Live(applications) = [Live(applications) EXCEPT ![n] = wanted]
          BY <1>w, <3>3, <4>3 DEF Grows
        <5>2. Live(applications)[n] = wanted
          BY <1>e, <5>1 DEF Applications
        <5>3. Live(applications)[n] = cached
          BY <1>e, <3>3, <5>1
        <5> QED
          BY <4>3, <5>2, <5>3
      <4> QED
        <5>1. \/ wanted = cached /\ UNCHANGED applications
              \/ /\ wanted # cached
                 /\ applications' = Write(applications, [Live(applications) EXCEPT ![n] = wanted])
              \/ Fail
          BY <1>3 DEF PrepareApplication
        <5>2. ~Fail
          BY <1>3, <2>2 DEF PrepareApplication, Done, Fail
        <5> QED
          BY <4>2, <4>3, <5>1, <5>2
    <3>4. AppsInv'
      <4>1. CASE dirty \/ ~UpToDate(applications')
        BY <2>2, <4>1 DEF Done, queue, AppsInv, UpToDate
      <4>2. CASE ~dirty /\ UpToDate(applications')
        <5>1. /\ applications' = applications /\ AppAgrees(pl, n)
              /\ pc = "applications" /\ pc' = pc /\ UNCHANGED <<list, pl>> /\ todo' = todo \ {n}
          BY <1>3, <2>2, <3>3, <4>2 DEF PrepareApplication, Done
        <5>2. \A m \in list \ todo : AppAgrees(pl, m)
          BY <4>2, <5>1 DEF IInv, AppsInv
        <5>3. \A m \in list' \ todo' : AppAgrees(pl, m)
          BY <5>1, <5>2
        <5>4. \A m : AppAgrees(pl, m)' <=> AppAgrees(pl, m)
          BY <5>1 DEF AppAgrees, Cached
        <5> QED
          BY <5>1, <5>3, <5>4 DEF AppsInv
      <4> QED
        BY <4>1, <4>2
    <3> QED
      BY <3>1, <3>2, <3>4 DEF IInv
  <2> QED
    BY <1>3, <2>1, <2>2 DEF PrepareApplication, ReplyLost
<1>4. ASSUME NEW n \in PullRequests, PrepareRemoteSync(n) PROVE IInv'
  <2> DEFINE cached == Cached(remoteSyncs)[n]
             wanted == MutateRemoteSync(IF cached = NoObject THEN NewRemoteSync ELSE cached)
  <2>1. CASE Fail /\ UNCHANGED pipeline
    BY <1>4, <1>s, <2>1, ErrorKeeps DEF Fail, PrepareRemoteSync, queue
  <2>2. CASE Done(n) /\ UNCHANGED pipeline
    <3>1. ReadInv'
      BY <1>4, <2>2 DEF PrepareRemoteSync, Done, queue, IInv, ReadInv, Cached
    <3>2. AppsInv'
      BY <1>4, <2>2
      DEF PrepareRemoteSync, Done, queue, IInv, AppsInv, AppAgrees, Existing, UpToDate, Cached
    <3>3. PreviewsSettle' /\ (pc = "status" => listed = list)'
      BY <1>4, <2>2 DEF PrepareRemoteSync, Done, PreviewsSettle, Quiet
    <3>4. ASSUME ~dirty, UpToDate(remoteSyncs')
          PROVE  remoteSyncs' = remoteSyncs /\ SyncAgrees(pl, n)
      <4>1. pl \in Work
        BY <1>0, <1>4 DEF Plain, PrepareRemoteSync
      <4>2. CASE wanted = cached /\ UNCHANGED remoteSyncs
        BY <1>0, <4>1, <4>2, UnchangedAgrees
      <4>3. CASE /\ wanted # cached
                 /\ remoteSyncs' = Write(remoteSyncs, [Live(remoteSyncs) EXCEPT ![n] = wanted])
        <5>1. /\ remoteSyncs' = remoteSyncs
              /\ Live(remoteSyncs) = [Live(remoteSyncs) EXCEPT ![n] = wanted]
          BY <1>w, <3>4, <4>3 DEF Grows
        <5>2. Live(remoteSyncs)[n] = wanted
          BY <1>e, <5>1 DEF RemoteSyncs
        <5>3. Live(remoteSyncs)[n] = cached
          BY <1>e, <3>4, <5>1
        <5> QED
          BY <4>3, <5>2, <5>3
      <4> QED
        <5>1. \/ wanted = cached /\ UNCHANGED remoteSyncs
              \/ /\ wanted # cached
                 /\ remoteSyncs' = Write(remoteSyncs, [Live(remoteSyncs) EXCEPT ![n] = wanted])
              \/ Fail
          BY <1>4 DEF PrepareRemoteSync
        <5>2. ~Fail
          BY <1>4, <2>2 DEF PrepareRemoteSync, Done, Fail
        <5> QED
          BY <4>2, <4>3, <5>1, <5>2
    <3>5. SyncsInv'
      <4>1. CASE dirty \/ ~UpToDate(remoteSyncs')
        BY <2>2, <4>1 DEF Done, queue, SyncsInv, UpToDate
      <4>2. CASE ~dirty /\ UpToDate(remoteSyncs')
        <5>1. /\ remoteSyncs' = remoteSyncs /\ SyncAgrees(pl, n)
              /\ pc = "remoteSyncs" /\ pc' = pc /\ UNCHANGED <<list, pl>> /\ todo' = todo \ {n}
          BY <1>4, <2>2, <3>4, <4>2 DEF PrepareRemoteSync, Done
        <5>2. \A m \in list \ todo : SyncAgrees(pl, m)
          BY <4>2, <5>1 DEF IInv, SyncsInv
        <5>3. \A m \in list' \ todo' : SyncAgrees(pl, m)
          BY <5>1, <5>2
        <5>4. \A m : SyncAgrees(pl, m)' <=> SyncAgrees(pl, m)
          BY <5>1 DEF SyncAgrees, Cached
        <5> QED
          BY <5>1, <5>3, <5>4 DEF SyncsInv
      <4> QED
        BY <4>1, <4>2
    <3> QED
      BY <3>1, <3>2, <3>3, <3>5 DEF IInv
  <2> QED
    BY <1>4, <2>1, <2>2 DEF PrepareRemoteSync, ReplyLost
<1>5. CASE ListObsoleteApps
  <2>1. ReadInv'
    BY <1>5 DEF ListObsoleteApps, objects, queue, IInv, ReadInv, Cached
  <2>2. AppsInv'
    BY <1>5
    DEF ListObsoleteApps, objects, queue, IInv, AppsInv, AppAgrees, Existing, UpToDate, Cached
  <2>3. SyncsInv' /\ PreviewsSettle' /\ (pc = "status" => listed = list)'
    BY <1>5 DEF ListObsoleteApps, SyncsInv, PreviewsSettle, Quiet
  <2> QED
    BY <2>1, <2>2, <2>3 DEF IInv
<1>6. CASE ListObsoleteRemoteSyncs
  <2>1. ReadInv'
    BY <1>6 DEF ListObsoleteRemoteSyncs, objects, queue, IInv, ReadInv, Cached
  <2>2. AppsInv'
    BY <1>6
    DEF ListObsoleteRemoteSyncs, objects, queue, IInv, AppsInv, AppAgrees, Existing, UpToDate,
        Cached
  <2>3. SyncsInv'
    BY <1>6
    DEF ListObsoleteRemoteSyncs, objects, queue, IInv, SyncsInv, SyncAgrees, Existing, UpToDate,
        Cached
  <2>4. PreviewsSettle' /\ (pc = "status" => listed = list)'
    BY <1>6 DEF ListObsoleteRemoteSyncs, PreviewsSettle, Quiet
  <2> QED
    BY <2>1, <2>2, <2>3, <2>4 DEF IInv
<1>7. ASSUME NEW n \in PullRequests, DeleteApp(n) PROVE IInv'
  <2>1. ReadInv'
    BY <1>7 DEF DeleteApp, queue, IInv, ReadInv, Cached
  <2>2. SyncsInv' /\ PreviewsSettle' /\ (pc = "status" => listed = list)'
    BY <1>7 DEF DeleteApp, SyncsInv, PreviewsSettle, Quiet
  <2>3. AppsInv'
    <3>1. CASE dirty \/ ~UpToDate(applications')
      BY <1>7, <3>1 DEF DeleteApp, queue, AppsInv, UpToDate
    <3>2. CASE ~dirty /\ UpToDate(applications')
      <4>1. /\ applications' = applications
            /\ failed' \/ (failed' = failed /\ Cached(applications)[n] = NoObject)
        <5>1. CASE applications' = Without(applications, n)
          <6>1. /\ applications' = applications
                /\ Live(applications) = [Live(applications) EXCEPT ![n] = NoObject]
            BY <1>w, <3>2, <5>1 DEF Grows, Without
          <6>2. Live(applications)[n] = NoObject
            BY <1>e, <6>1 DEF Applications
          <6>3. Cached(applications)[n] = NoObject
            BY <1>e, <3>2, <6>1, <6>2
          <6> QED
            BY <1>7, <6>1, <6>3 DEF DeleteApp
        <5>2. CASE applications' = applications /\ failed'
          BY <5>2
        <5> QED
          BY <1>7, <5>1, <5>2 DEF DeleteApp
      <4>2. /\ pc = "deleteApps" /\ pc' = pc /\ UNCHANGED <<list, pl>> /\ todo' = todo \ {n}
        BY <1>7 DEF DeleteApp
      <4>3. /\ \A m \in list : AppAgrees(pl, m)
            /\ ~failed => Existing(Cached(applications)) \subseteq list \union todo
        BY <3>2, <4>1, <4>2 DEF IInv, AppsInv, UpToDate
      <4>4. ~failed' => Existing(Cached(applications)) \subseteq list \union todo'
        BY <4>1, <4>2, <4>3, <1>0 DEF Existing, Flags
      <4>5. /\ \A m : AppAgrees(pl, m)' <=> AppAgrees(pl, m)
            /\ Existing(Cached(applications))' = Existing(Cached(applications))
        BY <4>1, <4>2 DEF AppAgrees, Existing, Cached
      <4> QED
        BY <4>2, <4>3, <4>4, <4>5 DEF AppsInv
    <3> QED
      BY <3>1, <3>2
  <2> QED
    BY <2>1, <2>2, <2>3 DEF IInv
<1>8. ASSUME NEW n \in PullRequests, DeleteRemoteSync(n) PROVE IInv'
  <2>1. ReadInv'
    BY <1>8 DEF DeleteRemoteSync, queue, IInv, ReadInv, Cached
  <2>2. AppsInv'
    BY <1>8
    DEF DeleteRemoteSync, queue, IInv, AppsInv, AppAgrees, Existing, UpToDate, Cached
  <2>3. PreviewsSettle' /\ (pc = "status" => listed = list)'
    BY <1>8 DEF DeleteRemoteSync, PreviewsSettle, Quiet
  <2>4. SyncsInv'
    <3>1. CASE dirty \/ ~UpToDate(remoteSyncs')
      BY <1>8, <3>1 DEF DeleteRemoteSync, queue, SyncsInv, UpToDate
    <3>2. CASE ~dirty /\ UpToDate(remoteSyncs')
      <4>1. /\ remoteSyncs' = remoteSyncs
            /\ failed' \/ (failed' = failed /\ Cached(remoteSyncs)[n] = NoObject)
        <5>1. CASE remoteSyncs' = Without(remoteSyncs, n)
          <6>1. /\ remoteSyncs' = remoteSyncs
                /\ Live(remoteSyncs) = [Live(remoteSyncs) EXCEPT ![n] = NoObject]
            BY <1>w, <3>2, <5>1 DEF Grows, Without
          <6>2. Live(remoteSyncs)[n] = NoObject
            BY <1>e, <6>1 DEF RemoteSyncs
          <6>3. Cached(remoteSyncs)[n] = NoObject
            BY <1>e, <3>2, <6>1, <6>2
          <6> QED
            BY <1>8, <6>1, <6>3 DEF DeleteRemoteSync
        <5>2. CASE remoteSyncs' = remoteSyncs /\ failed'
          BY <5>2
        <5> QED
          BY <1>8, <5>1, <5>2 DEF DeleteRemoteSync
      <4>2. /\ pc = "deleteRemoteSyncs" /\ pc' = pc /\ UNCHANGED <<list, pl>>
            /\ todo' = todo \ {n}
        BY <1>8 DEF DeleteRemoteSync
      <4>3. /\ \A m \in list : SyncAgrees(pl, m)
            /\ ~failed => Existing(Cached(remoteSyncs)) \subseteq list \union todo
        BY <3>2, <4>1, <4>2 DEF IInv, SyncsInv, UpToDate
      <4>4. ~failed' => Existing(Cached(remoteSyncs)) \subseteq list \union todo'
        BY <4>1, <4>2, <4>3, <1>0 DEF Existing, Flags
      <4>5. /\ \A m : SyncAgrees(pl, m)' <=> SyncAgrees(pl, m)
            /\ Existing(Cached(remoteSyncs))' = Existing(Cached(remoteSyncs))
        BY <4>1, <4>2 DEF SyncAgrees, Existing, Cached
      <4> QED
        BY <4>2, <4>3, <4>4, <4>5 DEF SyncsInv
    <3> QED
      BY <3>1, <3>2
  <2> QED
    BY <2>1, <2>2, <2>3, <2>4 DEF IInv
<1>9. CASE AppsPrepared
  <2>1. CASE failed
    BY <1>9, <1>s, <2>1, ErrorKeeps DEF AppsPrepared, Fail, objects, queue
  <2>2. CASE ~failed
    <3>1. ReadInv'
      BY <1>9, <2>2 DEF AppsPrepared, objects, queue, IInv, ReadInv, Cached
    <3>2. AppsInv'
      BY <1>9, <2>2
      DEF AppsPrepared, objects, queue, IInv, AppsInv, AppAgrees, Existing, UpToDate, Cached
    <3>3. SyncsInv' /\ PreviewsSettle' /\ (pc = "status" => listed = list)'
      BY <1>9, <2>2 DEF AppsPrepared, SyncsInv, PreviewsSettle, Quiet
    <3> QED
      BY <3>1, <3>2, <3>3 DEF IInv
  <2> QED
    BY <2>1, <2>2
<1>10. CASE RemoteSyncsPrepared
  <2>1. CASE failed
    BY <1>10, <1>s, <2>1, ErrorKeeps DEF RemoteSyncsPrepared, Fail, objects, queue
  <2>2. CASE ~failed
    <3>1. ReadInv'
      BY <1>10, <2>2 DEF RemoteSyncsPrepared, objects, queue, IInv, ReadInv, Cached
    <3>2. AppsInv'
      BY <1>10, <2>2
      DEF RemoteSyncsPrepared, objects, queue, IInv, AppsInv, AppAgrees, Existing, UpToDate,
          Cached
    <3>3. SyncsInv'
      BY <1>10, <2>2
      DEF RemoteSyncsPrepared, objects, queue, IInv, SyncsInv, SyncAgrees, Existing, UpToDate,
          Cached
    <3>4. PreviewsSettle' /\ (pc = "status" => listed = list)'
      BY <1>10, <2>2 DEF RemoteSyncsPrepared, PreviewsSettle, Quiet
    <3> QED
      BY <3>1, <3>2, <3>3, <3>4 DEF IInv
  <2> QED
    BY <2>1, <2>2
<1>11. CASE UpdateStatus
  <2>1. /\ Grows(pipeline, pipeline')
        /\ fresh /\ UpToDate(pipeline') => pipeline' = pipeline /\ Live(pipeline).message = ""
    BY <1>0, <1>11, MessageStored DEF UpdateStatus, Views, Message, UpToDate
  <2>2. CASE pc' = "error" /\ UNCHANGED <<dirty, pl>>
    BY <1>11, <2>1, <2>2, ErrorKeeps DEF UpdateStatus
  <2>3. CASE fresh /\ Forget /\ UNCHANGED queue
    <3>1. PreviewsSettle'
      <4>1. CASE Quiet'
        <5>1. /\ ~dirty /\ pipeline' = pipeline /\ Live(pipeline).message = ""
              /\ UNCHANGED <<applications, remoteSyncs, listed>>
              /\ UpToDate(pipeline) /\ UpToDate(applications) /\ UpToDate(remoteSyncs)
              /\ pc = "status"
          BY <1>11, <2>1, <2>3, <4>1 DEF UpdateStatus, Quiet, queue, UpToDate
        <5>2. /\ pl = [uid |-> Live(pipeline).uid, spec |-> Live(pipeline).spec]
              /\ listed = list
              /\ \A n \in list : AppAgrees(pl, n) /\ SyncAgrees(pl, n)
              /\ Existing(Live(applications)) \subseteq list
              /\ Existing(Live(remoteSyncs)) \subseteq list
          BY <1>e, <5>1 DEF IInv, ReadInv, AppsInv, SyncsInv
        <5>3. \A n \in listed : AppAgrees(Live(pipeline), n) /\ SyncAgrees(Live(pipeline), n)
          BY <5>2 DEF AppAgrees, SyncAgrees
        <5>4. listed \subseteq PullRequests
          BY <1>0 DEF Plain
        <5>5. /\ Existing(Live(applications)) = listed
              /\ Existing(Live(remoteSyncs)) = listed
          <6>1. \A n \in listed : Live(applications)[n] # NoObject /\ Live(remoteSyncs)[n] # NoObject
            BY <1>e, <5>1, <5>3 DEF AppAgrees, SyncAgrees
          <6>2. listed \subseteq Existing(Live(applications)) /\ listed \subseteq Existing(Live(remoteSyncs))
            BY <5>4, <6>1 DEF Existing
          <6> QED
            BY <5>2, <6>2
        <5> QED
          BY <5>1, <5>3, <5>5
          DEF PreviewsSettle, AppAgrees, SyncAgrees, Existing, Live, Cached
      <4> QED
        BY <4>1 DEF PreviewsSettle
    <3>2. pc' = "idle"
      BY <2>3 DEF Forget
    <3> QED
      BY <3>1, <3>2 DEF IInv, ReadInv, AppsInv, SyncsInv
  <2> QED
    BY <1>11, <2>2, <2>3 DEF UpdateStatus, Fail, queue
<1>12. CASE StoreError
  BY <1>12, IdleKeeps DEF StoreError, Forget
<1>13. CASE CallFails
  BY <1>13, <1>s, ErrorKeeps DEF CallFails, Fail, objects, queue
<1>14. CASE Restart
  BY <1>14, IdleKeeps DEF Restart, Forget
<1> QED
  BY <1>1, <1>2, <1>3, <1>4, <1>5, <1>6, <1>7, <1>8, <1>9, <1>10, <1>11, <1>12, <1>13, <1>14
  DEF Worker

\* In every reachable state the invariant holds.
THEOREM InvariantHolds == Spec => []IInv
<1>1. Init => IInv
  BY InitTypes DEF Init, IInv, ReadInv, AppsInv, SyncsInv, PreviewsSettle, Quiet
<1>2. IInv /\ [Next]_vars => IInv'
  <2> SUFFICES ASSUME IInv, [Next]_vars PROVE IInv'
    OBVIOUS
  <2>1. TypeOK'
    BY NextTypes DEF IInv
  <2> QED
    BY <2>1, EnvironmentSteps, WorkerSteps DEF Next
<1> QED
  BY <1>1, <1>2, PTL DEF Spec

\* At rest, the previews are those of the live AppPipeline.
THEOREM PreviewsAreSettled == Spec => []PreviewsSettle
<1>1. IInv => PreviewsSettle
  BY DEF IInv
<1> QED
  BY <1>1, InvariantHolds, PTL

-----------------------------------------------------------------------------
(* What others have written                                                *)

\* A stored version is the live one; the writes of CreateOrUpdate are made on
\* the live object.
LEMMA Current ==
  ASSUME TypeOK, NEW n \in PullRequests
  PROVE  /\ Live(applications) \in Applications /\ Live(remoteSyncs) \in RemoteSyncs
         /\ Cached(applications) \in Applications /\ Cached(remoteSyncs) \in RemoteSyncs
         /\ \A objs : Live(Write(applications, objs)) = objs
         /\ \A objs : Live(Write(remoteSyncs, objs)) = objs
         /\ ~Conflict(applications, n) => Cached(applications)[n] = Live(applications)[n]
         /\ ~Conflict(remoteSyncs, n) => Cached(remoteSyncs)[n] = Live(remoteSyncs)[n]
<1>0. Views
  BY TypeParts
<1>1. /\ Len(applications) \in 1..Len(applications)
      /\ Len(remoteSyncs) \in 1..Len(remoteSyncs)
  BY <1>0, Ends DEF Views
<1>2. /\ ~Conflict(applications, n) => Cached(applications)[n] = Live(applications)[n]
      /\ ~Conflict(remoteSyncs, n) => Cached(remoteSyncs)[n] = Live(remoteSyncs)[n]
  BY <1>1 DEF Conflict, Live
<1> QED
  BY <1>0, <1>2, Ends, WriteGrows DEF Views

\* What a step of the worker does to the Applications.
LEMMA ApplicationsChange ==
  ASSUME TypeOK, Worker \/ CallFails
  PROVE  \/ UNCHANGED applications
         \/ \E n \in PullRequests : applications' = Without(applications, n)
         \/ \E n \in PullRequests, object \in Application :
              /\ Live(applications)[n] = NoObject \/ Live(applications)[n] = object
              /\ applications' = Write(applications,
                   [Live(applications) EXCEPT ![n] = MutateApplication(object)])
              /\ Live(applications)[n] = NoObject => object = NewApplication
<1>1. ASSUME NEW n \in PullRequests, PrepareApplication(n), ~UNCHANGED applications
      PROVE  \E object \in Application :
               /\ Live(applications)[n] = NoObject \/ Live(applications)[n] = object
               /\ applications' = Write(applications,
                    [Live(applications) EXCEPT ![n] = MutateApplication(object)])
               /\ Live(applications)[n] = NoObject => object = NewApplication
  <2> DEFINE cached == Cached(applications)[n]
             object == IF cached = NoObject THEN NewApplication ELSE cached
  <2>1. cached = Live(applications)[n] /\ object \in Application
    BY <1>1, Current, New DEF PrepareApplication, Applications
  <2>2. applications' = Write(applications,
                          [Live(applications) EXCEPT ![n] = MutateApplication(object)])
    BY <1>1 DEF PrepareApplication
  <2> QED
    BY <2>1, <2>2
<1>2. \/ UNCHANGED applications
      \/ \E n \in PullRequests : PrepareApplication(n)
      \/ \E n \in PullRequests : applications' = Without(applications, n)
  BY DEF Worker, Reconcile, ListPullRequests, DeleteApp, PrepareRemoteSync, DeleteRemoteSync,
     ListObsoleteApps, AppsPrepared, ListObsoleteRemoteSyncs, RemoteSyncsPrepared,
     UpdateStatus, StoreError, CallFails, objects
<1> QED
  BY <1>1, <1>2

\* And to the RemoteSyncs.
LEMMA RemoteSyncsChange ==
  ASSUME TypeOK, Worker \/ CallFails
  PROVE  \/ UNCHANGED remoteSyncs
         \/ \E n \in PullRequests : remoteSyncs' = Without(remoteSyncs, n)
         \/ \E n \in PullRequests, object \in RemoteSync :
              /\ Live(remoteSyncs)[n] = NoObject \/ Live(remoteSyncs)[n] = object
              /\ remoteSyncs' = Write(remoteSyncs,
                   [Live(remoteSyncs) EXCEPT ![n] = MutateRemoteSync(object)])
              /\ Live(remoteSyncs)[n] = NoObject => object = NewRemoteSync
<1>1. ASSUME NEW n \in PullRequests, PrepareRemoteSync(n), ~UNCHANGED remoteSyncs
      PROVE  \E object \in RemoteSync :
               /\ Live(remoteSyncs)[n] = NoObject \/ Live(remoteSyncs)[n] = object
               /\ remoteSyncs' = Write(remoteSyncs,
                    [Live(remoteSyncs) EXCEPT ![n] = MutateRemoteSync(object)])
               /\ Live(remoteSyncs)[n] = NoObject => object = NewRemoteSync
  <2> DEFINE cached == Cached(remoteSyncs)[n]
             object == IF cached = NoObject THEN NewRemoteSync ELSE cached
  <2>1. cached = Live(remoteSyncs)[n] /\ object \in RemoteSync
    BY <1>1, Current, New DEF PrepareRemoteSync, RemoteSyncs
  <2>2. remoteSyncs' = Write(remoteSyncs,
                         [Live(remoteSyncs) EXCEPT ![n] = MutateRemoteSync(object)])
    BY <1>1 DEF PrepareRemoteSync
  <2> QED
    BY <2>1, <2>2
<1>2. \/ UNCHANGED remoteSyncs
      \/ \E n \in PullRequests : PrepareRemoteSync(n)
      \/ \E n \in PullRequests : remoteSyncs' = Without(remoteSyncs, n)
  BY DEF Worker, Reconcile, ListPullRequests, DeleteRemoteSync, PrepareApplication, DeleteApp,
     ListObsoleteApps, AppsPrepared, ListObsoleteRemoteSyncs, RemoteSyncsPrepared,
     UpdateStatus, StoreError, CallFails, objects
<1> QED
  BY <1>1, <1>2

\* The worker's writes leave the others' parts alone.
LEMMA OthersSurvive ==
  ASSUME TypeOK, [Next]_vars, NEW n \in PullRequests, ~UNCHANGED <<pc, todo>>
  PROVE  /\ OthersKept(Live(applications)[n], Live(applications)'[n])
         /\ OthersKept(Live(remoteSyncs)[n], Live(remoteSyncs)'[n])
<1>1. Worker \/ CallFails \/ Restart
  BY DEF Next, Open, Close, TouchApplication, TouchRemoteSync, DeletePreview, EditPreview,
    CollectApplication, CollectRemoteSync, Edit, RecreatePipeline, DeletePipeline,
    WatchPipeline, WatchApplications, WatchRemoteSyncs, Resync, RetryTimer, vars, locals
<1>e. Live(applications) \in Applications /\ Live(remoteSyncs) \in RemoteSyncs
  BY Current
<1>2. CASE Restart
  BY <1>2, <1>e, Refilled DEF Restart, Live, OthersKept
<1>3. CASE Worker \/ CallFails
  <2>1. OthersKept(Live(applications)[n], Live(applications)'[n])
    <3>1. CASE UNCHANGED applications
      BY <3>1 DEF Live, OthersKept
    <3>2. ASSUME NEW m \in PullRequests, applications' = Without(applications, m)
          PROVE  OthersKept(Live(applications)[n], Live(applications)'[n])
      <4>1. Live(applications)' = [Live(applications) EXCEPT ![m] = NoObject]
        BY <3>2, Current DEF Without, Live
      <4> QED
        BY <1>e, <4>1 DEF Applications, OthersKept
    <3>3. ASSUME NEW m \in PullRequests, NEW object \in Application,
                 Live(applications)[m] = NoObject \/ Live(applications)[m] = object,
                 applications' = Write(applications,
                   [Live(applications) EXCEPT ![m] = MutateApplication(object)])
          PROVE  OthersKept(Live(applications)[n], Live(applications)'[n])
      <4>1. Live(applications)' = [Live(applications) EXCEPT ![m] = MutateApplication(object)]
        BY <3>3, Current DEF Live
      <4>2. MutateApplication(object).others = object.others
        BY DEF MutateApplication, Application
      <4> QED
        BY <1>e, <3>3, <4>1, <4>2 DEF Applications, OthersKept
    <3> QED
      BY <1>3, <3>1, <3>2, <3>3, ApplicationsChange
  <2>2. OthersKept(Live(remoteSyncs)[n], Live(remoteSyncs)'[n])
    <3>1. CASE UNCHANGED remoteSyncs
      BY <3>1 DEF Live, OthersKept
    <3>2. ASSUME NEW m \in PullRequests, remoteSyncs' = Without(remoteSyncs, m)
          PROVE  OthersKept(Live(remoteSyncs)[n], Live(remoteSyncs)'[n])
      <4>1. Live(remoteSyncs)' = [Live(remoteSyncs) EXCEPT ![m] = NoObject]
        BY <3>2, Current DEF Without, Live
      <4> QED
        BY <1>e, <4>1 DEF RemoteSyncs, OthersKept
    <3>3. ASSUME NEW m \in PullRequests, NEW object \in RemoteSync,
                 Live(remoteSyncs)[m] = NoObject \/ Live(remoteSyncs)[m] = object,
                 remoteSyncs' = Write(remoteSyncs,
                   [Live(remoteSyncs) EXCEPT ![m] = MutateRemoteSync(object)])
          PROVE  OthersKept(Live(remoteSyncs)[n], Live(remoteSyncs)'[n])
      <4>1. Live(remoteSyncs)' = [Live(remoteSyncs) EXCEPT ![m] = MutateRemoteSync(object)]
        BY <3>3, Current DEF Live
      <4>2. MutateRemoteSync(object).others = object.others
        BY DEF MutateRemoteSync, RemoteSync
      <4> QED
        BY <1>e, <3>3, <4>1, <4>2 DEF RemoteSyncs, OthersKept
    <3> QED
      BY <1>3, <3>1, <3>2, <3>3, RemoteSyncsChange
  <2> QED
    BY <2>1, <2>2
<1> QED
  BY <1>1, <1>2, <1>3

\* What another controller has stored in a preview survives every write of the
\* pipeline.
THEOREM UpdatesSurvive == Spec => NoLostUpdate
<1>1. TypeOK /\ [Next]_vars =>
        [\A n \in PullRequests :
           \/ UNCHANGED <<pc, todo>>
           \/ /\ OthersKept(Live(applications)[n], Live(applications)'[n])
              /\ OthersKept(Live(remoteSyncs)[n], Live(remoteSyncs)'[n])]_vars
  BY OthersSurvive
<1> QED
  BY <1>1, TypeCorrect, PTL DEF Spec, NoLostUpdate

-----------------------------------------------------------------------------
(* Previews                                                                *)

\* While a loop runs over the previews to make, its pull requests are listed;
\* while one runs over those to delete, none is.
LoopInv ==
  /\ pc \in {"applications", "remoteSyncs"} => todo \subseteq list
  /\ pc \in {"deleteApps", "deleteRemoteSyncs"} => todo \cap list = {}

LEMMA LoopStep ==
  ASSUME TypeOK, LoopInv, [Next]_vars
  PROVE  LoopInv'
<1> USE DEF LoopInv
<1>1. CASE \/ \E n \in PullRequests :
               \/ Open(n) \/ Close(n) \/ TouchApplication(n) \/ TouchRemoteSync(n)
               \/ DeletePreview(n) \/ EditPreview(n)
               \/ CollectApplication(n) \/ CollectRemoteSync(n)
           \/ \E s \in Specs : Edit(s) \/ RecreatePipeline(s)
           \/ DeletePipeline \/ WatchPipeline \/ WatchApplications \/ WatchRemoteSyncs
           \/ Resync \/ RetryTimer \/ UNCHANGED vars
  <2>1. UNCHANGED <<pc, list, todo>>
    BY <1>1
    DEF Open, Close, TouchApplication, TouchRemoteSync, DeletePreview, EditPreview,
      CollectApplication, CollectRemoteSync, Edit, RecreatePipeline, DeletePipeline,
      WatchPipeline, WatchApplications, WatchRemoteSyncs, Resync, RetryTimer, vars, locals
  <2> QED
    BY <2>1
<1>2. ASSUME NEW n \in PullRequests,
             \/ PrepareApplication(n) \/ PrepareRemoteSync(n)
             \/ DeleteApp(n) \/ DeleteRemoteSync(n)
      PROVE  LoopInv'
  <2>1. \/ pc' = "error"
        \/ UNCHANGED <<pc, list>> /\ todo' = todo \ {n}
    BY <1>2
    DEF PrepareApplication, PrepareRemoteSync, DeleteApp, DeleteRemoteSync, Done, ReplyLost, Fail
  <2> QED
    BY <2>1
<1>3. CASE ListPullRequests \/ ListObsoleteApps \/ ListObsoleteRemoteSyncs
  BY <1>3 DEF ListPullRequests, ListObsoleteApps, ListObsoleteRemoteSyncs
<1>4. CASE \/ Reconcile \/ AppsPrepared \/ RemoteSyncsPrepared \/ UpdateStatus
           \/ StoreError \/ CallFails \/ Restart
  <2>1. \/ pc' \in {"idle", "list", "status", "error"}
        \/ pc' = "remoteSyncs" /\ todo' = list /\ list' = list
    BY <1>4
    DEF Reconcile, AppsPrepared, RemoteSyncsPrepared, UpdateStatus, StoreError, CallFails,
        Restart, Forget, Fail
  <2> QED
    BY <2>1
<1> QED
  BY <1>1, <1>2, <1>3, <1>4 DEF Next, Worker

\* The AppPipeline that is followed, and the pull requests held for open.
Following == IF pc \in {"idle", "error"} THEN NoObject ELSE pl
Taken == IF pc \in {"idle", "list", "error"} THEN NoObject ELSE list

\* What Previews does not see.
Hidden ==
  /\ UNCHANGED <<open, pipeline>> /\ Following' = Following /\ Taken' = Taken
  /\ Live(applications)' = Live(applications) /\ Live(remoteSyncs)' = Live(remoteSyncs)

LEMMA HiddenStutters == ASSUME Hidden PROVE UNCHANGED Prev!vars
BY DEF Hidden, Prev!vars, Prev!work, Prev!previews, Following, Taken

\* What is followed or taken is something.
LEMMA WorkExists ==
  ASSUME TypeOK
  PROVE  /\ pc \notin {"idle", "error"} => pl \in Work /\ pl # NoObject
         /\ list # NoObject
BY TypeParts, ObjectAssumption DEF Locals, Plain, Work

\* The template over an Application and a RemoteSync.
LEMMA TemplateOver ==
  ASSUME pc \notin {"idle", "error"}
  PROVE  /\ \A app \in Application :
               MutateApplication(app) = Prev!AppFor(app)
         /\ MutateApplication(NewApplication) = Prev!AppFor(NoObject)
         /\ \A sync \in RemoteSync : MutateRemoteSync(sync) = Prev!SyncFor(sync)
         /\ MutateRemoteSync(NewRemoteSync) = Prev!SyncFor(NoObject)
<1> DEFINE Filled(old) == [f \in Field |->
             IF pl.spec.template[f] # Unset THEN pl.spec.template[f] ELSE old[f]]
           App(old, others) == [owner |-> pl.uid, fields |-> Filled(old),
                                base |-> pl.spec.base, others |-> others]
           Sync(others) == [owner |-> pl.uid, base |-> pl.spec.base, others |-> others]
<1>0. (IF pc \in {"idle", "error"} THEN NoObject ELSE pl) = pl
  OBVIOUS
<1>1. ASSUME NEW app \in Application PROVE MutateApplication(app) = Prev!AppFor(app)
  <2>1. app # NoObject
    BY ObjectAssumption
  <2>2. Prev!AppFor(app) = App(app.fields, app.others)
    BY <1>0, <2>1 DEF Prev!AppFor
  <2>3. MutateApplication(app) = [app EXCEPT !.owner = pl.uid, !.base = pl.spec.base,
                                             !.fields = Filled(app.fields)]
    BY DEF MutateApplication
  <2> HIDE DEF Filled
  <2>4. MutateApplication(app) = App(app.fields, app.others)
    BY <2>3 DEF Application
  <2> QED
    BY <2>2, <2>4
<1>2. MutateApplication(NewApplication) = Prev!AppFor(NoObject)
  <2> DEFINE empty == [f \in Field |-> Unset]
  <2>1. Prev!AppFor(NoObject) = App(empty, 0)
    BY <1>0 DEF Prev!AppFor
  <2>2. MutateApplication(NewApplication)
          = [NewApplication EXCEPT !.owner = pl.uid, !.base = pl.spec.base,
                                   !.fields = Filled(NewApplication.fields)]
    BY DEF MutateApplication
  <2>3. NewApplication = [owner |-> 0, fields |-> empty, base |-> Unset, others |-> 0]
    BY DEF NewApplication
  <2> HIDE DEF Filled, empty
  <2>4. MutateApplication(NewApplication) = App(empty, 0)
    BY <2>2, <2>3
  <2> QED
    BY <2>1, <2>4
<1>3. ASSUME NEW sync \in RemoteSync PROVE MutateRemoteSync(sync) = Prev!SyncFor(sync)
  <2>1. sync # NoObject
    BY ObjectAssumption
  <2>2. Prev!SyncFor(sync) = Sync(sync.others)
    BY <1>0, <2>1 DEF Prev!SyncFor
  <2>3. ASSUME NEW mutated, mutated = MutateRemoteSync(sync)
        PROVE  mutated = Sync(sync.others)
    BY <2>3 DEF MutateRemoteSync, RemoteSync
  <2> QED
    BY <2>2, <2>3
<1>4. MutateRemoteSync(NewRemoteSync) = Prev!SyncFor(NoObject)
  <2>1. Prev!SyncFor(NoObject) = Sync(0)
    BY <1>0 DEF Prev!SyncFor
  <2>2. ASSUME NEW mutated, mutated = MutateRemoteSync(NewRemoteSync)
        PROVE  mutated = Sync(0)
    BY <2>2 DEF MutateRemoteSync, NewRemoteSync
  <2> QED
    BY <2>1, <2>2
<1> QED
  BY <1>1, <1>2, <1>3, <1>4

\* A write to one object of one preview.
LEMMA OneWritten ==
  ASSUME TypeOK, NEW n \in PullRequests, NEW object
  PROVE  /\ /\ applications' = Write(applications, [Live(applications) EXCEPT ![n] = object])
            /\ UNCHANGED remoteSyncs
            => Prev!App(n, object)
         /\ /\ remoteSyncs' = Write(remoteSyncs, [Live(remoteSyncs) EXCEPT ![n] = object])
            /\ UNCHANGED applications
            => Prev!Sync(n, object)
BY Current DEF Prev!App, Prev!Sync, Live

\* GitHub and users of AppPipelines.
LEMMA UsersStep ==
  ASSUME TypeOK,
         \/ \E n \in PullRequests : Open(n) \/ Close(n)
         \/ \E s \in Specs : Edit(s) \/ RecreatePipeline(s)
         \/ DeletePipeline
  PROVE  Prev!Next
<1>0. Live(pipeline) \in AppPipeline
  BY TypeParts, Ends DEF Views
<1>1. ASSUME NEW n \in PullRequests, Open(n) \/ Close(n) PROVE Prev!Next
  <2>1. open' \in SUBSET PullRequests
    BY <1>1, TypeParts DEF Open, Close, Locals, Plain
  <2>2. Prev!OpenOrClose
    BY <1>1, <2>1
    DEF Open, Close, objects, locals, Prev!OpenOrClose, Prev!work, Prev!previews, Live
  <2> QED
    BY <2>2 DEF Prev!Next
<1>2. ASSUME NEW s \in Specs, Edit(s) PROVE Prev!Next
  <2>1. Live(pipeline).alive /\ pipeline' = Append(pipeline, [Live(pipeline) EXCEPT !.spec = s])
    BY <1>2 DEF Edit
  <2>2. ASSUME NEW edited, edited = [Live(pipeline) EXCEPT !.spec = s]
        PROVE  edited = [Live(pipeline) EXCEPT !.alive = TRUE, !.spec = s]
    BY <1>0, <2>1, <2>2 DEF AppPipeline
  <2>3. Prev!Want
    BY <1>2, <2>1, <2>2
    DEF Edit, Prev!Want, Prev!Newest, Prev!work, Prev!previews, Live
  <2> QED
    BY <2>3 DEF Prev!Next
<1>3. CASE DeletePipeline
  <2>1. /\ Live(pipeline).alive /\ Live(pipeline).spec \in Specs
        /\ pipeline' = Append(pipeline, [Live(pipeline) EXCEPT !.alive = FALSE])
    BY <1>0, <1>3 DEF DeletePipeline, AppPipeline
  <2>2. ASSUME NEW deleted, deleted = [Live(pipeline) EXCEPT !.alive = FALSE]
        PROVE  deleted = [Live(pipeline) EXCEPT !.alive = FALSE, !.spec = Live(pipeline).spec]
    BY <1>0, <2>2 DEF AppPipeline
  <2>3. Prev!Want
    BY <1>3, <2>1, <2>2
    DEF DeletePipeline, Prev!Want, Prev!Newest, Prev!work, Prev!previews, Live
  <2> QED
    BY <2>3 DEF Prev!Next
<1>4. ASSUME NEW s \in Specs, RecreatePipeline(s) PROVE Prev!Next
  <2>1. Prev!Want
    BY <1>4
    DEF RecreatePipeline, NewPipeline, locals, Prev!Want, Prev!Created, Prev!Newest, Prev!work,
        Prev!previews, Live
  <2> QED
    BY <2>1 DEF Prev!Next
<1> QED
  BY <1>1, <1>2, <1>3, <1>4

\* The watches and the timers.
LEMMA WatchStep ==
  ASSUME TypeOK,
         \/ WatchPipeline \/ WatchApplications \/ WatchRemoteSyncs
         \/ Resync \/ RetryTimer \/ UNCHANGED vars
  PROVE  [Prev!Next]_(Prev!vars)
<1>0. Views
  BY TypeParts
<1>1. CASE WatchPipeline
  <2>1. Len(pipeline) > 1
    <3>1. Len(pipeline) \in Nat /\ Len(pipeline) >= 1 /\ Len(pipeline) # 1
      BY <1>0, <1>1, Ends DEF WatchPipeline, UpToDate, Views
    <3>2. \A k \in Nat : k >= 1 /\ k # 1 => k > 1
      OBVIOUS
    <3> QED
      BY <3>1, <3>2
  <2>2. Prev!CatchUp
    BY <1>1, <2>1 DEF WatchPipeline, locals, Prev!CatchUp, Prev!work, Prev!previews, Live
  <2> QED
    BY <2>2 DEF Prev!Next
<1>2. CASE WatchApplications \/ WatchRemoteSyncs
  <2>1. /\ Live(applications') = Live(applications) /\ Live(remoteSyncs') = Live(remoteSyncs)
        /\ UNCHANGED <<open, pipeline, pc, pl, list>>
    BY <1>0, <1>2, Delivered DEF WatchApplications, WatchRemoteSyncs, locals, Views
  <2> QED
    BY <2>1, HiddenStutters DEF Hidden, Following, Taken, Live
<1>3. CASE Resync \/ RetryTimer \/ UNCHANGED vars
  <2>1. UNCHANGED <<open, pipeline, applications, remoteSyncs, pc, pl, list>>
    BY <1>3 DEF Resync, RetryTimer, vars, objects, locals
  <2> QED
    BY <2>1, HiddenStutters DEF Hidden, Following, Taken, Live
<1> QED
  BY <1>1, <1>2, <1>3

\* The garbage collector and the other controllers.
LEMMA OthersStep ==
  ASSUME TypeOK, NEW n \in PullRequests,
         \/ TouchApplication(n) \/ TouchRemoteSync(n)
         \/ CollectApplication(n) \/ CollectRemoteSync(n)
  PROVE  Prev!Next
<1>1. CASE TouchApplication(n)
  <2>1. [Live(applications) EXCEPT ![n].others = 1 - @]
          = [Live(applications) EXCEPT ![n] = [Live(applications)[n] EXCEPT !.others = 1 - @]]
    BY Current DEF Applications
  <2>2. Prev!App(n, [Live(applications)[n] EXCEPT !.others = 1 - @])
    BY <1>1, <2>1, OneWritten DEF TouchApplication
  <2>3. Prev!Touch(n)
    BY <1>1, <2>2 DEF TouchApplication, locals, Prev!Touch, Prev!work
  <2> QED
    BY <2>3 DEF Prev!Next
<1>2. CASE TouchRemoteSync(n)
  <2>1. [Live(remoteSyncs) EXCEPT ![n].others = 1 - @]
          = [Live(remoteSyncs) EXCEPT ![n] = [Live(remoteSyncs)[n] EXCEPT !.others = 1 - @]]
    BY Current DEF RemoteSyncs
  <2>2. Prev!Sync(n, [Live(remoteSyncs)[n] EXCEPT !.others = 1 - @])
    BY <1>2, <2>1, OneWritten DEF TouchRemoteSync
  <2>3. Prev!Touch(n)
    BY <1>2, <2>2 DEF TouchRemoteSync, locals, Prev!Touch, Prev!work
  <2> QED
    BY <2>3 DEF Prev!Next
<1>3. CASE CollectApplication(n)
  <2>1. Prev!App(n, NoObject) /\ Prev!Orphan(Live(applications)[n])
    BY <1>3, OneWritten DEF CollectApplication, Without, Orphan, Prev!Orphan, Prev!Newest, Live
  <2>2. Prev!Collect(n)
    BY <1>3, <2>1 DEF CollectApplication, locals, Prev!Collect, Prev!work
  <2> QED
    BY <2>2 DEF Prev!Next
<1>4. CASE CollectRemoteSync(n)
  <2>1. Prev!Sync(n, NoObject) /\ Prev!Orphan(Live(remoteSyncs)[n])
    BY <1>4, OneWritten DEF CollectRemoteSync, Without, Orphan, Prev!Orphan, Prev!Newest, Live
  <2>2. Prev!Collect(n)
    BY <1>4, <2>1 DEF CollectRemoteSync, locals, Prev!Collect, Prev!work
  <2> QED
    BY <2>2 DEF Prev!Next
<1> QED
  BY <1>1, <1>2, <1>3, <1>4

\* Users who write previews.
LEMMA MeddleStep ==
  ASSUME TypeOK, NEW n \in PullRequests, DeletePreview(n) \/ EditPreview(n)
  PROVE  Prev!Meddle(n)
<1>0. UNCHANGED <<open, pipeline, pc, pl, list>>
  BY DEF DeletePreview, EditPreview, locals
<1>1. CASE DeletePreview(n)
  <2>1. Prev!App(n, NoObject) \/ Prev!Sync(n, NoObject)
    BY <1>1, OneWritten DEF DeletePreview, Without
  <2> QED
    BY <1>0, <2>1 DEF Prev!Meddle, Prev!work
<1>2. ASSUME NEW f \in Field, NEW v \in Value, Live(applications)[n] # NoObject,
             UNCHANGED remoteSyncs,
             applications' = Write(applications, [Live(applications) EXCEPT ![n].fields[f] = v])
      PROVE  Prev!Meddle(n)
  <2>1. [Live(applications) EXCEPT ![n].fields[f] = v]
          = [Live(applications) EXCEPT ![n] = [Live(applications)[n] EXCEPT !.fields[f] = v]]
    BY Current DEF Applications
  <2>2. Prev!App(n, [Live(applications)[n] EXCEPT !.fields[f] = v])
    BY <1>2, <2>1, OneWritten
  <2> QED
    BY <1>0, <1>2, <2>2 DEF Prev!Meddle, Prev!work
<1>3. ASSUME NEW b \in Base, Live(applications)[n] # NoObject, UNCHANGED remoteSyncs,
             applications' = Write(applications, [Live(applications) EXCEPT ![n].base = b])
      PROVE  Prev!Meddle(n)
  <2>1. [Live(applications) EXCEPT ![n].base = b]
          = [Live(applications) EXCEPT ![n] = [Live(applications)[n] EXCEPT !.base = b]]
    BY Current DEF Applications
  <2>2. Prev!App(n, [Live(applications)[n] EXCEPT !.base = b])
    BY <1>3, <2>1, OneWritten
  <2> QED
    BY <1>0, <1>3, <2>2 DEF Prev!Meddle, Prev!work
<1>4. ASSUME NEW b \in Base, Live(remoteSyncs)[n] # NoObject, UNCHANGED applications,
             remoteSyncs' = Write(remoteSyncs, [Live(remoteSyncs) EXCEPT ![n].base = b])
      PROVE  Prev!Meddle(n)
  <2>1. [Live(remoteSyncs) EXCEPT ![n].base = b]
          = [Live(remoteSyncs) EXCEPT ![n] = [Live(remoteSyncs)[n] EXCEPT !.base = b]]
    BY Current DEF RemoteSyncs
  <2>2. Prev!Sync(n, [Live(remoteSyncs)[n] EXCEPT !.base = b])
    BY <1>4, <2>1, OneWritten
  <2> QED
    BY <1>0, <1>4, <2>2 DEF Prev!Meddle, Prev!work
<1> QED
  BY <1>1, <1>2, <1>3, <1>4 DEF EditPreview

\* Previews counts as GitHubPipeline does.
LEMMA SameCount == Prev!Cardinality(open) = Cardinality(open)
BY Zenon DEF Prev!Cardinality, Cardinality

\* A page holds open pull requests, and all of them if they fit.
LEMMA Page ==
  ASSUME TypeOK
  PROVE  /\ FirstPage(open) \subseteq open
         /\ Cardinality(open) <= PageSize => FirstPage(open) = open
<1>1. FirstPage(open) \subseteq open
  BY DEF FirstPage
<1>2. ASSUME Cardinality(open) <= PageSize, NEW n \in open PROVE n \in FirstPage(open)
  <2> DEFINE newer == {m \in open : m > n}
  <2>1. open \subseteq Nat /\ IsFiniteSet(open)
    BY PipelineAssumption, TypeParts, FS_Subset DEF Locals, Plain
  <2>2. newer \subseteq open \ {n}
    BY <2>1
  <2>3. IsFiniteSet(open \ {n}) /\ Cardinality(open \ {n}) = Cardinality(open) - 1
    BY <2>1, FS_RemoveElement
  <2>4. IsFiniteSet(newer) /\ Cardinality(newer) <= Cardinality(open \ {n})
    BY <2>2, <2>3, FS_Subset
  <2>5. Cardinality(newer) \in Nat /\ Cardinality(open) \in Nat /\ PageSize \in Nat
    BY <2>1, <2>4, FS_CardinalityType, PipelineAssumption
  <2>6. Cardinality(newer) < PageSize
    BY <1>2, <2>3, <2>4, <2>5
  <2> QED
    BY <2>6 DEF FirstPage
<1> QED
  BY <1>1, <1>2

\* Reconcile begins.
LEMMA FollowStep ==
  ASSUME TypeOK, Reconcile \/ ListPullRequests
  PROVE  [Prev!Next]_(Prev!vars)
<1>1. CASE Reconcile /\ Cached(pipeline).alive
  <2>1. Prev!Follow
    BY <1>1 DEF Reconcile, objects, Prev!Follow, Prev!previews, Cached, Live
  <2> QED
    BY <2>1 DEF Prev!Next
<1>2. CASE Reconcile /\ ~Cached(pipeline).alive
  BY <1>2, HiddenStutters DEF Reconcile, objects, Hidden, Following, Taken, Live
<1>3. CASE ListPullRequests
  <2>1. pl # NoObject
    BY <1>3, WorkExists DEF ListPullRequests
  <2>2. /\ pc = "list" /\ pc' = "applications" /\ list' = FirstPage(open)
        /\ UNCHANGED <<open, pipeline, applications, remoteSyncs, pl>>
    BY <1>3 DEF ListPullRequests, objects
  <2>3. \E page \in SUBSET open :
          (Cardinality(open) <= PageSize => page = open) /\ list' = page
    <3>1. FirstPage(open) \in SUBSET open
      BY Page
    <3> QED
      BY <2>2, <3>1, Page
  <2>4. Prev!List
    BY <2>1, <2>2, <2>3, SameCount DEF Prev!List, Prev!previews, Live
  <2> QED
    BY <2>4 DEF Prev!Next
<1> QED
  BY <1>1, <1>2, <1>3

\* It ends, well or not.
LEMMA Finishes ==
  ASSUME pc' \in {"idle", "error"}, UNCHANGED <<open, applications, remoteSyncs>>,
         \/ UNCHANGED pipeline
         \/ \E m \in Message :
              pipeline' = Append(pipeline, [Live(pipeline) EXCEPT !.message = m])
  PROVE  Prev!Next
<1>1. Prev!Finish
  BY DEF Prev!Finish, Prev!Stop, Prev!Newest, Prev!previews, Live, Message
<1> QED
  BY <1>1 DEF Prev!Next

LEMMA FinishStep ==
  ASSUME TypeOK, UpdateStatus \/ StoreError \/ CallFails
  PROVE  Prev!Next
<1>1. pc' \in {"idle", "error"} /\ UNCHANGED <<open, applications, remoteSyncs>>
  BY DEF UpdateStatus, StoreError, CallFails, Forget, Fail, objects
<1>2. UNCHANGED pipeline \/ \E m \in Message : StoreMessage(m)
  BY DEF UpdateStatus, StoreError, CallFails, objects, Message
<1>3. ASSUME NEW m \in Message, StoreMessage(m)
      PROVE  \/ UNCHANGED pipeline
             \/ pipeline' = Append(pipeline, [Live(pipeline) EXCEPT !.message = m])
  BY <1>3 DEF StoreMessage, Write
<1> QED
  BY <1>1, <1>2, <1>3, Finishes

\* The loops that bring previews to the template.
LEMMA BringStep ==
  ASSUME TypeOK, LoopInv, NEW n \in PullRequests, PrepareApplication(n) \/ PrepareRemoteSync(n)
  PROVE  [Prev!Next]_(Prev!vars)
<1>0. /\ pc \in {"applications", "remoteSyncs"} /\ n \in list /\ list # NoObject
      /\ UNCHANGED <<open, pipeline>>
  BY WorkExists DEF LoopInv, PrepareApplication, PrepareRemoteSync
<1>1. ASSUME Done(n) \/ ReplyLost
      PROVE  UNCHANGED Prev!work \/ Prev!Stop
  BY <1>1 DEF Done, ReplyLost, Fail, Prev!work, Prev!Stop
<1>2. CASE PrepareApplication(n)
  <2> DEFINE cached == Cached(applications)[n]
             wanted == MutateApplication(IF cached = NoObject THEN NewApplication ELSE cached)
  <2>1. CASE wanted = cached /\ Done(n) /\ UNCHANGED applications
    BY <1>0, <1>2, <2>1, HiddenStutters
    DEF PrepareApplication, Done, Hidden, Following, Taken, Live
  <2>2. CASE /\ ~Conflict(applications, n)
             /\ applications' = Write(applications, [Live(applications) EXCEPT ![n] = wanted])
             /\ Done(n) \/ ReplyLost
    <3>1. cached = Live(applications)[n] /\ cached \in Application \union {NoObject}
      BY <2>2, Current DEF Applications
    <3>2. wanted = Prev!AppFor(Live(applications)[n])
      BY <1>0, <3>1, TemplateOver
    <3> HIDE DEF wanted, cached
    <3>3. UNCHANGED remoteSyncs
      BY <1>2 DEF PrepareApplication
    <3>4. Prev!App(n, wanted)
      BY <2>2, <3>3, OneWritten
    <3>5. Prev!Bring(n)
      BY <1>0, <1>1, <2>2, <3>2, <3>4 DEF Prev!Bring
    <3> QED
      BY <3>5 DEF Prev!Next
  <2>3. CASE Fail /\ UNCHANGED applications
    BY <1>0, <1>2, <2>3, Finishes DEF PrepareApplication, Fail
  <2> QED
    BY <1>2, <2>1, <2>2, <2>3 DEF PrepareApplication
<1>3. CASE PrepareRemoteSync(n)
  <2> DEFINE cached == Cached(remoteSyncs)[n]
             wanted == MutateRemoteSync(IF cached = NoObject THEN NewRemoteSync ELSE cached)
  <2>1. CASE wanted = cached /\ Done(n) /\ UNCHANGED remoteSyncs
    BY <1>0, <1>3, <2>1, HiddenStutters
    DEF PrepareRemoteSync, Done, Hidden, Following, Taken, Live
  <2>2. CASE /\ ~Conflict(remoteSyncs, n)
             /\ remoteSyncs' = Write(remoteSyncs, [Live(remoteSyncs) EXCEPT ![n] = wanted])
             /\ Done(n) \/ ReplyLost
    <3>1. cached = Live(remoteSyncs)[n] /\ cached \in RemoteSync \union {NoObject}
      BY <2>2, Current DEF RemoteSyncs
    <3>2. wanted = Prev!SyncFor(Live(remoteSyncs)[n])
      BY <1>0, <3>1, TemplateOver
    <3> HIDE DEF wanted, cached
    <3>3. UNCHANGED applications
      BY <1>3 DEF PrepareRemoteSync
    <3>4. Prev!Sync(n, wanted)
      BY <2>2, <3>3, OneWritten
    <3>5. Prev!Bring(n)
      BY <1>0, <1>1, <2>2, <3>2, <3>4 DEF Prev!Bring
    <3> QED
      BY <3>5 DEF Prev!Next
  <2>3. CASE Fail /\ UNCHANGED remoteSyncs
    BY <1>0, <1>3, <2>3, Finishes DEF PrepareRemoteSync, Fail
  <2> QED
    BY <1>3, <2>1, <2>2, <2>3 DEF PrepareRemoteSync
<1> QED
  BY <1>2, <1>3

\* The loops that delete previews.
LEMMA DropStep ==
  ASSUME TypeOK, LoopInv, NEW n \in PullRequests, DeleteApp(n) \/ DeleteRemoteSync(n)
  PROVE  [Prev!Next]_(Prev!vars)
<1>0. /\ pc \in {"deleteApps", "deleteRemoteSyncs"} /\ n \notin list /\ list # NoObject
      /\ UNCHANGED <<open, pipeline, pc, pl, list>>
  BY WorkExists DEF LoopInv, DeleteApp, DeleteRemoteSync
<1>1. CASE UNCHANGED <<applications, remoteSyncs>>
  BY <1>0, <1>1, HiddenStutters DEF Hidden, Following, Taken, Live
<1>2. ASSUME \/ applications' = Without(applications, n) /\ UNCHANGED remoteSyncs
             \/ remoteSyncs' = Without(remoteSyncs, n) /\ UNCHANGED applications
      PROVE  Prev!Next
  <2>1. Prev!App(n, NoObject) \/ Prev!Sync(n, NoObject)
    BY <1>2, OneWritten DEF Without
  <2>2. Prev!Drop(n)
    BY <1>0, <2>1 DEF Prev!Drop, Prev!work
  <2> QED
    BY <2>2 DEF Prev!Next
<1> QED
  BY <1>1, <1>2 DEF DeleteApp, DeleteRemoteSync

\* From one loop to the next.
LEMMA LoopsStep ==
  ASSUME \/ ListObsoleteApps \/ AppsPrepared
         \/ ListObsoleteRemoteSyncs \/ RemoteSyncsPrepared
  PROVE  [Prev!Next]_(Prev!vars)
<1>0. UNCHANGED <<open, objects>>
  BY DEF ListObsoleteApps, AppsPrepared, ListObsoleteRemoteSyncs, RemoteSyncsPrepared
<1>1. CASE Fail
  BY <1>0, <1>1, Finishes DEF Fail, objects
<1>2. CASE ~Fail
  <2>1. /\ pc \notin {"idle", "list", "error"} /\ pc' \notin {"idle", "list", "error"}
        /\ UNCHANGED <<pl, list>>
    BY <1>2
    DEF ListObsoleteApps, AppsPrepared, ListObsoleteRemoteSyncs, RemoteSyncsPrepared
  <2> QED
    BY <1>0, <2>1, HiddenStutters DEF objects, Hidden, Following, Taken, Live
<1> QED
  BY <1>1, <1>2

\* A crash loses what has not been seen, and nothing else.
LEMMA RestartStep == ASSUME TypeOK, Restart PROVE Prev!Next
<1>1. /\ Live(applications') = Live(applications) /\ Live(remoteSyncs') = Live(remoteSyncs)
      /\ pc' = "idle" /\ UNCHANGED open
  BY TypeParts, Current, Refilled DEF Restart, Forget, Views
<1>2. Prev!Restart
  BY <1>1 DEF Restart, Prev!Restart, Prev!Stop, Prev!Newest, Prev!previews, Live
<1> QED
  BY <1>2 DEF Prev!Next

\* Every step is one that Previews allows.
LEMMA PreviewsStep ==
  ASSUME TypeOK, LoopInv, [Next]_vars
  PROVE  \/ [Prev!Next]_(Prev!vars)
         \/ \E n \in PullRequests :
              (DeletePreview(n) \/ EditPreview(n)) /\ Prev!Meddle(n)
<1>1. CASE \/ \E n \in PullRequests :
               \/ Open(n) \/ Close(n) \/ TouchApplication(n) \/ TouchRemoteSync(n)
               \/ CollectApplication(n) \/ CollectRemoteSync(n)
           \/ \E s \in Specs : Edit(s) \/ RecreatePipeline(s)
           \/ DeletePipeline
  BY <1>1, UsersStep, OthersStep
<1>2. CASE \/ WatchPipeline \/ WatchApplications \/ WatchRemoteSyncs
           \/ Resync \/ RetryTimer \/ UNCHANGED vars
  BY <1>2, WatchStep
<1>3. CASE \E n \in PullRequests : DeletePreview(n) \/ EditPreview(n)
  BY <1>3, MeddleStep
<1>4. CASE Worker \/ CallFails \/ Restart
  BY <1>4, FollowStep, FinishStep, BringStep, DropStep, LoopsStep, RestartStep DEF Worker
<1> QED
  BY <1>1, <1>2, <1>3, <1>4 DEF Next

LEMMA PreviewsInit == Init => Prev!Init /\ LoopInv
<1> SUFFICES ASSUME Init PROVE Prev!Init /\ LoopInv
  OBVIOUS
<1>1. Live(applications) = [n \in PullRequests |-> NoObject]
  BY DEF Init, Live
<1>2. Live(remoteSyncs) = [n \in PullRequests |-> NoObject]
  BY DEF Init, Live
<1>3. \E s \in Specs : pipeline = <<Prev!Created(1, s)>>
  BY DEF Init, NewPipeline, Prev!Created
<1> QED
  BY <1>1, <1>2, <1>3 DEF Init, Prev!Init, LoopInv

LEMMA LoopsHold == Spec => [](TypeOK /\ LoopInv)
<1>1. TypeOK /\ LoopInv /\ [Next]_vars => TypeOK' /\ LoopInv'
  BY NextTypes, LoopStep
<1> QED
  BY <1>1, InitTypes, PreviewsInit, PTL DEF Spec

\* While no user writes previews, the controller does what module Previews
\* says, in spite of stale caches, conflicts, lost replies and crashes.
THEOREM PreviewsImplemented == Spec /\ LeftAlone => Refines
<1>1. /\ TypeOK /\ LoopInv /\ [Next]_vars
      /\ [\A n \in PullRequests : ~DeletePreview(n) /\ ~EditPreview(n)]_vars
      => [Prev!Next]_(Prev!vars)
  <2> SUFFICES ASSUME TypeOK, LoopInv, [Next]_vars,
                      [\A n \in PullRequests : ~DeletePreview(n) /\ ~EditPreview(n)]_vars
               PROVE  [Prev!Next]_(Prev!vars)
    OBVIOUS
  <2>1. CASE UNCHANGED vars
    BY <2>1, WatchStep
  <2> QED
    BY <2>1, PreviewsStep
<1> QED
  BY <1>1, LoopsHold, PreviewsInit, PTL DEF Spec, Refines, Prev!Spec, LeftAlone

\* And what it says of users who do, if they do.
THEOREM PreviewsImplementedWithUsers == Spec => RefinesWithUsers
<1>1. TypeOK /\ LoopInv /\ [Next]_vars =>
        [Prev!Next \/ \E n \in PullRequests : Prev!Meddle(n)]_(Prev!vars)
  BY PreviewsStep
<1> QED
  BY <1>1, LoopsHold, PreviewsInit, PTL DEF Spec, RefinesWithUsers, Prev!SpecWithUsers
=============================================================================
