------------------------------- MODULE ApiServer -------------------------------
(***************************************************************************)
(* Navigator's API server, the clients that write one object of it and the *)
(* namespace the object lives in.                                          *)
(*                                                                         *)
(* A request is decoded, defaulted and converted to the internal version,  *)
(* passes the admission plugin of plugin/pkg/admission/namespace/lifecycle *)
(* and then the strategies of pkg/registry, and is stored in v1alpha1.     *)
(* The owner of the object creates, updates and deletes it.  A controller  *)
(* (of clusters) or a pilot (of its Pilot) watches it, and posts its       *)
(* status from a deep copy of what lies in its informer's cache.  The      *)
(* namespace controller empties a namespace that terminates.               *)
(***************************************************************************)
EXTENDS ApiObjects, ApiValidation, FiniteSets

CONSTANTS Scenarios   \* the kind of the object, the bodies its owner submits,
                      \* the number of them, whether a controller posts its
                      \* status, whether the server runs standalone and what
                      \* may happen to the namespace

Clients == {"owner", "controller", "namespaceController"}
Phases  == {"absent", "active", "terminating"}

\* The bodies are objects of the kind: the server decodes no others.
ASSUME ScenariosAssumption ==
  \A s \in Scenarios :
    /\ s.kind \in Kinds /\ s.submissions \in Nat /\ s.ns \in Phases
    /\ \A b \in s.bodies : Shaped4(s.kind, s.kind, b)

VARIABLES
  sc,         \* the scenario
  ns,         \* phase of the namespace
  nsCache,    \* the admission plugin's cache of it, or "unsynced"
  stored,     \* the object in etcd, as a sequence of at most one tree
  req,        \* the request of each client
  read,       \* what the owner last read, and whether that is still stored
  cache,      \* the object in the watching process's informer, and whether
              \* that is still what is stored
  work,       \* the sync in progress: its copy, the cells that the copy shares
              \* with the cached object, whether it is still what is stored
  delivered,  \* history: what the server last sent it
  spec,       \* history: the spec of the last accepted create or update
  status,     \* history: the status of the last accepted create or status update
  left        \* bodies the owner may still submit

serverVars == <<stored, req, spec, status>>
watchVars  == <<cache, work, delivered>>
vars       == <<sc, ns, nsCache, serverVars, watchVars, read, left>>

kind == sc.kind

NoReq    == [op |-> "none", stage |-> "idle", obj |-> <<>>, rev |-> "none",
             steady |-> FALSE, outcome |-> "none"]
NoRead   == [obj |-> <<>>, current |-> FALSE]
NoCache  == [obj |-> <<>>, current |-> FALSE]
NoWork   == [pc |-> "idle", copy |-> <<>>, shared |-> {}, current |-> FALSE]

Init ==
  /\ sc \in Scenarios
  /\ ns = sc.ns
  /\ nsCache = IF sc.nsMoves THEN "unsynced" ELSE ns
  /\ stored = <<>>
  /\ req = [cl \in Clients |-> NoReq]
  /\ read = NoRead
  /\ cache = NoCache /\ work = NoWork /\ delivered = <<>>
  /\ spec = <<>> /\ status = <<>>
  /\ left = sc.submissions

-----------------------------------------------------------------------------
(* The codecs of the server.                                               *)

\* A body or a stored object as the handlers see it: decoded, defaulted and
\* converted to the internal version.
ToInternal(tree) ==
  Convert4(Navigator, kind, SetObjectDefaults(kind, tree))

\* An object of the internal version as it is stored and sent.
FromInternal(obj) == Convert4(V1alpha1, kind, obj)

\* The items of a list as they are sent.
FromInternalList(objs) ==
  Convert5(V1alpha1, ListOf[kind],
           [ListMeta |-> <<"ListMeta", 1>>, Items |-> objs]).Items

-----------------------------------------------------------------------------
(* Requests.                                                               *)

\* A request, with the body it carries and where the body's resourceVersion is
\* from.  A server without admission control goes straight to the storage.
Send(cl, op, body, rev) ==
  /\ req[cl].stage = "idle"
  /\ req' = [req EXCEPT ![cl] =
       [NoReq EXCEPT !.op = op, !.rev = rev, !.steady = (ns = "active"),
                     !.stage = IF sc.standalone THEN "store" ELSE "admit",
                     !.obj = body]]

Goto(cl, stage)   == req' = [req EXCEPT ![cl].stage = stage]
Answer(cl, reply) == req' = [req EXCEPT ![cl].stage = "done",
                                        ![cl].outcome = reply]

\* Mutant: nothing may change in a namespace that terminates.
AdmittedNothing(cl, phase) ==
  IF phase = "terminating" THEN Answer(cl, "forbidden") ELSE Goto(cl, "store")

\* The last lines of Admit, with the phase that was found.
Admitted(cl, phase) ==
  IF req[cl].op = "create" /\ phase = "terminating"
  THEN Answer(cl, "forbidden") ELSE Goto(cl, "store")

AdmitLeaves == UNCHANGED <<sc, ns, nsCache, stored, spec, status, watchVars,
                           read, left>>

\* The cache is asked, once more after a while for a create, and then the API
\* server of Kubernetes.  A request waits for the cache to fill, and fails when
\* that takes too long.
AdmitNotReady(cl) ==
  /\ req[cl].stage = "admit" /\ nsCache = "unsynced"
  /\ Answer(cl, "notReady")
  /\ AdmitLeaves

AdmitCached(cl) ==
  /\ req[cl].stage = "admit" /\ nsCache # "unsynced"
  /\ CASE nsCache # "absent"        -> Admitted(cl, nsCache)
       [] nsCache = "absent" /\ req[cl].op = "create" -> Goto(cl, "wait")
       [] OTHER                     -> Goto(cl, "live")
  /\ AdmitLeaves

\* Mutant: a namespace that is still not in the cache does not exist.
AdmitWaitedOnly(cl) ==
  /\ req[cl].stage = "wait"
  /\ IF nsCache # "absent" THEN Admitted(cl, nsCache) ELSE Answer(cl, "noNamespace")
  /\ AdmitLeaves

AdmitWaited(cl) ==
  /\ req[cl].stage = "wait"
  /\ IF nsCache # "absent" THEN Admitted(cl, nsCache) ELSE Goto(cl, "live")
  /\ AdmitLeaves

AdmitLive(cl) ==
  /\ req[cl].stage = "live"
  /\ IF ns # "absent" THEN Admitted(cl, ns) ELSE Answer(cl, "noNamespace")
  /\ AdmitLeaves

AdmitLiveFails(cl) ==
  /\ req[cl].stage = "live"
  /\ Answer(cl, "internalError")
  /\ AdmitLeaves

\* Every copy of the object is out of date when it is written.
Write(objs) ==
  /\ stored' = objs
  /\ read' = [read EXCEPT !.current = FALSE]
  /\ cache' = [cache EXCEPT !.current = FALSE]
  /\ work' = [work EXCEPT !.current = FALSE]

Refuse(cl, reply) ==
  /\ Answer(cl, reply)
  /\ UNCHANGED <<stored, spec, status, read, cache, work>>

StoreLeaves == UNCHANGED <<sc, ns, nsCache, delivered, left>>

StoreCreate(cl) ==
  LET body == req[cl].obj[1]
      new  == ToInternal(body) IN
  /\ req[cl].stage = "store" /\ req[cl].op = "create"
  /\ IF stored = <<>> /\ Validate(kind, new)
     THEN /\ Write(<<FromInternal(new)>>) /\ Answer(cl, "ok")
          /\ spec' = body.Spec /\ status' = body.Status
     ELSE Refuse(cl, "refused")
  /\ StoreLeaves

\* Mutant: a body without a resourceVersion overwrites what is stored.
AllowUnconditionalUpdateAlways == TRUE

AllowUnconditionalUpdate == FALSE

\* The body carries the resourceVersion of what is stored.
Current(cl) ==
  CASE req[cl].rev = "none"  -> AllowUnconditionalUpdate
    [] req[cl].rev = "read"  -> read.current
    [] req[cl].rev = "cache" -> work.current

StoreUpdate(cl) ==
  LET body == req[cl].obj[1]
      new  == ToInternal(body) IN
  /\ req[cl].stage = "store" /\ req[cl].op = "update"
  /\ IF stored # <<>> /\ Current(cl)
        /\ ValidateUpdate(kind, ToInternal(stored[1]), new)
     THEN /\ Write(<<FromInternal(new)>>) /\ Answer(cl, "ok")
          /\ spec' = body.Spec /\ UNCHANGED status
     ELSE Refuse(cl, "refused")
  /\ StoreLeaves

\* The strategy for the status subresource puts the stored spec back.
PrepareForStatusUpdate(old, new) == [new EXCEPT !.Spec = old.Spec]

StoreStatus(cl) ==
  LET body == req[cl].obj[1] IN
  /\ req[cl].stage = "store" /\ req[cl].op = "status"
  /\ IF stored # <<>> /\ Current(cl)
     THEN /\ Write(<<FromInternal(PrepareForStatusUpdate(
                       ToInternal(stored[1]), ToInternal(body)))>>)
          /\ Answer(cl, "ok")
          /\ status' = body.Status /\ UNCHANGED spec
     ELSE Refuse(cl, "refused")
  /\ StoreLeaves

StoreDelete(cl) ==
  /\ req[cl].stage = "store" /\ req[cl].op = "delete"
  /\ IF stored # <<>>
     THEN /\ Write(<<>>) /\ Answer(cl, "ok") /\ spec' = <<>> /\ status' = <<>>
     ELSE Refuse(cl, "refused")
  /\ StoreLeaves

Handle(cl) ==
  \/ AdmitNotReady(cl) \/ AdmitCached(cl) \/ AdmitWaited(cl) \/ AdmitLive(cl)
  \/ AdmitLiveFails(cl)
  \/ StoreCreate(cl) \/ StoreUpdate(cl) \/ StoreStatus(cl) \/ StoreDelete(cl)

\* The client takes the answer.
Return(cl) ==
  /\ cl # "controller" /\ req[cl].stage = "done"
  /\ req' = [req EXCEPT ![cl] = NoReq]
  /\ UNCHANGED <<sc, ns, nsCache, stored, spec, status, watchVars, read, left>>

-----------------------------------------------------------------------------
(* The owner of the object.                                                *)

OwnerLeaves == UNCHANGED <<sc, ns, nsCache, stored, spec, status, watchVars>>

Read ==
  /\ req["owner"].stage = "idle" /\ stored # <<>> /\ ~read.current
  /\ read' = [obj |-> <<FromInternal(ToInternal(stored[1]))>>, current |-> TRUE]
  /\ OwnerLeaves /\ UNCHANGED <<req, left>>

\* Where the namespace moves, the owner never tires.
Spent == IF sc.nsMoves THEN left ELSE left - 1

SubmitCreate ==
  /\ left > 0
  /\ \E b \in sc.bodies : Send("owner", "create", <<b>>, "none")
  /\ left' = Spent
  /\ OwnerLeaves /\ UNCHANGED read

\* An edit of what was read, or a body from a file, without a resourceVersion.
SubmitUpdate ==
  /\ left > 0 /\ read.obj # <<>>
  /\ \E b \in sc.bodies :
       \/ Send("owner", "update", <<[read.obj[1] EXCEPT !.Spec = b.Spec]>>, "read")
       \/ Send("owner", "update", <<b>>, "none")
  /\ left' = Spent
  /\ OwnerLeaves /\ UNCHANGED read

SubmitDelete ==
  /\ left > 0
  /\ Send("owner", "delete", <<>>, "none")
  /\ left' = Spent
  /\ OwnerLeaves /\ UNCHANGED read

-----------------------------------------------------------------------------
(* The namespace.                                                          *)

\* A request does not meet one namespace throughout when the namespace moves.
NsMoves(phase) ==
  /\ sc.nsMoves
  /\ ns' = phase
  /\ req' = [cl \in Clients |-> [req[cl] EXCEPT !.steady = FALSE]]
  /\ UNCHANGED <<sc, nsCache, stored, spec, status, watchVars, read, left>>

CreateNamespace == ns = "absent" /\ NsMoves("active")
DeleteNamespace == ns = "active" /\ NsMoves("terminating")

\* The namespace controller of Kubernetes deletes what it finds.
Finalise        == ns = "terminating" /\ stored = <<>> /\ NsMoves("absent")

EmptyNamespace ==
  /\ ns = "terminating" /\ stored # <<>>
  /\ Send("namespaceController", "delete", <<>>, "none")
  /\ UNCHANGED <<sc, ns, nsCache, stored, spec, status, watchVars, read, left>>

NsObserve ==
  /\ nsCache # ns
  /\ nsCache' = ns
  /\ UNCHANGED <<sc, ns, serverVars, watchVars, read, left>>

-----------------------------------------------------------------------------
(* The process that watches the object: a controller of clusters, or the   *)
(* pilot the object is for.                                                *)

WatchLeaves == UNCHANGED <<sc, ns, nsCache, stored, spec, status, read, left>>

\* What a sync shared with the object that is replaced it shares with no other.
Deliver(objs) ==
  /\ delivered' = objs
  /\ cache' = [obj |-> objs, current |-> objs # <<>>]
  /\ work' = [work EXCEPT !.shared = {}]
  /\ WatchLeaves /\ UNCHANGED req

Outdated == sc.controller /\ ~cache.current /\ (stored # <<>> \/ cache.obj # <<>>)

Watch == Outdated /\ Deliver([i \in DOMAIN stored |->
                                 FromInternal(ToInternal(stored[i]))])

\* After a watch that ended, everything is listed again.
List  == Outdated /\ Deliver(FromInternalList([i \in DOMAIN stored |->
                                                 ToInternal(stored[i])]))

BeginSync ==
  /\ work.pc = "idle" /\ cache.obj # <<>>
  /\ work' = [pc |-> "copied", copy |-> cache.obj,
              shared |-> SharedCells[kind],
              current |-> cache.current]
  /\ WatchLeaves /\ UNCHANGED <<req, cache, delivered>>

-----------------------------------------------------------------------------
(* A sync on m, the copy with what it shares and the cached object.        *)

\* A write to a cell changes the cached object too if they share the cell.
In(m, cell, Put(_)) ==
  [m EXCEPT !.copy = Put(@),
            !.cached = IF cell \in m.shared THEN [i \in DOMAIN @ |-> Put(@[i])]
                       ELSE @]

\* Memory that the copy got in place of a cell is its own.
Own(m, cell) ==
  [m EXCEPT !.shared = {c \in @ : Len(c) < Len(cell)
                                  \/ SubSeq(c, 1, Len(cell)) # cell}]

True  == 1
False == 2
Now   == 2   \* a later time than any in a body

Condition(type, val, time, reason) ==
  [Type |-> <<"Type", type>>, Status |-> <<"Status", val>>,
   LastTransitionTime |-> time, Reason |-> <<"Reason", reason>>,
   Message |-> <<"Message", reason>>]

\* A condition of the type is replaced, and with others there but none of the
\* type, nothing happens.
WithCondition(list, type, val, reason) ==
  LET now  == <<"LastTransitionTime", Now>>
      Mine == {i \in DOMAIN list : Num(list[i].Type) = type}
      i    == CHOOSE i \in Mine : \A j \in Mine : i <= j
      time == IF Num(list[i].Status) # val THEN now ELSE list[i].LastTransitionTime
  IN CASE list = <<>> -> <<Condition(type, val, now, reason)>>
       [] Mine # {}   -> [list EXCEPT ![i] = Condition(type, val, time, reason)]
       [] OTHER       -> list

Progressing == 1
Paused      == 1
Resumed     == 2
Started        == 1
ProcessStarted == 1

\* UpdateStatusCondition puts the first condition in a new list and replaces
\* another in place.
UpdateClusterCondition(m, val, reason) ==
  LET path   == <<"Status", "NavigatorClusterStatus", "Conditions">>
      Put(o) == [o EXCEPT !.Status.NavigatorClusterStatus.Conditions =
                            WithCondition(@, Progressing, val, reason)]
  IN IF m.copy.Status.NavigatorClusterStatus.Conditions = <<>>
     THEN Own(In(m, <<>>, Put), path) ELSE In(m, path, Put)

UpdatePilotCondition(m, val, reason) ==
  LET path   == <<"Status", "Conditions">>
      Put(o) == [o EXCEPT !.Status.Conditions = WithCondition(@, Started, val, reason)]
  IN IF m.copy.Status.Conditions = <<>>
     THEN Own(In(m, <<>>, Put), path) ELSE In(m, path, Put)

isPaused(o) == Num(o.Spec.NavigatorClusterConfig.Paused) # 0

syncPausedConditions(m) ==
  LET pausedCondExists ==
        \E c \in Range(m.copy.Status.NavigatorClusterStatus.Conditions) :
          Num(c.Type) = Progressing /\ Num(c.Reason) = Paused
  IN CASE isPaused(m.copy) /\ ~pausedCondExists ->
            UpdateClusterCondition(m, False, Paused)
       [] ~isPaused(m.copy) /\ pausedCondExists ->
            UpdateClusterCondition(m, True, Resumed)
       [] OTHER -> m

\* There is no stateful set yet, or the one of the pool has another number of
\* ready pods.
Readiness == {<<>>, <<[ReadyReplicas |-> <<"ReadyReplicas", 2>>]>>}

\* The Cassandra controller puts a new map in its copy.
CassandraSync(m, ready) ==
  LET c      == syncPausedConditions(m)
      Put(o) == [o EXCEPT !.Status.NodePools = ready]
  IN IF isPaused(c.copy) THEN c ELSE In(c, <<>>, Put)

\* The Elasticsearch controller returns the status before it updates the map of
\* the pools, which is in the returned status only if there was one.  What it
\* returned goes in another copy of the cached object.
ElasticsearchSync(m, ready) ==
  LET c      == syncPausedConditions(m)
      Put(o) == [o EXCEPT !.Status.NodePools = ready]
  IN IF isPaused(c.copy) \/ c.copy.Status.NodePools = <<>> \/ ready = <<>>
     THEN c ELSE In(c, <<"Status", "NodePools">>, Put)

\* syncFunc of a pilot for Elasticsearch.  The documents are unknown unless the
\* node tells them; the version stays when the node does not tell it.
ElasticsearchStatuses(m) ==
  LET cell   == <<"Status", "Elasticsearch">>
      New(o) == [o EXCEPT !.Status.Elasticsearch =
                            <<[Documents |-> <<>>, Version |-> <<>>]>>]
      Unknown(o) == [o EXCEPT !.Status.Elasticsearch[1].Documents = <<>>]
      Told(o)    == [o EXCEPT !.Status.Elasticsearch[1].Documents = One("Documents", 2)]
      Version(o) == [o EXCEPT !.Status.Elasticsearch[1].Version = One("Version", 2)]
      e == In(IF m.copy.Status.Elasticsearch # <<>> THEN m
              ELSE Own(In(m, <<>>, New), cell), cell, Unknown)
      d == In(e, cell, Told)
  IN {e, In(e, cell, Version), d, In(d, cell, Version)}

\* syncFunc of a pilot for Cassandra.
CassandraStatuses(m) ==
  LET cell   == <<"Status", "Cassandra">>
      New(o) == [o EXCEPT !.Status.Cassandra = <<[Version |-> <<>>]>>]
      Put(o, v) == [o EXCEPT !.Status.Cassandra[1].Version = v]
      e == IF m.copy.Status.Cassandra # <<>> THEN m ELSE Own(In(m, <<>>, New), cell)
  IN {In(e, cell, LAMBDA o : Put(o, v)) : v \in {<<>>, One("Version", 2)}}

\* updatePilotStatus, after a sync that failed early or ran to its end.
PilotSync(m) ==
  LET sync == {m} \cup (IF sc.database = "Cassandra" THEN CassandraStatuses(m)
                        ELSE ElasticsearchStatuses(m))
  IN {UpdatePilotCondition(s, True, ProcessStarted) : s \in sync}
       \cup {UpdatePilotCondition(s, False, 0) : s \in sync}

Synced(m) ==
  CASE kind = "CassandraCluster"     -> {CassandraSync(m, n) : n \in Readiness}
    [] kind = "ElasticsearchCluster" -> {ElasticsearchSync(m, n) : n \in Readiness}
    [] kind = "Pilot"                -> PilotSync(m)

Sync ==
  /\ work.pc = "copied"
  /\ \E m \in Synced([copy |-> work.copy[1], shared |-> work.shared,
                      cached |-> cache.obj]) :
       /\ cache' = [cache EXCEPT !.obj = m.cached]
       /\ Send("controller", "status", <<m.copy>>, "cache")
  /\ work' = [work EXCEPT !.pc = "sent", !.copy = <<>>, !.shared = {}]
  /\ WatchLeaves /\ UNCHANGED delivered

FinishSync ==
  /\ req["controller"].stage = "done"
  /\ req' = [req EXCEPT !["controller"] = NoReq]
  /\ work' = NoWork
  /\ WatchLeaves /\ UNCHANGED <<cache, delivered>>

-----------------------------------------------------------------------------
Next ==
  \/ \E cl \in Clients : Handle(cl) \/ Return(cl)
  \/ Read \/ SubmitCreate \/ SubmitUpdate \/ SubmitDelete
  \/ CreateNamespace \/ DeleteNamespace \/ Finalise \/ EmptyNamespace \/ NsObserve
  \/ Watch \/ List \/ BeginSync \/ Sync \/ FinishSync

Spec == Init /\ [][Next]_vars

\* The namespace controller, with the server's answers to it.
NamespaceController ==
  LET cl == "namespaceController"
  IN Finalise \/ EmptyNamespace \/ Return(cl) \/ Handle(cl)

\* The namespace controller does not give up and is answered, and the informer
\* of the namespaces catches up.
FairSpec == Spec /\ WF_vars(NamespaceController) /\ WF_vars(NsObserve)

-----------------------------------------------------------------------------
(* Properties.                                                             *)

\* Objects are of their kind's type and requests at a stage that exists: no
\* conversion moves a value to another field (unsafe.Pointer casts in
\* zz_generated.conversion.go).
TypeOK ==
  /\ ns \in Phases /\ nsCache \in Phases \cup {"unsynced"}
  /\ Len(stored) <= 1 /\ left \in Nat
  /\ \A cl \in Clients :
       /\ req[cl].op \in {"none", "create", "update", "status", "delete"}
       /\ req[cl].stage \in {"idle", "admit", "wait", "live", "store", "done"}
       /\ req[cl].outcome \in {"none", "ok", "refused", "forbidden", "notReady",
                               "noNamespace", "internalError"}
  /\ work.pc \in {"idle", "copied", "sent"}
  /\ \A obj \in Range(stored) \cup Range(delivered) : Shaped4(kind, kind, obj)

\* The spec that is stored, and the one in an informer's cache that is up to
\* date, have every value of the last accepted body, in every field: nothing is
\* lost between the versions on the way in, to etcd, by a status update, or
\* out in a watch event or a list (zz_generated.conversion.go).
SpecAsSubmitted ==
  /\ stored # <<>> => Holds3(SpecType[kind], spec, stored[1].Spec)
  /\ cache.current => Holds3(SpecType[kind], spec, delivered[1].Spec)

\* The status that is stored is the one that was last reported: an edit of the
\* spec that started from an older object is refused, never stored with its old
\* status (AllowUnconditionalUpdate in pkg/registry).
StatusAsReported == stored # <<>> => stored[1].Status = status

\* A sync changes nothing in its informer's cache (cassandra.go, sync;
\* cluster_control.go, Sync; genericpilot/controller.go, updatePilotStatus), and
\* its copy shares no memory with the cached object (zz_generated.deepcopy.go):
\* whatever field of it a controller comes to write, other readers of the cache
\* are not disturbed.
CacheAsDelivered == cache.obj = delivered /\ work.shared = {}

PoolsOf(obj) == IF kind = "Pilot" THEN <<>> ELSE obj.Spec.NodePools

\* A controller that follows np.Replicas without a look never meets nil: every
\* pool it is sent has replicas, whoever wrote the cluster and however.
ReplicasKnown ==
  \A obj \in Range(delivered) : \A np \in Range(PoolsOf(obj)) : np.Replicas # <<>>

\* With the minimum_master_nodes that the controller computes from an accepted
\* cluster, two disjoint sets of its masters never both elect, and all of them
\* together do.
SplitBrainExcluded ==
  kind = "ElasticsearchCluster" => \A obj \in Range(stored) :
    LET masters == countElasticsearchMasters(obj.Spec.NodePools)
        minimum == MinimumMasterNodes(Opt(obj.Spec.MinimumMasters), masters)
        Electing == {S \in SUBSET (1 .. masters) : Cardinality(S) >= minimum}
    IN /\ 1 .. masters \in Electing
       /\ \A S, T \in Electing : S \cap T # {}

\* A create is not refused for want of a namespace that was there all along,
\* however far the plugin's cache is behind (lifecycle/admission.go, Admit).
NamespaceFound ==
  \A cl \in Clients : req[cl].steady => req[cl].outcome # "noNamespace"

\* While an object is stored, no write takes a pool's storage, rack, datacenter
\* or roles away from it (ValidateCassandraClusterUpdate and
\* ValidateElasticsearchClusterUpdate; the status strategies do not validate).
PoolsKeepTheirPlace ==
  [][stored # <<>> /\ stored' # <<>> =>
       \A was \in Range(PoolsOf(stored[1])), np \in Range(PoolsOf(stored'[1])) :
         np.Name = was.Name =>
           /\ was.Persistence \in {<<>>, np.Persistence}
           /\ \A f \in DOMAIN was \ {"Replicas", "Persistence"} : np[f] = was[f]]_vars

\* A namespace that terminates is gone some day, although its owner never stops
\* to create: creates end when the plugin sees the phase, deletes never do.
TerminationCompletes == ns = "terminating" ~> ns # "terminating"
=============================================================================
