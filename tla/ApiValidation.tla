----------------------------- MODULE ApiValidation -----------------------------
(***************************************************************************)
(* Defaulting (v1alpha1/defaults.go) and validation (validation/*.go) of   *)
(* API objects, on the trees of ApiObjects.  A plain value is a pair of    *)
(* its field and a number; the numbers of the enumerations are below.      *)
(***************************************************************************)
EXTENDS MasterQuorum, Functions

Num(v)    == v[2]
Opt(r)    == [i \in DOMAIN r |-> Num(r[i])]
One(n, v) == <<<<n, v>>>>

PullPolicies      == 1 .. 3     \* IfNotPresent, Always, Never
Roles             == 1 .. 3     \* data, ingest, master
Master            == 3
SupportedVersions == 1 .. 2     \* of Cassandra: at least 3 and below 4

-----------------------------------------------------------------------------
(* Defaults.  A NodeSelector that is nil becomes an empty map, which a     *)
(* tree does not tell from nil.                                            *)

SetDefaults_ImageSpec(img) ==
  [img EXCEPT !.PullPolicy = IF Num(@) = 0 THEN <<"PullPolicy", 1>> ELSE @]

OrElse(r, n, v) == IF r = <<>> THEN One(n, v) ELSE r

\* Mutant: the number of replicas has no default.
SetDefaults_CassandraClusterNodePoolPlace(np) ==
  [np EXCEPT !.Datacenter = OrElse(@, "Datacenter", 1),
             !.Rack = OrElse(@, "Rack", Num(np.Name))]

SetDefaults_CassandraClusterNodePool(np) ==
  [np EXCEPT !.Datacenter = OrElse(@, "Datacenter", 1),
             !.Rack = OrElse(@, "Rack", Num(np.Name)),
             !.Replicas = OrElse(@, "Replicas", 1)]

SetDefaults_ElasticsearchClusterNodePool(np) ==
  [np EXCEPT !.Replicas = OrElse(@, "Replicas", 1)]

DefaultPool(kind, np) ==
  IF kind = "CassandraCluster" THEN SetDefaults_CassandraClusterNodePool(np)
  ELSE SetDefaults_ElasticsearchClusterNodePool(np)

DefaultSpec(kind, spec) ==
  [spec EXCEPT
     !.NavigatorClusterConfig.PilotImage = SetDefaults_ImageSpec(@),
     !.NodePools = [i \in DOMAIN @ |-> DefaultPool(kind, @[i])],
     !.Image = [i \in DOMAIN @ |-> SetDefaults_ImageSpec(@[i])]]

\* A Pilot has no defaults.
SetObjectDefaults(kind, obj) ==
  IF kind = "Pilot" THEN obj
  ELSE [obj EXCEPT !.Spec = DefaultSpec(kind, @)]

-----------------------------------------------------------------------------
(* Validation.                                                             *)

ValidateImageSpec(img) ==
  /\ Num(img.Tag) # 0 /\ Num(img.Repository) # 0
  /\ Num(img.PullPolicy) \in PullPolicies

ValidateNavigatorClusterConfig(cfg) ==
  /\ ValidateImageSpec(cfg.PilotImage)
  /\ \A u \in Range(cfg.SecurityContext.RunAsUser) : Num(u) >= 0

ValidatePersistenceConfig(cfg) == Num(cfg.Size) > 0

ValidateObjectMeta(meta) == Num(meta.Name) # 0

UniqueNames(pools) ==
  \A i, j \in DOMAIN pools : pools[i].Name = pools[j].Name => i = j

\* ValidateCassandraClusterNodePool drops the errors it finds.
ValidateCassandraClusterSpec(spec) ==
  /\ ValidateNavigatorClusterConfig(spec.NavigatorClusterConfig)
  /\ Num(spec.Version) \in SupportedVersions
  /\ UniqueNames(spec.NodePools)
  /\ \A img \in Range(spec.Image) : ValidateImageSpec(img)

ValidateElasticsearchClusterNodePool(np) ==
  /\ Num(np.Name) # 0
  /\ \A p \in Range(np.Persistence) : ValidatePersistenceConfig(p)
  /\ np.Roles # <<>>
  /\ \A r \in Range(np.Roles) : Num(r) \in Roles
  /\ \A n \in Range(np.Replicas) : Num(n) >= 0

countElasticsearchMasters(pools) ==
  LET masters[i \in 0 .. Len(pools)] ==
        IF i = 0 THEN 0
        ELSE masters[i - 1] + IF \E r \in Range(pools[i].Roles) : Num(r) = Master
                              THEN Num(pools[i].Replicas[1]) ELSE 0
  IN masters[Len(pools)]

ValidateElasticsearchClusterSpec(spec) ==
  /\ ValidateNavigatorClusterConfig(spec.NavigatorClusterConfig)
  /\ \A img \in Range(spec.Image) : ValidateImageSpec(img)
  /\ UniqueNames(spec.NodePools)
  /\ \A np \in Range(spec.NodePools) : ValidateElasticsearchClusterNodePool(np)
  /\ ValidMinimumMasters(Opt(spec.MinimumMasters),
                         countElasticsearchMasters(spec.NodePools))
  /\ Num(spec.Version) # 0

\* Mutant: storage may be changed like the replicas.
ValidatePoolsUpdateStorage(old, new) ==
  \A np \in Range(new), was \in Range(old) : np.Name = was.Name =>
    [np EXCEPT !.Replicas = was.Replicas, !.Persistence = was.Persistence] = was

\* A pool that stays keeps its storage, once it has some, and everything but
\* its replicas.
ValidatePoolsUpdate(old, new) ==
  \A np \in Range(new), was \in Range(old) : np.Name = was.Name =>
    /\ np.Persistence # was.Persistence => was.Persistence = <<>>
    /\ [np EXCEPT !.Replicas = was.Replicas, !.Persistence = was.Persistence]
         = was

ValidateCassandraCluster(obj) ==
  /\ ValidateObjectMeta(obj.ObjectMeta)
  /\ ValidateCassandraClusterSpec(obj.Spec)

ValidateCassandraClusterUpdate(old, new) ==
  /\ ValidateCassandraCluster(new)
  /\ new.Spec.Version = old.Spec.Version
  /\ ValidatePoolsUpdate(old.Spec.NodePools, new.Spec.NodePools)

ValidateElasticsearchCluster(obj) ==
  /\ ValidateObjectMeta(obj.ObjectMeta)
  /\ ValidateElasticsearchClusterSpec(obj.Spec)

ValidateElasticsearchClusterUpdate(old, new) ==
  /\ ValidateElasticsearchCluster(new)
  /\ ValidatePoolsUpdate(old.Spec.NodePools, new.Spec.NodePools)

-----------------------------------------------------------------------------
(* The strategies of pkg/registry/navigator.                               *)

Validate(kind, obj) ==
  CASE kind = "CassandraCluster"     -> ValidateCassandraCluster(obj)
    [] kind = "ElasticsearchCluster" -> ValidateElasticsearchCluster(obj)
    [] OTHER                         -> TRUE

ValidateUpdate(kind, old, new) ==
  CASE kind = "CassandraCluster"     -> ValidateCassandraClusterUpdate(old, new)
    [] kind = "ElasticsearchCluster" -> ValidateElasticsearchClusterUpdate(old, new)
    [] OTHER                         -> TRUE
=============================================================================
