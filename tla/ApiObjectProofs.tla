---------------------------- MODULE ApiObjectProofs ----------------------------
(***************************************************************************)
(* What the API server's operators on objects do, for objects of every     *)
(* size: the conversions between v1alpha1 and the internal version lose    *)
(* nothing, defaulting keeps the shape of an object and sets its replicas, *)
(* an object the codecs accept survives them, and a deep copy shares no    *)
(* cell with what it copies.                                               *)
(***************************************************************************)
EXTENDS ApiObjects, ApiValidation, TLAPS

\* A table made of two disjoint ones has the rows of both.
LEMMA Merged ==
  ASSUME NEW f, NEW g, \A t \in DOMAIN g : t \notin DOMAIN f
  PROVE  /\ DOMAIN (f ++ g) = DOMAIN f \cup DOMAIN g
         /\ \A t \in DOMAIN f : (f ++ g)[t] = f[t]
         /\ \A t \in DOMAIN g : (f ++ g)[t] = g[t]
<1>1. DOMAIN (f ++ g) = DOMAIN f \cup DOMAIN g
  BY Zenon DEF ++
<1>2. \A t \in DOMAIN f : (f ++ g)[t] = f[t]
  BY Zenon DEF ++
<1>3. \A t \in DOMAIN g : (f ++ g)[t] = g[t]
  BY Zenon DEF ++
<1> QED
  BY <1>1, <1>2, <1>3, Zenon

\* The parts of a field.
LEMMA FieldParts == \A n, t :
  /\ Plain(n).name = n /\ Plain(n).form = "plain" /\ Plain(n).of = "scalar"
  /\ Inline(n, t).name = n /\ Inline(n, t).form = "struct" /\ Inline(n, t).of = t
  /\ Ref(n, t).name = n /\ Ref(n, t).form = "ref" /\ Ref(n, t).of = t
BY DEF Plain, Inline, Ref

\* The types of each table of types.
LEMMA TypeDomains ==
  /\ DOMAIN CassandraTypes = {"CassandraCluster", "CassandraClusterSpec",
       "CassandraClusterNodePool", "CassandraClusterStatus",
       "CassandraClusterNodePoolStatus", "CassandraClusterList"}
  /\ DOMAIN ElasticsearchTypes = {"ElasticsearchCluster",
       "ElasticsearchClusterStatus", "ElasticsearchClusterNodePoolStatus",
       "ElasticsearchClusterList", "ElasticsearchClusterSpec",
       "ElasticsearchClusterNodePool"}
  /\ DOMAIN CommonTypes = {"PersistenceConfig", "ImageSpec",
       "NavigatorClusterConfig", "NavigatorClusterStatus",
       "NavigatorSecurityContext", "ClusterCondition"}
  /\ DOMAIN PilotTypes = {"Pilot", "PilotList", "PilotSpec", "PilotStatus",
       "ElasticsearchPilotStatus", "CassandraPilotStatus", "PilotCondition"}
  /\ DOMAIN MetaTypes = {"ObjectMeta", "ResourceRequirements", "Quantity"}
  /\ DOMAIN VersionType = {"Version"}
BY DEF CassandraTypes, ElasticsearchTypes, CommonTypes, PilotTypes, MetaTypes,
       VersionType

\* The table of v1alpha1 has the rows of each table it is made of, and no others.
LEMMA TypeTables ==
  /\ \A t \in DOMAIN CassandraTypes :
       t \in DOMAIN V1alpha1 /\ V1alpha1[t] = CassandraTypes[t]
  /\ \A t \in DOMAIN ElasticsearchTypes :
       t \in DOMAIN V1alpha1 /\ V1alpha1[t] = ElasticsearchTypes[t]
  /\ \A t \in DOMAIN CommonTypes :
       t \in DOMAIN V1alpha1 /\ V1alpha1[t] = CommonTypes[t]
  /\ \A t \in DOMAIN PilotTypes :
       t \in DOMAIN V1alpha1 /\ V1alpha1[t] = PilotTypes[t]
  /\ \A t \in DOMAIN MetaTypes :
       t \in DOMAIN V1alpha1 /\ V1alpha1[t] = MetaTypes[t]
  /\ \A t \in DOMAIN VersionType :
       t \in DOMAIN V1alpha1 /\ V1alpha1[t] = VersionType[t]
  /\ DOMAIN V1alpha1 = DOMAIN CassandraTypes \cup DOMAIN ElasticsearchTypes
       \cup DOMAIN CommonTypes \cup DOMAIN PilotTypes \cup DOMAIN MetaTypes
       \cup DOMAIN VersionType
<1> DEFINE A == CassandraTypes ++ ElasticsearchTypes
           B == A ++ CommonTypes
           C == B ++ PilotTypes
           D == C ++ MetaTypes
           E == D ++ VersionType
<1>1. /\ DOMAIN A = DOMAIN CassandraTypes \cup DOMAIN ElasticsearchTypes
      /\ \A t \in DOMAIN CassandraTypes : A[t] = CassandraTypes[t]
      /\ \A t \in DOMAIN ElasticsearchTypes : A[t] = ElasticsearchTypes[t]
  <2>1. \A t \in DOMAIN ElasticsearchTypes : t \notin DOMAIN CassandraTypes
    BY TypeDomains
  <2> QED
    BY <2>1, Merged, Zenon
<1>2. /\ DOMAIN B = DOMAIN A \cup DOMAIN CommonTypes
      /\ \A t \in DOMAIN A : B[t] = A[t]
      /\ \A t \in DOMAIN CommonTypes : B[t] = CommonTypes[t]
  <2> HIDE DEF A
  <2>1. \A t \in DOMAIN CommonTypes : t \notin DOMAIN A
    BY <1>1, TypeDomains
  <2> QED
    BY <2>1, Merged, Zenon
<1>3. /\ DOMAIN C = DOMAIN B \cup DOMAIN PilotTypes
      /\ \A t \in DOMAIN B : C[t] = B[t]
      /\ \A t \in DOMAIN PilotTypes : C[t] = PilotTypes[t]
  <2> HIDE DEF B
  <2>1. \A t \in DOMAIN PilotTypes : t \notin DOMAIN B
    BY <1>1, <1>2, TypeDomains
  <2> QED
    BY <2>1, Merged, Zenon
<1>4. /\ DOMAIN D = DOMAIN C \cup DOMAIN MetaTypes
      /\ \A t \in DOMAIN C : D[t] = C[t]
      /\ \A t \in DOMAIN MetaTypes : D[t] = MetaTypes[t]
  <2> HIDE DEF C
  <2>1. \A t \in DOMAIN MetaTypes : t \notin DOMAIN C
    BY <1>1, <1>2, <1>3, TypeDomains, ZenonT(30)
  <2> QED
    BY <2>1, Merged, Zenon
<1>5. /\ DOMAIN E = DOMAIN D \cup DOMAIN VersionType
      /\ \A t \in DOMAIN D : E[t] = D[t]
      /\ \A t \in DOMAIN VersionType : E[t] = VersionType[t]
  <2> HIDE DEF D
  <2>1. \A t \in DOMAIN VersionType : t \notin DOMAIN D
    BY <1>1, <1>2, <1>3, <1>4, TypeDomains
  <2> QED
    BY <2>1, Merged, Zenon
<1>6. V1alpha1 = E
  BY DEF V1alpha1
<1> HIDE DEF A, B, C, D, E
<1> QED
  BY <1>1, <1>2, <1>3, <1>4, <1>5, <1>6

\* The fields of the types of Cassandra.
LEMMA CassandraRows ==
  /\ Fields(V1alpha1, "CassandraCluster") = {
       Inline("ObjectMeta", "ObjectMeta"),
       Inline("Spec", "CassandraClusterSpec"),
       Inline("Status", "CassandraClusterStatus")}
  /\ Fields(V1alpha1, "CassandraClusterSpec") = {
       Inline("NavigatorClusterConfig", "NavigatorClusterConfig"),
       Ref("NodePools", "CassandraClusterNodePool"), Ref("Image", "ImageSpec"),
       Inline("Version", "Version")}
  /\ Fields(V1alpha1, "CassandraClusterNodePool") =
       {Plain("Name"), Ref("Replicas", "scalar"),
       Ref("Persistence", "PersistenceConfig"), Ref("NodeSelector", "scalar"),
       Ref("Rack", "scalar"), Ref("Datacenter", "scalar"),
       Inline("Resources", "ResourceRequirements"), Plain("SchedulerName")}
  /\ Fields(V1alpha1, "CassandraClusterStatus") =
       {Inline("NavigatorClusterStatus", "NavigatorClusterStatus"),
       Ref("NodePools", "CassandraClusterNodePoolStatus")}
  /\ Fields(V1alpha1, "CassandraClusterNodePoolStatus") =
       {Plain("ReadyReplicas")}
  /\ Fields(V1alpha1, "CassandraClusterList") = {Plain("ListMeta"),
       Ref("Items", "CassandraCluster")}
BY TypeDomains, TypeTables DEF Fields, Range, CassandraTypes

\* The fields of the types of Elasticsearch.
LEMMA ElasticsearchRows ==
  /\ Fields(V1alpha1, "ElasticsearchCluster") = {
       Inline("ObjectMeta", "ObjectMeta"),
       Inline("Spec", "ElasticsearchClusterSpec"),
       Inline("Status", "ElasticsearchClusterStatus")}
  /\ Fields(V1alpha1, "ElasticsearchClusterStatus") =
       {Inline("NavigatorClusterStatus", "NavigatorClusterStatus"),
       Ref("NodePools", "ElasticsearchClusterNodePoolStatus"),
       Ref("Health", "scalar")}
  /\ Fields(V1alpha1, "ElasticsearchClusterNodePoolStatus") =
       {Plain("ReadyReplicas")}
  /\ Fields(V1alpha1, "ElasticsearchClusterList") =
       {Plain("ListMeta"), Ref("Items", "ElasticsearchCluster")}
  /\ Fields(V1alpha1, "ElasticsearchClusterSpec") =
       {Inline("NavigatorClusterConfig", "NavigatorClusterConfig"),
       Plain("Version"), Ref("Plugins", "scalar"),
       Ref("NodePools", "ElasticsearchClusterNodePool"),
       Ref("Image", "ImageSpec"), Ref("MinimumMasters", "scalar")}
  /\ Fields(V1alpha1, "ElasticsearchClusterNodePool") =
       {Plain("Name"), Ref("Replicas", "scalar"), Ref("Roles", "scalar"),
       Ref("NodeSelector", "scalar"),
       Inline("Resources", "ResourceRequirements"),
       Ref("Persistence", "PersistenceConfig"), Plain("SchedulerName")}
BY TypeDomains, TypeTables, SMT, Z3, Zenon DEF Fields, Range, ElasticsearchTypes

\* The fields of the types that both databases use.
LEMMA CommonRows ==
  /\ Fields(V1alpha1, "PersistenceConfig") = {Inline("Size", "Quantity"),
       Ref("StorageClass", "scalar")}
  /\ Fields(V1alpha1, "ImageSpec") = {Plain("Repository"), Plain("Tag"),
       Plain("PullPolicy")}
  /\ Fields(V1alpha1, "NavigatorClusterConfig") =
       {Inline("PilotImage", "ImageSpec"),
       Inline("SecurityContext", "NavigatorSecurityContext"), Plain("Paused")}
  /\ Fields(V1alpha1, "NavigatorClusterStatus") =
       {Ref("Conditions", "ClusterCondition")}
  /\ Fields(V1alpha1, "NavigatorSecurityContext") =
       {Ref("RunAsUser", "scalar")}
  /\ Fields(V1alpha1, "ClusterCondition") = {Plain("Type"), Plain("Status"),
       Plain("LastTransitionTime"), Plain("Reason"), Plain("Message")}
BY TypeDomains, TypeTables DEF Fields, Range, CommonTypes

\* The fields of the types of Pilots.
LEMMA PilotRows ==
  /\ Fields(V1alpha1, "Pilot") = {Inline("ObjectMeta", "ObjectMeta"),
       Inline("Spec", "PilotSpec"), Inline("Status", "PilotStatus")}
  /\ Fields(V1alpha1, "PilotList") = {Plain("ListMeta"), Ref("Items", "Pilot")}
  /\ Fields(V1alpha1, "PilotSpec") = {}
  /\ Fields(V1alpha1, "PilotStatus") = {Ref("Conditions", "PilotCondition"),
       Ref("Elasticsearch", "ElasticsearchPilotStatus"),
       Ref("Cassandra", "CassandraPilotStatus")}
  /\ Fields(V1alpha1, "ElasticsearchPilotStatus") =
       {Ref("Documents", "scalar"), Ref("Version", "scalar")}
  /\ Fields(V1alpha1, "CassandraPilotStatus") = {Ref("Version", "Version")}
  /\ Fields(V1alpha1, "PilotCondition") = {Plain("Type"), Plain("Status"),
       Plain("LastTransitionTime"), Plain("Reason"), Plain("Message")}
BY TypeDomains, TypeTables DEF Fields, Range, PilotTypes

\* The fields of the types of other packages.
LEMMA MetaRows ==
  /\ Fields(V1alpha1, "ObjectMeta") = {Plain("Name"), Ref("Labels", "scalar")}
  /\ Fields(V1alpha1, "ResourceRequirements") = {Ref("Limits", "scalar")}
  /\ Fields(V1alpha1, "Quantity") = {Plain("i"), Ref("d", "scalar")}
BY TypeDomains, TypeTables DEF Fields, Range, MetaTypes

\* The fields of the types Version.
LEMMA VersionRow ==
  /\ Fields(V1alpha1, "Version") = {Plain("versionString"),
       Ref("semver", "scalar")}
BY TypeDomains, TypeTables DEF Fields, Range, VersionType

-----------------------------------------------------------------------------
(* Deep copies.                                                            *)

\* The types of each table of deep copies.
LEMMA CopyDomains ==
  /\ DOMAIN CopyCassandraCluster =
       {"CassandraCluster", "CassandraClusterList",
        "CassandraClusterNodePool"}
  /\ DOMAIN CopyCassandraSpec =
       {"CassandraClusterNodePoolStatus", "CassandraClusterSpec",
        "CassandraClusterStatus", "CassandraPilotStatus",
        "ClusterCondition"}
  /\ DOMAIN CopyElasticsearchCluster =
       {"ElasticsearchCluster", "ElasticsearchClusterList",
        "ElasticsearchClusterNodePool",
        "ElasticsearchClusterNodePoolStatus"}
  /\ DOMAIN CopyElasticsearchSpec =
       {"ElasticsearchClusterSpec", "ElasticsearchClusterStatus",
        "ElasticsearchPilotStatus"}
  /\ DOMAIN CopyCommon =
       {"ImageSpec", "NavigatorClusterConfig", "NavigatorClusterStatus",
        "NavigatorSecurityContext", "PersistenceConfig"}
  /\ DOMAIN CopyPilot =
       {"Pilot", "PilotCondition", "PilotList", "PilotSpec", "PilotStatus"}
  /\ DOMAIN CopyMeta = {"ObjectMeta", "ResourceRequirements", "Quantity"}
  /\ DOMAIN CopyVersion = {"Version"}
BY Zenon DEF CopyCassandraCluster, CopyCassandraSpec, CopyElasticsearchCluster,
       CopyElasticsearchSpec, CopyCommon, CopyPilot, CopyMeta, CopyVersion

\* The tables are disjoint, so that each type is copied as its own table says.
LEMMA CopyTables ==
  /\ \A t \in DOMAIN CopyCassandraCluster : DeepCopies[t] = CopyCassandraCluster[t]
  /\ \A t \in DOMAIN CopyCassandraSpec : DeepCopies[t] = CopyCassandraSpec[t]
  /\ \A t \in DOMAIN CopyElasticsearchCluster : DeepCopies[t] = CopyElasticsearchCluster[t]
  /\ \A t \in DOMAIN CopyElasticsearchSpec : DeepCopies[t] = CopyElasticsearchSpec[t]
  /\ \A t \in DOMAIN CopyCommon : DeepCopies[t] = CopyCommon[t]
  /\ \A t \in DOMAIN CopyPilot : DeepCopies[t] = CopyPilot[t]
  /\ \A t \in DOMAIN CopyMeta : DeepCopies[t] = CopyMeta[t]
  /\ \A t \in DOMAIN CopyVersion : DeepCopies[t] = CopyVersion[t]
  /\ DOMAIN DeepCopies = DOMAIN CopyCassandraCluster \cup DOMAIN CopyCassandraSpec \cup
       DOMAIN CopyElasticsearchCluster \cup DOMAIN CopyElasticsearchSpec
       \cup DOMAIN CopyCommon \cup DOMAIN CopyPilot \cup DOMAIN CopyMeta
       \cup DOMAIN CopyVersion
<1> DEFINE A == CopyCassandraCluster ++ CopyCassandraSpec
           B == A ++ CopyElasticsearchCluster
           C == B ++ CopyElasticsearchSpec
           D == C ++ CopyCommon
           E == D ++ CopyPilot
           F == E ++ CopyMeta
           G == F ++ CopyVersion
<1>1. /\ DOMAIN A = DOMAIN CopyCassandraCluster \cup DOMAIN CopyCassandraSpec
      /\ \A t \in DOMAIN CopyCassandraCluster : A[t] = CopyCassandraCluster[t]
      /\ \A t \in DOMAIN CopyCassandraSpec : A[t] = CopyCassandraSpec[t]
  <2>1. \A t \in DOMAIN CopyCassandraSpec : t \notin DOMAIN CopyCassandraCluster
    BY CopyDomains
  <2> QED
    BY <2>1, Merged, Zenon
<1>2. /\ DOMAIN B = DOMAIN A \cup DOMAIN CopyElasticsearchCluster
      /\ \A t \in DOMAIN A : B[t] = A[t]
      /\ \A t \in DOMAIN CopyElasticsearchCluster :
           B[t] = CopyElasticsearchCluster[t]
  <2> HIDE DEF A
  <2>1. \A t \in DOMAIN CopyElasticsearchCluster : t \notin DOMAIN A
    BY <1>1, CopyDomains
  <2> QED
    BY <2>1, Merged, Zenon
<1>3. /\ DOMAIN C = DOMAIN B \cup DOMAIN CopyElasticsearchSpec
      /\ \A t \in DOMAIN B : C[t] = B[t]
      /\ \A t \in DOMAIN CopyElasticsearchSpec : C[t] = CopyElasticsearchSpec[t]
  <2> HIDE DEF B
  <2>1. \A t \in DOMAIN CopyElasticsearchSpec : t \notin DOMAIN B
    BY <1>1, <1>2, CopyDomains, ZenonT(30)
  <2> QED
    BY <2>1, Merged, Zenon
<1>4. /\ DOMAIN D = DOMAIN C \cup DOMAIN CopyCommon
      /\ \A t \in DOMAIN C : D[t] = C[t]
      /\ \A t \in DOMAIN CopyCommon : D[t] = CopyCommon[t]
  <2> HIDE DEF C
  <2>1. \A t \in DOMAIN CopyCommon : t \notin DOMAIN C
    BY <1>1, <1>2, <1>3, CopyDomains, ZenonT(30)
  <2> QED
    BY <2>1, Merged, Zenon
<1>5. /\ DOMAIN E = DOMAIN D \cup DOMAIN CopyPilot
      /\ \A t \in DOMAIN D : E[t] = D[t]
      /\ \A t \in DOMAIN CopyPilot : E[t] = CopyPilot[t]
  <2> HIDE DEF D
  <2>1. \A t \in DOMAIN CopyPilot : t \notin DOMAIN D
    BY <1>1, <1>2, <1>3, <1>4, CopyDomains, ZenonT(30)
  <2> QED
    BY <2>1, Merged, Zenon
<1>6. /\ DOMAIN F = DOMAIN E \cup DOMAIN CopyMeta
      /\ \A t \in DOMAIN E : F[t] = E[t]
      /\ \A t \in DOMAIN CopyMeta : F[t] = CopyMeta[t]
  <2> HIDE DEF E
  <2>1. \A t \in DOMAIN CopyMeta : t \notin DOMAIN E
    BY <1>1, <1>2, <1>3, <1>4, <1>5, CopyDomains, ZenonT(30)
  <2> QED
    BY <2>1, Merged, Zenon
<1>7. /\ DOMAIN G = DOMAIN F \cup DOMAIN CopyVersion
      /\ \A t \in DOMAIN F : G[t] = F[t]
      /\ \A t \in DOMAIN CopyVersion : G[t] = CopyVersion[t]
  <2> HIDE DEF F
  <2>1. \A t \in DOMAIN CopyVersion : t \notin DOMAIN F
    BY <1>1, <1>2, <1>3, <1>4, <1>5, <1>6, CopyDomains, Zenon
  <2> QED
    BY <2>1, Merged, Zenon
<1>8. DeepCopies = G
  BY DEF DeepCopies
<1> HIDE DEF A, B, C, D, E, F, G
<1> QED
  BY <1>1, <1>2, <1>3, <1>4, <1>5, <1>6, <1>7, <1>8

\* Types without a reference in them.
Flat == {"scalar", "ImageSpec", "CassandraClusterNodePoolStatus",
         "ElasticsearchClusterNodePoolStatus", "PilotSpec"}

\* How a field may be copied so that nothing of it is shared.
Copied(how, f) ==
  \/ f.form = "plain"
  \/ f.form = "struct" /\ (f.name \in how.into \/ f.of \in Flat)
  \/ f.form = "ref" /\ f.name \in how.freshInto /\ f.name \notin how.fresh
  \/ f.form = "ref" /\ f.name \notin how.freshInto /\ f.name \in how.fresh /\ f.of \in Flat

\* A row that names a field where its form asks for it copies it so.
LEMMA CopiedFields ==
  /\ \A how, n : Copied(how, Plain(n))
  /\ \A how, n, t :
       /\ n \in how.into \/ t \in Flat => Copied(how, Inline(n, t))
       /\ n \in how.freshInto /\ n \notin how.fresh => Copied(how, Ref(n, t))
       /\ n \notin how.freshInto /\ n \in how.fresh /\ t \in Flat =>
            Copied(how, Ref(n, t))
BY FieldParts, SMTT(30) DEF Copied

\* The parts of a row.
LEMMA RowParts == \A into, fresh, freshInto :
  /\ Into(into, fresh, freshInto).into = into
  /\ Into(into, fresh, freshInto).fresh = fresh
  /\ Into(into, fresh, freshInto).freshInto = freshInto
BY DEF Into

\* Every field of every type is copied so.
LEMMA CopiesAreDeep ==
  \A t \in DOMAIN V1alpha1 : \A f \in Fields(V1alpha1, t) : Copied(DeepCopies[t], f)
<1> USE CopiedFields, RowParts DEF Flat
<1>1. \A t \in DOMAIN CopyCassandraCluster :
        \A f \in Fields(V1alpha1, t) : Copied(DeepCopies[t], f)
  <2>1. \A t \in DOMAIN CopyCassandraCluster : DeepCopies[t] = CopyCassandraCluster[t]
    BY CopyTables, Zenon
  <2>2. \A t \in DOMAIN CopyCassandraCluster :
          \A f \in Fields(V1alpha1, t) : Copied(CopyCassandraCluster[t], f)
    BY CassandraRows DEF CopyCassandraCluster
  <2> QED
    BY <2>1, <2>2, Zenon
<1>2. \A t \in DOMAIN CopyCassandraSpec :
        \A f \in Fields(V1alpha1, t) : Copied(DeepCopies[t], f)
  <2>1. \A t \in DOMAIN CopyCassandraSpec : DeepCopies[t] = CopyCassandraSpec[t]
    BY CopyTables, Zenon
  <2>2. \A t \in DOMAIN CopyCassandraSpec :
          \A f \in Fields(V1alpha1, t) : Copied(CopyCassandraSpec[t], f)
    BY CassandraRows, PilotRows, CommonRows DEF CopyCassandraSpec
  <2> QED
    BY <2>1, <2>2, Zenon
<1>3. \A t \in DOMAIN CopyElasticsearchCluster :
        \A f \in Fields(V1alpha1, t) : Copied(DeepCopies[t], f)
  <2>1. \A t \in DOMAIN CopyElasticsearchCluster : DeepCopies[t] = CopyElasticsearchCluster[t]
    BY CopyTables, Zenon
  <2>2. \A t \in DOMAIN CopyElasticsearchCluster :
          \A f \in Fields(V1alpha1, t) : Copied(CopyElasticsearchCluster[t], f)
    BY ElasticsearchRows DEF CopyElasticsearchCluster
  <2> QED
    BY <2>1, <2>2, Zenon
<1>4. \A t \in DOMAIN CopyElasticsearchSpec :
        \A f \in Fields(V1alpha1, t) : Copied(DeepCopies[t], f)
  <2>1. \A t \in DOMAIN CopyElasticsearchSpec : DeepCopies[t] = CopyElasticsearchSpec[t]
    BY CopyTables, Zenon
  <2>2. \A t \in DOMAIN CopyElasticsearchSpec :
          \A f \in Fields(V1alpha1, t) : Copied(CopyElasticsearchSpec[t], f)
    BY ElasticsearchRows, PilotRows DEF CopyElasticsearchSpec
  <2> QED
    BY <2>1, <2>2, Zenon
<1>5. \A t \in DOMAIN CopyCommon :
        \A f \in Fields(V1alpha1, t) : Copied(DeepCopies[t], f)
  <2>1. \A t \in DOMAIN CopyCommon : DeepCopies[t] = CopyCommon[t]
    BY CopyTables, Zenon
  <2>2. \A t \in DOMAIN CopyCommon :
          \A f \in Fields(V1alpha1, t) : Copied(CopyCommon[t], f)
    BY CommonRows DEF CopyCommon
  <2> QED
    BY <2>1, <2>2, Zenon
<1>6. \A t \in DOMAIN CopyPilot :
        \A f \in Fields(V1alpha1, t) : Copied(DeepCopies[t], f)
  <2>1. \A t \in DOMAIN CopyPilot : DeepCopies[t] = CopyPilot[t]
    BY CopyTables, Zenon
  <2>2. \A t \in DOMAIN CopyPilot :
          \A f \in Fields(V1alpha1, t) : Copied(CopyPilot[t], f)
    BY PilotRows DEF CopyPilot
  <2> QED
    BY <2>1, <2>2, Zenon
<1>7. \A t \in DOMAIN CopyMeta :
        \A f \in Fields(V1alpha1, t) : Copied(DeepCopies[t], f)
  <2>1. \A t \in DOMAIN CopyMeta : DeepCopies[t] = CopyMeta[t]
    BY CopyTables, Zenon
  <2>2. \A t \in DOMAIN CopyMeta :
          \A f \in Fields(V1alpha1, t) : Copied(CopyMeta[t], f)
    BY MetaRows DEF CopyMeta
  <2> QED
    BY <2>1, <2>2, Zenon
<1>8. \A t \in DOMAIN CopyVersion :
        \A f \in Fields(V1alpha1, t) : Copied(DeepCopies[t], f)
  <2>1. \A t \in DOMAIN CopyVersion : DeepCopies[t] = CopyVersion[t]
    BY CopyTables, Zenon
  <2>2. \A t \in DOMAIN CopyVersion :
          \A f \in Fields(V1alpha1, t) : Copied(CopyVersion[t], f)
    BY VersionRow DEF CopyVersion
  <2> QED
    BY <2>1, <2>2, Zenon
<1>9. DOMAIN V1alpha1 \subseteq DOMAIN DeepCopies
  BY TypeDomains, TypeTables, CopyDomains, CopyTables, ZenonT(30)
<1> HIDE CopiedFields, RowParts DEF Flat
<1> QED
  BY <1>1, <1>2, <1>3, <1>4, <1>5, <1>6, <1>7, <1>8, <1>9, CopyTables, ZenonT(30)

\* A field is of a type of the table, or plain.
LEMMA FieldTypes ==
  \A t \in DOMAIN V1alpha1 : \A f \in Fields(V1alpha1, t) : f.of \in Types
<1>0. /\ "scalar" \in Types /\ DOMAIN CassandraTypes \subseteq Types
      /\ DOMAIN ElasticsearchTypes \subseteq Types /\ DOMAIN CommonTypes \subseteq Types
      /\ DOMAIN PilotTypes \subseteq Types /\ DOMAIN MetaTypes \subseteq Types
      /\ DOMAIN VersionType \subseteq Types
  BY TypeTables, Zenon DEF Types
<1> USE FieldParts, TypeDomains, <1>0
<1>1. \A t \in DOMAIN CassandraTypes : \A f \in Fields(V1alpha1, t) : f.of \in Types
  BY CassandraRows
<1>2. \A t \in DOMAIN ElasticsearchTypes : \A f \in Fields(V1alpha1, t) : f.of \in Types
  BY ElasticsearchRows
<1>3. \A t \in DOMAIN CommonTypes : \A f \in Fields(V1alpha1, t) : f.of \in Types
  BY CommonRows
<1>4. \A t \in DOMAIN PilotTypes : \A f \in Fields(V1alpha1, t) : f.of \in Types
  BY PilotRows
<1>5. \A t \in DOMAIN MetaTypes : \A f \in Fields(V1alpha1, t) : f.of \in Types
  BY MetaRows
<1>6. \A t \in DOMAIN VersionType : \A f \in Fields(V1alpha1, t) : f.of \in Types
  BY VersionRow
<1> HIDE FieldParts, TypeDomains
<1> QED
  BY <1>1, <1>2, <1>3, <1>4, <1>5, <1>6, TypeTables, Zenon

\* A type without references has no cells.
LEMMA FlatCells == \A t \in Flat : t \in Types /\ Cells[t] = {}
<1> DEFINE inner == CellsOver(CellsOver(CellsOver(CellsOver(NoCells))))
<1>1. \A t \in Flat : t \in Types
  BY TypeDomains, TypeTables, Zenon DEF Flat, Types
<1>2. \A t \in Flat : \A f \in Fields(V1alpha1, t) : f.form = "plain"
  <2>1. Fields(V1alpha1, "scalar") = {}
    BY TypeDomains, TypeTables, Zenon DEF Fields
  <2> QED
    BY <2>1, CassandraRows, ElasticsearchRows, CommonRows, PilotRows, FieldParts DEF Flat
<1>3. Cells = CellsOver(inner)
  BY DEF Cells
<1> HIDE DEF inner
<1>4. \A f : f.form = "plain" => CellsIn(inner, f) = {}
  BY DEF CellsIn
<1>5. \A t \in Types : Cells[t] = UNION {CellsIn(inner, f) : f \in Fields(V1alpha1, t)}
  BY <1>3, Zenon DEF CellsOver
<1>6. ASSUME NEW t \in Flat PROVE Cells[t] = {}
  <2>1. Cells[t] = UNION {CellsIn(inner, f) : f \in Fields(V1alpha1, t)}
    BY <1>1, <1>5
  <2>2. \A f \in Fields(V1alpha1, t) : CellsIn(inner, f) = {}
    BY <1>2, <1>4
  <2> QED
    BY <2>1, <2>2, Zenon
<1> QED
  BY <1>1, <1>6

\* DeepCopy shares no memory with the original, whatever the type: the fields
\* that zz_generated.deepcopy.go leaves as *out = *in hold no reference.
THEOREM DeepCopySharesNothing == \A t \in Types : SharedCells[t] = {}
<1>1. ASSUME NEW inner, \A t \in Types : inner[t] = {}
      PROVE  \A t \in Types : SharedOver(inner)[t] = {}
  <2>1. \A n : Under(n, {}) = {}
    BY Zenon DEF Under
  <2>2. ASSUME NEW t \in DOMAIN V1alpha1, NEW f \in Fields(V1alpha1, t)
        PROVE  SharedIn(inner, DeepCopies[t], f) = {}
    <3> DEFINE how == DeepCopies[t]
    <3>1. Copied(how, f) /\ inner[f.of] = {} /\ (f.of \in Flat => Cells[f.of] = {})
      BY <1>1, CopiesAreDeep, FieldTypes, FlatCells
    <3> SUFFICES SharedIn(inner, how, f) = {}
      OBVIOUS
    <3> HIDE DEF how
    <3>2. CASE f.form = "plain"
      BY <3>2 DEF SharedIn
    <3>3. CASE f.form = "struct"
      <4>1. (IF f.name \in how.into THEN inner[f.of] ELSE Cells[f.of]) = {}
        BY <3>1, <3>3 DEF Copied
      <4>2. SharedIn(inner, how, f)
              = Under(f.name, IF f.name \in how.into THEN inner[f.of] ELSE Cells[f.of])
        BY <3>3 DEF SharedIn
      <4> QED
        BY <2>1, <4>1, <4>2, Zenon
    <3>4. CASE f.form = "ref" /\ f.name \in how.freshInto /\ f.name \notin how.fresh
      <4>1. SharedIn(inner, how, f) = Under(f.name, inner[f.of])
        BY <3>4 DEF SharedIn
      <4> QED
        BY <2>1, <3>1, <4>1, Zenon
    <3>5. CASE /\ f.form = "ref" /\ f.name \notin how.freshInto
               /\ f.name \in how.fresh /\ f.of \in Flat
      <4>1. SharedIn(inner, how, f) = Under(f.name, Cells[f.of])
        BY <3>5 DEF SharedIn
      <4> QED
        BY <2>1, <3>1, <3>5, <4>1, Zenon
    <3> QED
      BY <3>1, <3>2, <3>3, <3>4, <3>5 DEF Copied
  <2>3. \A t \in Types : \A f \in Fields(V1alpha1, t) :
          SharedIn(inner, DeepCopies[t], f) = {}
    BY <2>2 DEF Fields
  <2>4. \A t \in Types : SharedOver(inner)[t]
          = UNION {SharedIn(inner, DeepCopies[t], f) : f \in Fields(V1alpha1, t)}
    BY Zenon DEF SharedOver
  <2>5. ASSUME NEW t \in Types PROVE SharedOver(inner)[t] = {}
    <3>1. \A f \in Fields(V1alpha1, t) : SharedIn(inner, DeepCopies[t], f) = {}
      BY <2>3
    <3>2. SharedOver(inner)[t]
            = UNION {SharedIn(inner, DeepCopies[t], f) : f \in Fields(V1alpha1, t)}
      BY <2>4
    <3> QED
      BY <3>1, <3>2, Zenon
  <2> QED
    BY <2>5
<1>2. \A t \in Types : NoCells[t] = {}
  BY DEF NoCells
<1> QED
  BY <1>1, <1>2, Zenon DEF SharedCells

-----------------------------------------------------------------------------
(* Conversions.                                                            *)

\* The types that each table of generated conversions converts.
LEMMA ConversionDomains ==
  /\ DOMAIN ConvertCassandraCluster =
       {"CassandraCluster", "CassandraClusterList", "CassandraClusterNodePool"}
  /\ DOMAIN ConvertCassandraSpec =
       {"CassandraClusterNodePoolStatus", "CassandraClusterSpec",
        "CassandraClusterStatus", "CassandraPilotStatus"}
  /\ DOMAIN ConvertElasticsearchCluster =
       {"ClusterCondition", "ElasticsearchCluster", "ElasticsearchClusterList"}
  /\ DOMAIN ConvertElasticsearchSpec =
       {"ElasticsearchClusterNodePool", "ElasticsearchClusterNodePoolStatus",
        "ElasticsearchClusterSpec", "ElasticsearchClusterStatus"}
  /\ DOMAIN ConvertCommon =
       {"ElasticsearchPilotStatus", "ImageSpec", "NavigatorClusterConfig",
        "NavigatorClusterStatus", "NavigatorSecurityContext", "PersistenceConfig"}
  /\ DOMAIN ConvertPilot =
       {"Pilot", "PilotCondition", "PilotList", "PilotSpec", "PilotStatus"}
BY DEF ConvertCassandraCluster, ConvertCassandraSpec, ConvertElasticsearchCluster,
       ConvertElasticsearchSpec, ConvertCommon, ConvertPilot

\* The table of conversions has the rows of each table it is made of, and no
\* others.
LEMMA ConversionTables ==
  /\ \A t \in DOMAIN ConvertCassandraCluster :
       Conversions[t] = ConvertCassandraCluster[t]
  /\ \A t \in DOMAIN ConvertCassandraSpec : Conversions[t] = ConvertCassandraSpec[t]
  /\ \A t \in DOMAIN ConvertElasticsearchCluster :
       Conversions[t] = ConvertElasticsearchCluster[t]
  /\ \A t \in DOMAIN ConvertElasticsearchSpec :
       Conversions[t] = ConvertElasticsearchSpec[t]
  /\ \A t \in DOMAIN ConvertCommon : Conversions[t] = ConvertCommon[t]
  /\ \A t \in DOMAIN ConvertPilot : Conversions[t] = ConvertPilot[t]
  /\ DOMAIN Conversions = DOMAIN ConvertCassandraCluster
       \cup DOMAIN ConvertCassandraSpec \cup DOMAIN ConvertElasticsearchCluster
       \cup DOMAIN ConvertElasticsearchSpec \cup DOMAIN ConvertCommon
       \cup DOMAIN ConvertPilot
<1> DEFINE A == ConvertCassandraCluster ++ ConvertCassandraSpec
           B == A ++ ConvertElasticsearchCluster
           C == B ++ ConvertElasticsearchSpec
           D == C ++ ConvertCommon
           E == D ++ ConvertPilot
<1>1. /\ DOMAIN A = DOMAIN ConvertCassandraCluster \cup DOMAIN ConvertCassandraSpec
      /\ \A t \in DOMAIN ConvertCassandraCluster :
           A[t] = ConvertCassandraCluster[t]
      /\ \A t \in DOMAIN ConvertCassandraSpec : A[t] = ConvertCassandraSpec[t]
  <2>1. \A t \in DOMAIN ConvertCassandraSpec : t \notin DOMAIN ConvertCassandraCluster
    BY ConversionDomains
  <2> QED
    BY <2>1, Merged, Zenon
<1>2. /\ DOMAIN B = DOMAIN A \cup DOMAIN ConvertElasticsearchCluster
      /\ \A t \in DOMAIN A : B[t] = A[t]
      /\ \A t \in DOMAIN ConvertElasticsearchCluster :
           B[t] = ConvertElasticsearchCluster[t]
  <2> HIDE DEF A
  <2>1. \A t \in DOMAIN ConvertElasticsearchCluster : t \notin DOMAIN A
    BY <1>1, ConversionDomains
  <2> QED
    BY <2>1, Merged, Zenon
<1>3. /\ DOMAIN C = DOMAIN B \cup DOMAIN ConvertElasticsearchSpec
      /\ \A t \in DOMAIN B : C[t] = B[t]
      /\ \A t \in DOMAIN ConvertElasticsearchSpec :
           C[t] = ConvertElasticsearchSpec[t]
  <2> HIDE DEF B
  <2>1. \A t \in DOMAIN ConvertElasticsearchSpec : t \notin DOMAIN B
    BY <1>1, <1>2, ConversionDomains
  <2> QED
    BY <2>1, Merged, Zenon
<1>4. /\ DOMAIN D = DOMAIN C \cup DOMAIN ConvertCommon
      /\ \A t \in DOMAIN C : D[t] = C[t]
      /\ \A t \in DOMAIN ConvertCommon : D[t] = ConvertCommon[t]
  <2> HIDE DEF C
  <2>1. \A t \in DOMAIN ConvertCommon : t \notin DOMAIN C
    BY <1>1, <1>2, <1>3, ConversionDomains
  <2> QED
    BY <2>1, Merged, Zenon
<1>5. /\ DOMAIN E = DOMAIN D \cup DOMAIN ConvertPilot
      /\ \A t \in DOMAIN D : E[t] = D[t]
      /\ \A t \in DOMAIN ConvertPilot : E[t] = ConvertPilot[t]
  <2> HIDE DEF D
  <2>1. \A t \in DOMAIN ConvertPilot : t \notin DOMAIN D
    BY <1>1, <1>2, <1>3, <1>4, ConversionDomains
  <2> QED
    BY <2>1, Merged, Zenon
<1>6. Conversions = E
  BY DEF Conversions
<1> HIDE DEF A, B, C, D, E
<1> QED
  BY <1>1, <1>2, <1>3, <1>4, <1>5, <1>6

\* The types that the two versions declare differently, and those that hold one.
Apart == {"CassandraClusterSpec", "CassandraCluster", "CassandraClusterList",
          "ElasticsearchClusterSpec", "ElasticsearchCluster",
          "ElasticsearchClusterList"}

\* The other types are declared alike and hold no value of such a type, so that an
\* unsafe pointer cast of one is safe (zz_generated.conversion.go).
LEMMA OutsideApart ==
  \A t \in DOMAIN V1alpha1 : t \notin Apart =>
    V1alpha1[t] = Navigator[t] /\ \A f \in Fields(V1alpha1, t) : f.of \notin Apart
<1>1. \A t \in DOMAIN V1alpha1 : t \notin Apart => V1alpha1[t] = Navigator[t]
  BY Zenon DEF Navigator, Apart
<1> USE FieldParts, TypeDomains DEF Apart
<1>2. \A t \in DOMAIN CassandraTypes : t \notin Apart =>
        \A f \in Fields(V1alpha1, t) : f.of \notin Apart
  BY CassandraRows
<1>3. \A t \in DOMAIN ElasticsearchTypes : t \notin Apart =>
        \A f \in Fields(V1alpha1, t) : f.of \notin Apart
  BY ElasticsearchRows
<1>4. \A t \in DOMAIN CommonTypes : \A f \in Fields(V1alpha1, t) : f.of \notin Apart
  BY CommonRows
<1>5. \A t \in DOMAIN PilotTypes : \A f \in Fields(V1alpha1, t) : f.of \notin Apart
  BY PilotRows
<1>6. \A t \in DOMAIN MetaTypes : \A f \in Fields(V1alpha1, t) : f.of \notin Apart
  BY MetaRows
<1>7. \A t \in DOMAIN VersionType : \A f \in Fields(V1alpha1, t) : f.of \notin Apart
  BY VersionRow
<1> HIDE FieldParts, TypeDomains DEF Apart
<1> QED
  BY <1>1, <1>2, <1>3, <1>4, <1>5, <1>6, <1>7, TypeTables, ZenonT(30)

\* The types that a cast would garble are among those kept apart.
LEMMA DifferingApart == Differing \subseteq Apart
<1>1. \A S : S \subseteq Apart => Holders(S) \subseteq Apart
  BY OutsideApart DEF Holders
<1>2. {t \in DOMAIN V1alpha1 : V1alpha1[t] # Navigator[t]} \subseteq Apart
  BY OutsideApart
<1> QED
  BY <1>1, <1>2 DEF Differing

\* A conversion assigns a field once: by copying or casting a value of a type that
\* both versions declare alike, or by calling the conversion of its type.
Kept(how, f) ==
  \/ /\ f.name \in how.shared /\ f.name \notin how.called
     /\ f.form = "ref" => f.of \notin Apart
  \/ /\ f.name \in how.called /\ f.name \notin how.shared
     /\ f.of \in DOMAIN Conversions

\* A row that names a field where its type asks for it keeps it so.
LEMMA KeptFields ==
  /\ \A how, n :
       n \in how.shared /\ n \notin how.called => Kept(how, Plain(n))
  /\ \A how, n, t :
       /\ n \in how.shared /\ n \notin how.called => Kept(how, Inline(n, t))
       /\ n \in how.shared /\ n \notin how.called /\ t \notin Apart => Kept(how, Ref(n, t))
       /\ n \in how.called /\ n \notin how.shared /\ t \in DOMAIN Conversions =>
            Kept(how, Inline(n, t)) /\ Kept(how, Ref(n, t))
BY FieldParts, SMTT(30) DEF Kept

\* The parts of a row.
LEMMA ConversionParts == \A shared, called :
  Conv(shared, called).shared = shared /\ Conv(shared, called).called = called
BY DEF Conv

\* Every generated conversion assigns every field so: it drops none.
LEMMA ConversionsKeep ==
  \A t \in DOMAIN Conversions : \A f \in Fields(V1alpha1, t) : Kept(Conversions[t], f)
<1>1. /\ DOMAIN ConvertCassandraCluster \subseteq DOMAIN Conversions
      /\ DOMAIN ConvertCassandraSpec \subseteq DOMAIN Conversions
      /\ DOMAIN ConvertElasticsearchCluster \subseteq DOMAIN Conversions
      /\ DOMAIN ConvertElasticsearchSpec \subseteq DOMAIN Conversions
      /\ DOMAIN ConvertCommon \subseteq DOMAIN Conversions
      /\ DOMAIN ConvertPilot \subseteq DOMAIN Conversions
  BY ConversionTables, Zenon
<1> USE <1>1, KeptFields, ConversionParts, ConversionDomains DEF Apart
<1>2. \A t \in DOMAIN ConvertCassandraCluster :
        \A f \in Fields(V1alpha1, t) : Kept(ConvertCassandraCluster[t], f)
  BY CassandraRows DEF ConvertCassandraCluster
<1>3. \A t \in DOMAIN ConvertCassandraSpec :
        \A f \in Fields(V1alpha1, t) : Kept(ConvertCassandraSpec[t], f)
  BY CassandraRows, PilotRows DEF ConvertCassandraSpec
<1>4. \A t \in DOMAIN ConvertElasticsearchCluster :
        \A f \in Fields(V1alpha1, t) : Kept(ConvertElasticsearchCluster[t], f)
  BY ElasticsearchRows, CommonRows DEF ConvertElasticsearchCluster
<1>5. \A t \in DOMAIN ConvertElasticsearchSpec :
        \A f \in Fields(V1alpha1, t) : Kept(ConvertElasticsearchSpec[t], f)
  BY ElasticsearchRows, SMT, Z3, Zenon DEF ConvertElasticsearchSpec
<1>6. \A t \in DOMAIN ConvertCommon :
        \A f \in Fields(V1alpha1, t) : Kept(ConvertCommon[t], f)
  BY CommonRows, PilotRows, SMT, Z3, ZenonT(60) DEF ConvertCommon
<1>7. \A t \in DOMAIN ConvertPilot :
        \A f \in Fields(V1alpha1, t) : Kept(ConvertPilot[t], f)
  BY PilotRows DEF ConvertPilot
<1> HIDE KeptFields, ConversionParts, ConversionDomains DEF Apart
<1> QED
  BY <1>2, <1>3, <1>4, <1>5, <1>6, <1>7, ConversionTables, ZenonT(30)

\* What is converted are structs of v1alpha1, whose fields have distinct names.
LEMMA ConvertedTypes ==
  \A t \in DOMAIN Conversions :
    /\ t \in DOMAIN V1alpha1 /\ ~IsText(t)
    /\ \A f, g \in Fields(V1alpha1, t) : f.name = g.name => f = g
<1> USE DEF Plain, Inline, Ref
<1>1. \A t \in DOMAIN Conversions : t \in DOMAIN V1alpha1 /\ ~IsText(t)
  BY TypeDomains, TypeTables, ConversionDomains, ConversionTables
     DEF IsText, TextTypes
<1>2. \A t \in DOMAIN CassandraTypes :
        \A f, g \in Fields(V1alpha1, t) : f.name = g.name => f = g
  BY CassandraRows, TypeDomains
<1>3. \A t \in DOMAIN ElasticsearchTypes :
        \A f, g \in Fields(V1alpha1, t) : f.name = g.name => f = g
  BY ElasticsearchRows, TypeDomains
<1>4. \A t \in DOMAIN CommonTypes :
        \A f, g \in Fields(V1alpha1, t) : f.name = g.name => f = g
  BY CommonRows, TypeDomains
<1>5. \A t \in DOMAIN PilotTypes :
        \A f, g \in Fields(V1alpha1, t) : f.name = g.name => f = g
  BY PilotRows, TypeDomains
<1>6. \A t \in DOMAIN Conversions :
        t \notin DOMAIN MetaTypes /\ t \notin DOMAIN VersionType
  BY TypeDomains, ConversionDomains, ConversionTables
<1> QED
  BY <1>1, <1>2, <1>3, <1>4, <1>5, <1>6, TypeTables

\* The internal version has the fields of v1alpha1, if in another order.
LEMMA NavigatorFields ==
  \A t \in DOMAIN V1alpha1 : Fields(Navigator, t) = Fields(V1alpha1, t)
<1>1. DOMAIN Navigator = DOMAIN V1alpha1
  BY DEF Navigator
<1>2. \A t \in DOMAIN V1alpha1 :
        t \notin {"CassandraClusterSpec", "ElasticsearchClusterSpec"} =>
          Navigator[t] = V1alpha1[t]
  BY Zenon DEF Navigator
<1>3. Fields(Navigator, "CassandraClusterSpec")
        = Fields(V1alpha1, "CassandraClusterSpec")
  <2>1. Navigator["CassandraClusterSpec"] = 
        <<Inline("NavigatorClusterConfig", "NavigatorClusterConfig"),
         Ref("NodePools", "CassandraClusterNodePool"),
         Inline("Version", "Version"), Ref("Image", "ImageSpec")>>
    BY TypeDomains, TypeTables DEF Navigator
  <2>2. "CassandraClusterSpec" \in DOMAIN Navigator
    BY <1>1, TypeDomains, TypeTables, Zenon
  <2> QED
    BY <2>1, <2>2, CassandraRows, SMT, Z3, Zenon DEF Fields, Range
<1>4. Fields(Navigator, "ElasticsearchClusterSpec")
        = Fields(V1alpha1, "ElasticsearchClusterSpec")
  <2>1. Navigator["ElasticsearchClusterSpec"] = 
       <<Inline("NavigatorClusterConfig", "NavigatorClusterConfig"),
         Plain("Version"), Ref("Image", "ImageSpec"), Ref("Plugins", "scalar"),
         Ref("NodePools", "ElasticsearchClusterNodePool"),
         Ref("MinimumMasters", "scalar")>>
    BY TypeDomains, TypeTables DEF Navigator
  <2>2. "ElasticsearchClusterSpec" \in DOMAIN Navigator
    BY <1>1, TypeDomains, TypeTables, Zenon
  <2> QED
    BY <2>1, <2>2, ElasticsearchRows DEF Fields, Range
<1> QED
  BY <1>1, <1>2, <1>3, <1>4 DEF Fields

\* A field of v1alpha1 is found by its name in either version.
LEMMA FieldByName ==
  ASSUME NEW to \in {V1alpha1, Navigator}, NEW t \in DOMAIN Conversions
  PROVE  /\ Names(to, t) = Names(V1alpha1, t)
         /\ \A f \in Fields(V1alpha1, t) :
              f.name \in Names(V1alpha1, t) /\ Field(to, t, f.name) = f
BY ConvertedTypes, NavigatorFields DEF Names, Field

\* A sequence is the function of its elements.
LEMMA SeqIsFunction ==
  ASSUME NEW S, NEW s \in Seq(S)
  PROVE  s = [j \in DOMAIN s |-> s[j]]
OBVIOUS

\* Assigning a field leaves its value as it was, when the conversion of its type
\* does: a list or a pointer that is cast to the other version loses nothing.
LEMMA AssignedKeeps ==
  ASSUME NEW to, NEW t \in DOMAIN Conversions, NEW f \in Fields(V1alpha1, t),
         NEW y, NEW z,
         f.form = "ref" => y = [j \in DOMAIN y |-> y[j]],
         f.of \in DOMAIN Conversions => z = y
  PROVE  Assigned(to, Conversions[t], f, y, z) = y
<1> DEFINE how == Conversions[t]
<1>1. \A x : f.of \notin Apart => Cast(to, f.of, x) = x
  BY DifferingApart DEF Cast
<1>2. \/ /\ f.name \in how.shared /\ f.name \notin how.called
         /\ f.form = "ref" => f.of \notin Apart
      \/ /\ f.name \in how.called /\ f.name \notin how.shared
         /\ f.of \in DOMAIN Conversions
  BY ConversionsKeep DEF Kept
<1> HIDE DEF how
<1> SUFFICES Assigned(to, how, f, y, z) = y
  BY DEF how
<1>3. CASE /\ f.name \in how.shared /\ f.name \notin how.called
           /\ f.form = "ref" /\ f.of \notin Apart
  BY <1>1, <1>3, Zenon DEF Assigned
<1>4. CASE f.name \in how.shared /\ f.name \notin how.called /\ f.form # "ref"
  BY <1>4, Zenon DEF Assigned
<1>5. CASE /\ f.name \in how.called /\ f.name \notin how.shared
           /\ f.of \in DOMAIN Conversions
  BY <1>5, Zenon DEF Assigned
<1> QED
  BY <1>2, <1>3, <1>4, <1>5

\* A struct all of whose fields are kept is kept, where c has the fields that
\* were converted.
LEMMA FieldsKept ==
  ASSUME NEW to \in {V1alpha1, Navigator}, NEW t \in DOMAIN Conversions,
         NEW x, IsStruct(t, x), NEW c,
         \A f \in Fields(V1alpha1, t) :
           f.of \in DOMAIN Conversions => c[f.name] = x[f.name]
  PROVE  [n \in Names(to, t) |->
            Assigned(to, Conversions[t], Field(to, t, n), x[n], c[n])] = x
<1>1. ASSUME NEW f \in Fields(V1alpha1, t)
      PROVE  Assigned(to, Conversions[t], Field(to, t, f.name), x[f.name], c[f.name])
               = x[f.name]
  <2>1. f.form = "ref" => x[f.name] = [j \in DOMAIN x[f.name] |-> x[f.name][j]]
    BY SeqIsFunction DEF IsStruct
  <2> QED
    BY <2>1, AssignedKeeps, FieldByName
<1>2. \A n \in Names(V1alpha1, t) :
        Assigned(to, Conversions[t], Field(to, t, n), x[n], c[n]) = x[n]
  BY <1>1, Zenon DEF Names
<1>3. x = [n \in Names(V1alpha1, t) |-> x[n]]
  BY Zenon DEF IsStruct
<1> QED
  BY <1>2, <1>3, FieldByName, Zenon

\* An element of a reference is one of its elements.
LEMMA ElementsOf ==
  ASSUME NEW f, NEW y
  PROVE  /\ f.form = "ref" => \A i \in DOMAIN y : y[i] \in Elements(f, y)
         /\ f.form # "ref" => y \in Elements(f, y)
BY Zenon DEF Elements, Range

\* The conversion of a tree of plain values to either version is the tree itself.
LEMMA Convert1Keeps ==
  ASSUME NEW to \in {V1alpha1, Navigator}, NEW t \in DOMAIN Conversions,
         NEW n, NEW x, Shaped1(n, t, x)
  PROVE  Convert1(to, t, x) = x
<1> DEFINE c == [m \in Names(to, t) |->
                   LET f == Field(to, t, m)
                   IN IF f.form = "ref"
                      THEN [j \in DOMAIN x[m] |-> Convert0(to, f.of, x[m][j])]
                      ELSE Convert0(to, f.of, x[m])]
<1>1. /\ IsStruct(t, x)
      /\ \A f \in Fields(V1alpha1, t) :
           \A e \in Elements(f, x[f.name]) : ShapedText(f.name, f.of, e)
  BY ConvertedTypes DEF Shaped1, ShapedBy, ShapedText
<1>2. \A u \in DOMAIN Conversions : \A m, y : ShapedText(m, u, y) => Convert0(to, u, y) = y
  BY ConvertedTypes DEF ShapedText
<1>3. ASSUME NEW f \in Fields(V1alpha1, t), f.of \in DOMAIN Conversions
      PROVE  c[f.name] = x[f.name]
  <2>1. f.name \in Names(to, t) /\ Field(to, t, f.name) = f
    BY FieldByName
  <2>2. CASE f.form = "ref"
    <3>1. x[f.name] = [j \in DOMAIN x[f.name] |-> x[f.name][j]]
      BY <1>1, <2>2, SeqIsFunction DEF IsStruct
    <3>2. c[f.name] = [j \in DOMAIN x[f.name] |-> Convert0(to, f.of, x[f.name][j])]
      BY <2>1, <2>2, Zenon
    <3>3. \A j \in DOMAIN x[f.name] : Convert0(to, f.of, x[f.name][j]) = x[f.name][j]
      BY <1>1, <1>2, <1>3, <2>2, ElementsOf, Zenon
    <3> QED
      BY <3>1, <3>2, <3>3, ZenonT(60)
  <2>3. CASE f.form # "ref"
    BY <1>1, <1>2, <1>3, <2>1, <2>3, ElementsOf, ZenonT(60)
  <2> QED
    BY <2>2, <2>3
<1>4. Convert1(to, t, x) = [m \in Names(to, t) |->
        Assigned(to, Conversions[t], Field(to, t, m), x[m], c[m])]
  BY Zenon DEF Convert1, ConvertBy
<1> HIDE DEF c
<1>5. [m \in Names(to, t) |->
        Assigned(to, Conversions[t], Field(to, t, m), x[m], c[m])] = x
  BY <1>1, <1>3, FieldsKept
<1> QED
  BY <1>4, <1>5, Zenon

\* The conversion of a tree two deep to either version is the tree itself.
LEMMA Convert2Keeps ==
  ASSUME NEW to \in {V1alpha1, Navigator}, NEW t \in DOMAIN Conversions,
         NEW n, NEW x, Shaped2(n, t, x)
  PROVE  Convert2(to, t, x) = x
<1> DEFINE c == [m \in Names(to, t) |->
                   LET f == Field(to, t, m)
                   IN IF f.form = "ref"
                      THEN [j \in DOMAIN x[m] |-> Convert1(to, f.of, x[m][j])]
                      ELSE Convert1(to, f.of, x[m])]
<1>1. /\ IsStruct(t, x)
      /\ \A f \in Fields(V1alpha1, t) :
           \A e \in Elements(f, x[f.name]) : Shaped1(f.name, f.of, e)
  BY ConvertedTypes DEF Shaped2, ShapedBy, ShapedText
<1>2. \A u \in DOMAIN Conversions : \A m, y : Shaped1(m, u, y) => Convert1(to, u, y) = y
  BY Convert1Keeps
<1>3. ASSUME NEW f \in Fields(V1alpha1, t), f.of \in DOMAIN Conversions
      PROVE  c[f.name] = x[f.name]
  <2>1. f.name \in Names(to, t) /\ Field(to, t, f.name) = f
    BY FieldByName
  <2>2. CASE f.form = "ref"
    <3>1. x[f.name] = [j \in DOMAIN x[f.name] |-> x[f.name][j]]
      BY <1>1, <2>2, SeqIsFunction DEF IsStruct
    <3>2. c[f.name] = [j \in DOMAIN x[f.name] |-> Convert1(to, f.of, x[f.name][j])]
      BY <2>1, <2>2, Zenon
    <3>3. \A j \in DOMAIN x[f.name] : Convert1(to, f.of, x[f.name][j]) = x[f.name][j]
      BY <1>1, <1>2, <1>3, <2>2, ElementsOf, Zenon
    <3> QED
      BY <3>1, <3>2, <3>3, ZenonT(60)
  <2>3. CASE f.form # "ref"
    BY <1>1, <1>2, <1>3, <2>1, <2>3, ElementsOf, ZenonT(60)
  <2> QED
    BY <2>2, <2>3
<1>4. Convert2(to, t, x) = [m \in Names(to, t) |->
        Assigned(to, Conversions[t], Field(to, t, m), x[m], c[m])]
  BY Zenon DEF Convert2, ConvertBy
<1> HIDE DEF c
<1>5. [m \in Names(to, t) |->
        Assigned(to, Conversions[t], Field(to, t, m), x[m], c[m])] = x
  BY <1>1, <1>3, FieldsKept
<1> QED
  BY <1>4, <1>5, Zenon

\* The conversion of a tree three deep to either version is the tree itself.
LEMMA Convert3Keeps ==
  ASSUME NEW to \in {V1alpha1, Navigator}, NEW t \in DOMAIN Conversions,
         NEW n, NEW x, Shaped3(n, t, x)
  PROVE  Convert3(to, t, x) = x
<1> DEFINE c == [m \in Names(to, t) |->
                   LET f == Field(to, t, m)
                   IN IF f.form = "ref"
                      THEN [j \in DOMAIN x[m] |-> Convert2(to, f.of, x[m][j])]
                      ELSE Convert2(to, f.of, x[m])]
<1>1. /\ IsStruct(t, x)
      /\ \A f \in Fields(V1alpha1, t) :
           \A e \in Elements(f, x[f.name]) : Shaped2(f.name, f.of, e)
  BY ConvertedTypes DEF Shaped3, ShapedBy, ShapedText
<1>2. \A u \in DOMAIN Conversions : \A m, y : Shaped2(m, u, y) => Convert2(to, u, y) = y
  BY Convert2Keeps
<1>3. ASSUME NEW f \in Fields(V1alpha1, t), f.of \in DOMAIN Conversions
      PROVE  c[f.name] = x[f.name]
  <2>1. f.name \in Names(to, t) /\ Field(to, t, f.name) = f
    BY FieldByName
  <2>2. CASE f.form = "ref"
    <3>1. x[f.name] = [j \in DOMAIN x[f.name] |-> x[f.name][j]]
      BY <1>1, <2>2, SeqIsFunction DEF IsStruct
    <3>2. c[f.name] = [j \in DOMAIN x[f.name] |-> Convert2(to, f.of, x[f.name][j])]
      BY <2>1, <2>2, Zenon
    <3>3. \A j \in DOMAIN x[f.name] : Convert2(to, f.of, x[f.name][j]) = x[f.name][j]
      BY <1>1, <1>2, <1>3, <2>2, ElementsOf, Zenon
    <3> QED
      BY <3>1, <3>2, <3>3, ZenonT(60)
  <2>3. CASE f.form # "ref"
    BY <1>1, <1>2, <1>3, <2>1, <2>3, ElementsOf, ZenonT(60)
  <2> QED
    BY <2>2, <2>3
<1>4. Convert3(to, t, x) = [m \in Names(to, t) |->
        Assigned(to, Conversions[t], Field(to, t, m), x[m], c[m])]
  BY Zenon DEF Convert3, ConvertBy
<1> HIDE DEF c
<1>5. [m \in Names(to, t) |->
        Assigned(to, Conversions[t], Field(to, t, m), x[m], c[m])] = x
  BY <1>1, <1>3, FieldsKept
<1> QED
  BY <1>4, <1>5, Zenon

\* The conversion of a tree four deep, as the objects are, to either version is the
\* tree itself.
LEMMA Convert4Keeps ==
  ASSUME NEW to \in {V1alpha1, Navigator}, NEW t \in DOMAIN Conversions,
         NEW n, NEW x, Shaped4(n, t, x)
  PROVE  Convert4(to, t, x) = x
<1> DEFINE c == [m \in Names(to, t) |->
                   LET f == Field(to, t, m)
                   IN IF f.form = "ref"
                      THEN [j \in DOMAIN x[m] |-> Convert3(to, f.of, x[m][j])]
                      ELSE Convert3(to, f.of, x[m])]
<1>1. /\ IsStruct(t, x)
      /\ \A f \in Fields(V1alpha1, t) :
           \A e \in Elements(f, x[f.name]) : Shaped3(f.name, f.of, e)
  BY ConvertedTypes DEF Shaped4, ShapedBy, ShapedText
<1>2. \A u \in DOMAIN Conversions : \A m, y : Shaped3(m, u, y) => Convert3(to, u, y) = y
  BY Convert3Keeps
<1>3. ASSUME NEW f \in Fields(V1alpha1, t), f.of \in DOMAIN Conversions
      PROVE  c[f.name] = x[f.name]
  <2>1. f.name \in Names(to, t) /\ Field(to, t, f.name) = f
    BY FieldByName
  <2>2. CASE f.form = "ref"
    <3>1. x[f.name] = [j \in DOMAIN x[f.name] |-> x[f.name][j]]
      BY <1>1, <2>2, SeqIsFunction DEF IsStruct
    <3>2. c[f.name] = [j \in DOMAIN x[f.name] |-> Convert3(to, f.of, x[f.name][j])]
      BY <2>1, <2>2, Zenon
    <3>3. \A j \in DOMAIN x[f.name] : Convert3(to, f.of, x[f.name][j]) = x[f.name][j]
      BY <1>1, <1>2, <1>3, <2>2, ElementsOf, Zenon
    <3> QED
      BY <3>1, <3>2, <3>3, ZenonT(60)
  <2>3. CASE f.form # "ref"
    BY <1>1, <1>2, <1>3, <2>1, <2>3, ElementsOf, ZenonT(60)
  <2> QED
    BY <2>2, <2>3
<1>4. Convert4(to, t, x) = [m \in Names(to, t) |->
        Assigned(to, Conversions[t], Field(to, t, m), x[m], c[m])]
  BY Zenon DEF Convert4, ConvertBy
<1> HIDE DEF c
<1>5. [m \in Names(to, t) |->
        Assigned(to, Conversions[t], Field(to, t, m), x[m], c[m])] = x
  BY <1>1, <1>3, FieldsKept
<1> QED
  BY <1>4, <1>5, Zenon

\* The conversion of a tree five deep, as the lists are, to either version is the
\* tree itself.
LEMMA Convert5Keeps ==
  ASSUME NEW to \in {V1alpha1, Navigator}, NEW t \in DOMAIN Conversions,
         NEW n, NEW x, Shaped5(n, t, x)
  PROVE  Convert5(to, t, x) = x
<1> DEFINE c == [m \in Names(to, t) |->
                   LET f == Field(to, t, m)
                   IN IF f.form = "ref"
                      THEN [j \in DOMAIN x[m] |-> Convert4(to, f.of, x[m][j])]
                      ELSE Convert4(to, f.of, x[m])]
<1>1. /\ IsStruct(t, x)
      /\ \A f \in Fields(V1alpha1, t) :
           \A e \in Elements(f, x[f.name]) : Shaped4(f.name, f.of, e)
  BY ConvertedTypes DEF Shaped5, ShapedBy, ShapedText
<1>2. \A u \in DOMAIN Conversions : \A m, y : Shaped4(m, u, y) => Convert4(to, u, y) = y
  BY Convert4Keeps
<1>3. ASSUME NEW f \in Fields(V1alpha1, t), f.of \in DOMAIN Conversions
      PROVE  c[f.name] = x[f.name]
  <2>1. f.name \in Names(to, t) /\ Field(to, t, f.name) = f
    BY FieldByName
  <2>2. CASE f.form = "ref"
    <3>1. x[f.name] = [j \in DOMAIN x[f.name] |-> x[f.name][j]]
      BY <1>1, <2>2, SeqIsFunction DEF IsStruct
    <3>2. c[f.name] = [j \in DOMAIN x[f.name] |-> Convert4(to, f.of, x[f.name][j])]
      BY <2>1, <2>2, Zenon
    <3>3. \A j \in DOMAIN x[f.name] : Convert4(to, f.of, x[f.name][j]) = x[f.name][j]
      BY <1>1, <1>2, <1>3, <2>2, ElementsOf, Zenon
    <3> QED
      BY <3>1, <3>2, <3>3, ZenonT(60)
  <2>3. CASE f.form # "ref"
    BY <1>1, <1>2, <1>3, <2>1, <2>3, ElementsOf, ZenonT(60)
  <2> QED
    BY <2>2, <2>3
<1>4. Convert5(to, t, x) = [m \in Names(to, t) |->
        Assigned(to, Conversions[t], Field(to, t, m), x[m], c[m])]
  BY Zenon DEF Convert5, ConvertBy
<1> HIDE DEF c
<1>5. [m \in Names(to, t) |->
        Assigned(to, Conversions[t], Field(to, t, m), x[m], c[m])] = x
  BY <1>1, <1>3, FieldsKept
<1> QED
  BY <1>4, <1>5, Zenon

-----------------------------------------------------------------------------
(* Trees, field by field.                                                  *)

\* The value of a field, by the depth of what the field may hold.
Fits0(f, v) == /\ f.form = "ref" => v \in Seq(Range(v))
               /\ \A e \in Elements(f, v) : ShapedText(f.name, f.of, e)

Fits1(f, v) == /\ f.form = "ref" => v \in Seq(Range(v))
               /\ \A e \in Elements(f, v) : Shaped1(f.name, f.of, e)

Fits2(f, v) == /\ f.form = "ref" => v \in Seq(Range(v))
               /\ \A e \in Elements(f, v) : Shaped2(f.name, f.of, e)

Fits3(f, v) == /\ f.form = "ref" => v \in Seq(Range(v))
               /\ \A e \in Elements(f, v) : Shaped3(f.name, f.of, e)

Fits4(f, v) == /\ f.form = "ref" => v \in Seq(Range(v))
               /\ \A e \in Elements(f, v) : Shaped4(f.name, f.of, e)

\* A struct with the fields of its type.
Struct(t, x) == /\ DOMAIN x = Names(V1alpha1, t)
                /\ x = [m \in Names(V1alpha1, t) |-> x[m]]

\* A struct has the shape of its type when each of its fields has.
LEMMA ShapedByField ==
  ASSUME NEW n, NEW t, ~IsText(t), NEW x
  PROVE  /\ Shaped1(n, t, x) <=>
              Struct(t, x) /\ \A f \in Fields(V1alpha1, t) : Fits0(f, x[f.name])
         /\ Shaped2(n, t, x) <=>
              Struct(t, x) /\ \A f \in Fields(V1alpha1, t) : Fits1(f, x[f.name])
         /\ Shaped3(n, t, x) <=>
              Struct(t, x) /\ \A f \in Fields(V1alpha1, t) : Fits2(f, x[f.name])
         /\ Shaped4(n, t, x) <=>
              Struct(t, x) /\ \A f \in Fields(V1alpha1, t) : Fits3(f, x[f.name])
         /\ Shaped5(n, t, x) <=>
              Struct(t, x) /\ \A f \in Fields(V1alpha1, t) : Fits4(f, x[f.name])
<1>1. IsStruct(t, x) <=>
        /\ Struct(t, x)
        /\ \A f \in Fields(V1alpha1, t) :
             f.form = "ref" => x[f.name] \in Seq(Range(x[f.name]))
  BY Zenon DEF IsStruct, Struct
<1>2. Shaped1(n, t, x) <=>
        IsStruct(t, x) /\ \A f \in Fields(V1alpha1, t) :
          \A e \in Elements(f, x[f.name]) : ShapedText(f.name, f.of, e)
  BY Zenon DEF Shaped1, ShapedBy, ShapedText
<1>3. Shaped2(n, t, x) <=>
        IsStruct(t, x) /\ \A f \in Fields(V1alpha1, t) :
          \A e \in Elements(f, x[f.name]) : Shaped1(f.name, f.of, e)
  BY Zenon DEF Shaped2, ShapedBy, ShapedText
<1>4. Shaped3(n, t, x) <=>
        IsStruct(t, x) /\ \A f \in Fields(V1alpha1, t) :
          \A e \in Elements(f, x[f.name]) : Shaped2(f.name, f.of, e)
  BY Zenon DEF Shaped3, ShapedBy, ShapedText
<1>5. Shaped4(n, t, x) <=>
        IsStruct(t, x) /\ \A f \in Fields(V1alpha1, t) :
          \A e \in Elements(f, x[f.name]) : Shaped3(f.name, f.of, e)
  BY Zenon DEF Shaped4, ShapedBy, ShapedText
<1>6. Shaped5(n, t, x) <=>
        IsStruct(t, x) /\ \A f \in Fields(V1alpha1, t) :
          \A e \in Elements(f, x[f.name]) : Shaped4(f.name, f.of, e)
  BY Zenon DEF Shaped5, ShapedBy, ShapedText
<1> QED
  BY <1>1, <1>2, <1>3, <1>4, <1>5, <1>6, Zenon DEF Fits0, Fits1, Fits2, Fits3, Fits4

\* What the field of a body asks for and what the field of an object holds.
Meets0(f, a, g) ==
  IF f.form # "ref" THEN HoldsText(f.of, a, g)
  ELSE a = <<>> \/ (Len(a) = Len(g) /\ \A i \in DOMAIN a : HoldsText(f.of, a[i], g[i]))

Meets1(f, a, g) ==
  IF f.form # "ref" THEN Holds1(f.of, a, g)
  ELSE a = <<>> \/ (Len(a) = Len(g) /\ \A i \in DOMAIN a : Holds1(f.of, a[i], g[i]))

Meets2(f, a, g) ==
  IF f.form # "ref" THEN Holds2(f.of, a, g)
  ELSE a = <<>> \/ (Len(a) = Len(g) /\ \A i \in DOMAIN a : Holds2(f.of, a[i], g[i]))

\* A struct holds what was asked for when each of its fields does.
LEMMA HoldsByField ==
  ASSUME NEW t, ~IsText(t), NEW asked, NEW got, DOMAIN got = Names(V1alpha1, t)
  PROVE  /\ (\A f \in Fields(V1alpha1, t) : Meets0(f, asked[f.name], got[f.name]))
              => Holds1(t, asked, got)
         /\ (\A f \in Fields(V1alpha1, t) : Meets1(f, asked[f.name], got[f.name]))
              => Holds2(t, asked, got)
         /\ (\A f \in Fields(V1alpha1, t) : Meets2(f, asked[f.name], got[f.name]))
              => Holds3(t, asked, got)
<1>1. (\A f \in Fields(V1alpha1, t) : Meets0(f, asked[f.name], got[f.name]))
        => Holds1(t, asked, got)
  BY Zenon DEF Holds1, HoldsBy, Meets0
<1>2. (\A f \in Fields(V1alpha1, t) : Meets1(f, asked[f.name], got[f.name]))
        => Holds2(t, asked, got)
  BY Zenon DEF Holds2, HoldsBy, Meets1
<1>3. (\A f \in Fields(V1alpha1, t) : Meets2(f, asked[f.name], got[f.name]))
        => Holds3(t, asked, got)
  BY Zenon DEF Holds3, HoldsBy, Meets2
<1> QED
  BY <1>1, <1>2, <1>3

\* Every field holds itself, and so does every tree.
LEMMA HoldsItself ==
  ASSUME NEW t, NEW n, NEW x
  PROVE  /\ ShapedText(n, t, x) => HoldsText(t, x, x)
         /\ Shaped1(n, t, x) => Holds1(t, x, x)
         /\ Shaped2(n, t, x) => Holds2(t, x, x)
         /\ Shaped3(n, t, x) => Holds3(t, x, x)
<1>0. \A u, m, y : ShapedText(m, u, y) => HoldsText(u, y, y)
  BY DEF ShapedText, HoldsText
<1>1. \A u, m, y : Shaped1(m, u, y) => Holds1(u, y, y)
  <2> SUFFICES ASSUME NEW u, NEW m, NEW y, Shaped1(m, u, y), ~IsText(u)
               PROVE  Holds1(u, y, y)
    BY <1>0, Zenon DEF Shaped1, ShapedBy, Holds1, HoldsBy
  <2>1. /\ DOMAIN y = Names(V1alpha1, u)
        /\ \A f \in Fields(V1alpha1, u) : Fits0(f, y[f.name])
    BY ShapedByField, Zenon DEF Struct
  <2>2. \A f \in Fields(V1alpha1, u) : Meets0(f, y[f.name], y[f.name])
    BY <1>0, <2>1, ElementsOf, Zenon DEF Fits0, Meets0
  <2> QED
    BY <2>1, <2>2, HoldsByField, Zenon
<1>2. \A u, m, y : Shaped2(m, u, y) => Holds2(u, y, y)
  <2> SUFFICES ASSUME NEW u, NEW m, NEW y, Shaped2(m, u, y), ~IsText(u)
               PROVE  Holds2(u, y, y)
    BY <1>0, Zenon DEF Shaped2, ShapedBy, Holds2, HoldsBy
  <2>1. /\ DOMAIN y = Names(V1alpha1, u)
        /\ \A f \in Fields(V1alpha1, u) : Fits1(f, y[f.name])
    BY ShapedByField, Zenon DEF Struct
  <2>2. \A f \in Fields(V1alpha1, u) : Meets1(f, y[f.name], y[f.name])
    BY <1>1, <2>1, ElementsOf, Zenon DEF Fits1, Meets1
  <2> QED
    BY <2>1, <2>2, HoldsByField, Zenon
<1>3. Shaped3(n, t, x) => Holds3(t, x, x)
  <2> SUFFICES ASSUME Shaped3(n, t, x), ~IsText(t)
               PROVE  Holds3(t, x, x)
    BY <1>0, Zenon DEF Shaped3, ShapedBy, Holds3, HoldsBy
  <2>1. /\ DOMAIN x = Names(V1alpha1, t)
        /\ \A f \in Fields(V1alpha1, t) : Fits2(f, x[f.name])
    BY ShapedByField, Zenon DEF Struct
  <2>2. \A f \in Fields(V1alpha1, t) : Meets2(f, x[f.name], x[f.name])
    BY <1>2, <2>1, ElementsOf, Zenon DEF Fits2, Meets2
  <2> QED
    BY <2>1, <2>2, HoldsByField, Zenon
<1> QED
  BY <1>0, <1>1, <1>2, <1>3

\* So does a field.
LEMMA MeetsItself ==
  ASSUME NEW f, NEW v
  PROVE  /\ Fits0(f, v) => Meets0(f, v, v)
         /\ Fits1(f, v) => Meets1(f, v, v)
         /\ Fits2(f, v) => Meets2(f, v, v)
BY HoldsItself, ElementsOf, Zenon DEF Fits0, Fits1, Fits2, Meets0, Meets1, Meets2

-----------------------------------------------------------------------------
(* Defaults.                                                               *)

\* Defaulting leaves a field alone or gives a value to one that was left out.
Filled(f, a, g) ==
  \/ g = a
  \/ /\ f.of = "scalar"
     /\ \E v \in Int : \/ f.form = "plain" /\ Num(a) = 0 /\ g = <<f.name, v>>
                       \/ f.form = "ref" /\ a = <<>> /\ g = One(f.name, v)

\* A field that was filled has the shape it had and holds what was asked for.
LEMMA FilledFits ==
  ASSUME NEW f, NEW a, NEW g, Filled(f, a, g)
  PROVE  /\ Fits0(f, a) => Fits0(f, g) /\ Meets0(f, a, g)
         /\ Fits1(f, a) => Fits1(f, g) /\ Meets1(f, a, g)
<1>1. CASE g = a
  BY <1>1, MeetsItself
<1>2. ASSUME NEW v \in Int, f.of = "scalar", f.form = "plain", Num(a) = 0,
             g = <<f.name, v>>
      PROVE  /\ Fits0(f, g) /\ Meets0(f, a, g)
             /\ Fits1(f, g) /\ Meets1(f, a, g)
  <2>1. /\ f.form # "ref" /\ Elements(f, g) = {g} /\ IsText(f.of)
        /\ ShapedText(f.name, f.of, g) /\ HoldsText(f.of, a, g)
    BY <1>2 DEF Elements, IsText, ShapedText, HoldsText, Num
  <2> QED
    BY <2>1, Zenon DEF Fits0, Fits1, Meets0, Meets1, Shaped1, ShapedBy, Holds1, HoldsBy
<1>3. ASSUME NEW v \in Int, f.of = "scalar", f.form = "ref", a = <<>>,
             g = One(f.name, v)
      PROVE  /\ Fits0(f, g) /\ Meets0(f, a, g)
             /\ Fits1(f, g) /\ Meets1(f, a, g)
  <2>1. /\ Elements(f, g) = {<<f.name, v>>} /\ IsText(f.of)
        /\ g \in Seq(Range(g)) /\ ShapedText(f.name, f.of, <<f.name, v>>)
    BY <1>3 DEF Elements, IsText, ShapedText, One, Range
  <2>2. Shaped1(f.name, f.of, <<f.name, v>>)
    BY <2>1, Zenon DEF Shaped1, ShapedBy
  <2>3. Meets0(f, a, g) /\ Meets1(f, a, g)
    BY <1>3 DEF Meets0, Meets1
  <2> QED
    BY <2>1, <2>2, <2>3 DEF Fits0, Fits1
<1> QED
  BY <1>1, <1>2, <1>3 DEF Filled

\* Likewise for a struct whose fields were filled.
LEMMA FilledStruct ==
  ASSUME NEW n, NEW t, ~IsText(t), NEW x, NEW y, Struct(t, y),
         \A f \in Fields(V1alpha1, t) : Filled(f, x[f.name], y[f.name])
  PROVE  /\ Shaped1(n, t, x) => Shaped1(n, t, y) /\ Holds1(t, x, y)
         /\ Shaped2(n, t, x) => Shaped2(n, t, y) /\ Holds2(t, x, y)
<1>1. DOMAIN y = Names(V1alpha1, t)
  BY DEF Struct
<1>2. ASSUME Shaped1(n, t, x) PROVE Shaped1(n, t, y) /\ Holds1(t, x, y)
  <2>1. \A f \in Fields(V1alpha1, t) :
          Fits0(f, y[f.name]) /\ Meets0(f, x[f.name], y[f.name])
    BY <1>2, ShapedByField, FilledFits, Zenon
  <2> QED
    BY <1>1, <2>1, ShapedByField, HoldsByField, Zenon
<1>3. ASSUME Shaped2(n, t, x) PROVE Shaped2(n, t, y) /\ Holds2(t, x, y)
  <2>1. \A f \in Fields(V1alpha1, t) :
          Fits1(f, y[f.name]) /\ Meets1(f, x[f.name], y[f.name])
    BY <1>3, ShapedByField, FilledFits, Zenon
  <2> QED
    BY <1>1, <2>1, ShapedByField, HoldsByField, Zenon
<1> QED
  BY <1>2, <1>3

\* A struct with one field replaced.
LEMMA Edited ==
  ASSUME NEW t, NEW x, Struct(t, x), NEW f \in Fields(V1alpha1, t), NEW v
  PROVE  LET y == [x EXCEPT ![f.name] = v]
         IN /\ Struct(t, y) /\ y[f.name] = v
            /\ \A g \in Fields(V1alpha1, t) : g.name # f.name => y[g.name] = x[g.name]
BY Zenon DEF Struct, Names

\* SetDefaults_ImageSpec fills in the pull policy, and does nothing a second time.
LEMMA ImageDefaults ==
  ASSUME NEW n, NEW x, Struct("ImageSpec", x)
  PROVE  LET y == SetDefaults_ImageSpec(x)
         IN /\ Shaped1(n, "ImageSpec", x) =>
                 Shaped1(n, "ImageSpec", y) /\ Holds1("ImageSpec", x, y)
            /\ Shaped2(n, "ImageSpec", x) =>
                 Shaped2(n, "ImageSpec", y) /\ Holds2("ImageSpec", x, y)
            /\ SetDefaults_ImageSpec(y) = y
<1> DEFINE f == Plain("PullPolicy")
           v == IF Num(x.PullPolicy) = 0 THEN <<"PullPolicy", 1>> ELSE x.PullPolicy
           y == [x EXCEPT ![f.name] = v]
<1>1. /\ f \in Fields(V1alpha1, "ImageSpec") /\ f.name = "PullPolicy"
      /\ \A g \in Fields(V1alpha1, "ImageSpec") : g.name = f.name => g = f
  BY CommonRows DEF Plain
<1>2. y = SetDefaults_ImageSpec(x)
  BY <1>1 DEF SetDefaults_ImageSpec
<1> HIDE DEF f, v
<1>3. /\ Struct("ImageSpec", y) /\ y[f.name] = v
      /\ \A g \in Fields(V1alpha1, "ImageSpec") : g.name # f.name => y[g.name] = x[g.name]
  BY <1>1, Edited
<1>4. Filled(f, x[f.name], v)
  BY <1>1 DEF Filled, f, v, Plain
<1>5. SetDefaults_ImageSpec(y) = [y EXCEPT ![f.name] = y[f.name]]
  BY <1>1, <1>3, Zenon DEF SetDefaults_ImageSpec, v, Num
<1> HIDE DEF y
<1>6. [y EXCEPT ![f.name] = y[f.name]] = y
  BY <1>3, Zenon DEF Struct
<1>7. \A g \in Fields(V1alpha1, "ImageSpec") : Filled(g, x[g.name], y[g.name])
  BY <1>1, <1>3, <1>4, Zenon DEF Filled
<1>8. ~IsText("ImageSpec")
  BY DEF IsText, TextTypes
<1> QED
  BY <1>2, <1>3, <1>5, <1>6, <1>7, <1>8, FilledStruct, ZenonT(30)

\* OrElse gives a value where there was none, and that only once.
LEMMA OrElseFills ==
  ASSUME NEW n, NEW r, NEW v \in Int
  PROVE  /\ OrElse(r, n, v) # <<>> /\ Filled(Ref(n, "scalar"), r, OrElse(r, n, v))
         /\ r # <<>> => OrElse(r, n, v) = r
BY DEF OrElse, One, Filled, Ref

\* The defaults of a pool of Cassandra fill in where its nodes are and how many.
LEMMA CassandraPoolDefaults ==
  ASSUME NEW np, Shaped2("NodePools", "CassandraClusterNodePool", np)
  PROVE  LET y == SetDefaults_CassandraClusterNodePool(np)
         IN /\ Shaped2("NodePools", "CassandraClusterNodePool", y)
            /\ Holds2("CassandraClusterNodePool", np, y)
            /\ SetDefaults_CassandraClusterNodePool(y) = y
            /\ y.Replicas # <<>>
<1> DEFINE t    == "CassandraClusterNodePool"
           F    == Fields(V1alpha1, t)
           y    == SetDefaults_CassandraClusterNodePool(np)
           Here == {"Datacenter", "Rack", "Replicas"}
<1>1. /\ Plain("Name") \in F /\ \A n \in Here : Ref(n, "scalar") \in F
      /\ \A f \in F : f.name \in Here => f = Ref(f.name, "scalar")
  BY CassandraRows DEF Plain, Inline, Ref
<1>2. ~IsText(t) /\ Struct(t, np) /\ Num(np.Name) \in Int
  <2>1. ~IsText(t)
    BY DEF IsText, TextTypes
  <2>2. Struct(t, np) /\ \A f \in F : Fits1(f, np[f.name])
    BY <2>1, ShapedByField, Zenon
  <2>3. Fits1(Plain("Name"), np.Name)
    BY <1>1, <2>2 DEF Plain
  <2>4. Num(np.Name) \in Int
    BY <2>3 DEF Fits1, Elements, Plain, Shaped1, ShapedBy, ShapedText, IsText, Num
  <2> QED
    BY <2>1, <2>2, <2>4
<1>3. Here \subseteq Names(V1alpha1, t)
  BY <1>1, SMTT(30) DEF Names, Ref
<1>4. /\ Struct(t, y) /\ \A m \in Names(V1alpha1, t) \ Here : y[m] = np[m]
      /\ y.Datacenter = OrElse(np.Datacenter, "Datacenter", 1)
      /\ y.Rack = OrElse(np.Rack, "Rack", Num(np.Name))
      /\ y.Replicas = OrElse(np.Replicas, "Replicas", 1)
  BY <1>2, <1>3, Zenon DEF Struct, SetDefaults_CassandraClusterNodePool
<1>5. \A f \in F : Filled(f, np[f.name], y[f.name])
  <2>1. \A m \in Here : Filled(Ref(m, "scalar"), np[m], y[m])
    BY <1>2, <1>4, OrElseFills
  <2>2. \A f \in F : f.name \in Names(V1alpha1, t)
    BY DEF Names
  <2> QED
    BY <1>1, <1>4, <2>1, <2>2 DEF Filled
<1>6. y.Datacenter # <<>> /\ y.Rack # <<>> /\ y.Replicas # <<>>
  BY <1>2, <1>4, OrElseFills
<1>7. SetDefaults_CassandraClusterNodePool(y) = y
  <2> HIDE DEF y
  <2>1. SetDefaults_CassandraClusterNodePool(y)
          = [y EXCEPT !.Datacenter = y.Datacenter, !.Rack = y.Rack,
                      !.Replicas = y.Replicas]
    BY <1>6, SMT, Z3, Zenon DEF SetDefaults_CassandraClusterNodePool, OrElse
  <2> QED
    BY <1>4, <2>1, Zenon DEF Struct
<1> HIDE DEF y
<1> QED
  BY <1>2, <1>4, <1>5, <1>6, <1>7, FilledStruct, Zenon DEF y

\* The defaults of a pool of Elasticsearch fill in how many nodes it has.
LEMMA ElasticsearchPoolDefaults ==
  ASSUME NEW np, Shaped2("NodePools", "ElasticsearchClusterNodePool", np)
  PROVE  LET y == SetDefaults_ElasticsearchClusterNodePool(np)
         IN /\ Shaped2("NodePools", "ElasticsearchClusterNodePool", y)
            /\ Holds2("ElasticsearchClusterNodePool", np, y)
            /\ SetDefaults_ElasticsearchClusterNodePool(y) = y
            /\ y.Replicas # <<>>
<1> DEFINE t == "ElasticsearchClusterNodePool"
           F == Fields(V1alpha1, t)
           y == SetDefaults_ElasticsearchClusterNodePool(np)
<1>1. /\ Ref("Replicas", "scalar") \in F
      /\ \A f \in F : f.name = "Replicas" => f = Ref("Replicas", "scalar")
  BY ElasticsearchRows DEF Plain, Inline, Ref
<1>2. ~IsText(t) /\ Struct(t, np)
  <2>1. ~IsText(t)
    BY DEF IsText, TextTypes
  <2> QED
    BY <2>1, ShapedByField
<1>3. /\ "Replicas" \in Names(V1alpha1, t)
      /\ \A f \in F : f.name \in Names(V1alpha1, t)
  BY <1>1 DEF Names, Ref
<1>4. /\ Struct(t, y) /\ \A m \in Names(V1alpha1, t) \ {"Replicas"} : y[m] = np[m]
      /\ y.Replicas = OrElse(np.Replicas, "Replicas", 1)
  BY <1>2, <1>3 DEF Struct, SetDefaults_ElasticsearchClusterNodePool
<1>5. y.Replicas # <<>> /\ Filled(Ref("Replicas", "scalar"), np.Replicas, y.Replicas)
  BY <1>4, OrElseFills, SMT, Z3, Zenon
<1>6. \A f \in F : Filled(f, np[f.name], y[f.name])
  BY <1>1, <1>3, <1>4, <1>5 DEF Filled
<1>7. SetDefaults_ElasticsearchClusterNodePool(y) = y
  <2> HIDE DEF y
  <2>1. SetDefaults_ElasticsearchClusterNodePool(y)
          = [y EXCEPT !.Replicas = y.Replicas]
    BY <1>5 DEF SetDefaults_ElasticsearchClusterNodePool, OrElse
  <2> QED
    BY <1>4, <2>1 DEF Struct
<1> HIDE DEF y
<1> QED
  BY <1>2, <1>4, <1>5, <1>6, <1>7, FilledStruct, SMT, Z3, Zenon DEF y

\* A list of defaulted elements, for a field of the spec.
LEMMA ListDefaults ==
  ASSUME NEW f, f.form = "ref", NEW v, Fits2(f, v), NEW w,
         w = [i \in DOMAIN v |-> w[i]],
         \A i \in DOMAIN v : Shaped2(f.name, f.of, w[i]) /\ Holds2(f.of, v[i], w[i])
  PROVE  /\ Fits2(f, w) /\ Meets2(f, v, w)
         /\ DOMAIN w = DOMAIN v /\ \A e \in Range(w) : \E i \in DOMAIN v : e = w[i]
<1>1. v \in Seq(Range(v)) /\ DOMAIN w = DOMAIN v
  BY Zenon DEF Fits2
<1>2. w \in Seq(Range(w)) /\ Len(w) = Len(v)
  BY <1>1 DEF Range
<1>3. \A e \in Range(w) : \E i \in DOMAIN v : e = w[i]
  BY <1>1 DEF Range
<1>4. Elements(f, w) = Range(w)
  BY DEF Elements
<1> QED
  BY <1>1, <1>2, <1>3, <1>4, Zenon DEF Fits2, Meets2

\* The defaults of the configuration are those of the image in it.
LEMMA ConfigDefaults ==
  ASSUME NEW n, NEW x, Shaped2(n, "NavigatorClusterConfig", x)
  PROVE  LET y == [x EXCEPT !.PilotImage = SetDefaults_ImageSpec(@)]
         IN /\ Shaped2(n, "NavigatorClusterConfig", y)
            /\ Holds2("NavigatorClusterConfig", x, y)
            /\ SetDefaults_ImageSpec(y.PilotImage) = y.PilotImage
            /\ Struct("NavigatorClusterConfig", y)
<1> DEFINE t == "NavigatorClusterConfig"
           F == Fields(V1alpha1, t)
           f == Inline("PilotImage", "ImageSpec")
           v == SetDefaults_ImageSpec(x.PilotImage)
           y == [x EXCEPT ![f.name] = v]
<1>1. /\ f \in F /\ f.name = "PilotImage" /\ f.form # "ref" /\ f.of = "ImageSpec"
      /\ \A g \in F : g.name = f.name => g = f
  BY CommonRows DEF Plain, Inline
<1>2. ~IsText(t) /\ ~IsText("ImageSpec")
  BY DEF IsText, TextTypes
<1> HIDE DEF f
<1>3. Struct(t, x) /\ \A g \in F : Fits1(g, x[g.name])
  BY <1>2, ShapedByField, Zenon
<1>4. Shaped1("PilotImage", "ImageSpec", x.PilotImage)
  BY <1>1, <1>3, ElementsOf, SMT, Z3, Zenon DEF Fits1
<1>5. /\ Shaped1("PilotImage", "ImageSpec", v)
      /\ Holds1("ImageSpec", x.PilotImage, v) /\ SetDefaults_ImageSpec(v) = v
  BY <1>2, <1>4, ImageDefaults, ShapedByField, Zenon
<1>6. Fits1(f, v) /\ Meets1(f, x[f.name], v)
  BY <1>1, <1>5 DEF Fits1, Meets1, Elements
<1>7. y = [x EXCEPT !.PilotImage = SetDefaults_ImageSpec(@)]
  BY <1>1
<1> HIDE DEF v
<1>8. /\ Struct(t, y) /\ y[f.name] = v
      /\ \A g \in F : g.name # f.name => y[g.name] = x[g.name]
  BY <1>1, <1>3, Edited
<1> HIDE DEF y
<1>9. \A g \in F : Fits1(g, y[g.name]) /\ Meets1(g, x[g.name], y[g.name])
  BY <1>1, <1>3, <1>6, <1>8, MeetsItself, Zenon
<1>10. Shaped2(n, t, y) /\ Holds2(t, x, y)
  BY <1>2, <1>8, <1>9, ShapedByField, HoldsByField, Zenon DEF Struct
<1> QED
  BY <1>1, <1>5, <1>7, <1>8, <1>10, Zenon

ClusterKinds == {"CassandraCluster", "ElasticsearchCluster"}

PoolType(k) == IF k = "CassandraCluster" THEN "CassandraClusterNodePool"
               ELSE "ElasticsearchClusterNodePool"

\* The fields of the spec of a cluster that have defaults, and their types.
LEMMA ClusterSpecFields ==
  ASSUME NEW k \in ClusterKinds
  PROVE  LET t    == SpecType[k]
             F    == Fields(V1alpha1, t)
             Here == {Inline("NavigatorClusterConfig", "NavigatorClusterConfig"),
                      Ref("NodePools", PoolType(k)), Ref("Image", "ImageSpec")}
         IN /\ ~IsText(t) /\ Here \subseteq F
            /\ \A f \in F, g \in Here : f.name = g.name => f = g
            /\ \A g \in Here : g.name \in Names(V1alpha1, t)
<1> USE DEF Plain, Inline, Ref, PoolType, Names
<1>1. CASE k = "CassandraCluster"
  BY <1>1, CassandraRows, SMT, Z3, Zenon DEF SpecType, IsText, TextTypes
<1>2. CASE k = "ElasticsearchCluster"
  BY <1>2, ElasticsearchRows, SMT, Z3, Zenon DEF SpecType, IsText, TextTypes
<1> QED
  BY <1>1, <1>2 DEF ClusterKinds

\* The defaults of a pool, whatever the kind of the cluster.
LEMMA PoolDefaults ==
  ASSUME NEW k \in ClusterKinds, NEW np, Shaped2("NodePools", PoolType(k), np)
  PROVE  LET y == DefaultPool(k, np)
         IN /\ Shaped2("NodePools", PoolType(k), y) /\ Holds2(PoolType(k), np, y)
            /\ DefaultPool(k, y) = y /\ y.Replicas # <<>>
<1>1. CASE k = "CassandraCluster"
  BY <1>1, CassandraPoolDefaults DEF PoolType, DefaultPool
<1>2. CASE k = "ElasticsearchCluster"
  BY <1>2, ElasticsearchPoolDefaults DEF PoolType, DefaultPool
<1> QED
  BY <1>1, <1>2 DEF ClusterKinds

\* The defaults of the spec of a cluster keep its shape and hold what was asked
\* for; a second time they do nothing, and every pool has a number of replicas.
LEMMA SpecDefaults ==
  ASSUME NEW k \in ClusterKinds, NEW x, Shaped3("Spec", SpecType[k], x)
  PROVE  LET y == DefaultSpec(k, x)
         IN /\ Shaped3("Spec", SpecType[k], y) /\ Holds3(SpecType[k], x, y)
            /\ DefaultSpec(k, y) = y
            /\ \A np \in Range(y.NodePools) : np.Replicas # <<>>
<1> DEFINE t == SpecType[k]
           F == Fields(V1alpha1, t)
           C == Inline("NavigatorClusterConfig", "NavigatorClusterConfig")
           P == Ref("NodePools", PoolType(k))
           I == Ref("Image", "ImageSpec")
           c == [x.NavigatorClusterConfig EXCEPT !.PilotImage = SetDefaults_ImageSpec(@)]
           p == [i \in DOMAIN x.NodePools |-> DefaultPool(k, x.NodePools[i])]
           m == [i \in DOMAIN x.Image |-> SetDefaults_ImageSpec(x.Image[i])]
           y == DefaultSpec(k, x)
<1>1. /\ ~IsText(t) /\ {C, P, I} \subseteq F
      /\ \A f \in F, g \in {C, P, I} : f.name = g.name => f = g
  BY ClusterSpecFields
<1>2. /\ C.name = "NavigatorClusterConfig" /\ P.name = "NodePools" /\ I.name = "Image"
      /\ C.form # "ref" /\ P.form = "ref" /\ I.form = "ref"
      /\ C.of = "NavigatorClusterConfig" /\ P.of = PoolType(k) /\ I.of = "ImageSpec"
  BY DEF Inline, Ref
<1> HIDE DEF C, P, I
<1>3. Struct(t, x) /\ \A f \in F : Fits2(f, x[f.name])
  BY <1>1, ShapedByField, Zenon
<1>4. /\ Fits2(C, c) /\ Meets2(C, x.NavigatorClusterConfig, c)
      /\ SetDefaults_ImageSpec(c.PilotImage) = c.PilotImage
      /\ Struct("NavigatorClusterConfig", c)
  <2>1. Shaped2("NavigatorClusterConfig", "NavigatorClusterConfig",
                x.NavigatorClusterConfig)
    BY <1>1, <1>2, <1>3, ElementsOf, Zenon DEF Fits2
  <2>2. /\ Shaped2(C.name, C.of, c) /\ Holds2(C.of, x.NavigatorClusterConfig, c)
        /\ SetDefaults_ImageSpec(c.PilotImage) = c.PilotImage
        /\ Struct("NavigatorClusterConfig", c)
    BY <1>2, <2>1, ConfigDefaults
  <2> HIDE DEF c
  <2> QED
    BY <1>2, <2>2 DEF Fits2, Meets2, Elements
<1>5. /\ Fits2(P, p) /\ Meets2(P, x.NodePools, p) /\ DOMAIN p = DOMAIN x.NodePools
      /\ \A i \in DOMAIN p : DefaultPool(k, p[i]) = p[i] /\ p[i].Replicas # <<>>
  <2>1. Fits2(P, x.NodePools)
    BY <1>1, <1>2, <1>3
  <2>2. \A i \in DOMAIN x.NodePools : Shaped2("NodePools", PoolType(k), x.NodePools[i])
    BY <1>2, <2>1, ElementsOf DEF Fits2
  <2>3. \A i \in DOMAIN x.NodePools :
          /\ Shaped2(P.name, P.of, p[i]) /\ Holds2(P.of, x.NodePools[i], p[i])
          /\ DefaultPool(k, p[i]) = p[i] /\ p[i].Replicas # <<>>
    BY <1>2, <2>2, PoolDefaults
  <2>4. p = [i \in DOMAIN x.NodePools |-> p[i]]
    OBVIOUS
  <2> HIDE DEF p
  <2> QED
    BY <1>2, <2>1, <2>3, <2>4, ListDefaults, ZenonT(30)
<1>6. /\ Fits2(I, m) /\ Meets2(I, x.Image, m) /\ DOMAIN m = DOMAIN x.Image
      /\ \A i \in DOMAIN m : SetDefaults_ImageSpec(m[i]) = m[i]
  <2>1. Fits2(I, x.Image)
    BY <1>1, <1>2, <1>3
  <2>2. ~IsText("ImageSpec")
    BY DEF IsText, TextTypes
  <2>3. \A i \in DOMAIN x.Image : /\ Shaped2("Image", "ImageSpec", x.Image[i])
                                  /\ Struct("ImageSpec", x.Image[i])
    BY <1>2, <2>1, <2>2, ElementsOf, ShapedByField, Zenon DEF Fits2
  <2>4. \A i \in DOMAIN x.Image :
          /\ Shaped2(I.name, I.of, m[i]) /\ Holds2(I.of, x.Image[i], m[i])
          /\ SetDefaults_ImageSpec(m[i]) = m[i]
    BY <1>2, <2>3, ImageDefaults
  <2>5. m = [i \in DOMAIN x.Image |-> m[i]]
    OBVIOUS
  <2> HIDE DEF m
  <2> QED
    BY <1>2, <2>1, <2>4, <2>5, ListDefaults, SMT, Z3, Zenon
<1>7. /\ Struct(t, y) /\ y.NavigatorClusterConfig = c /\ y.NodePools = p /\ y.Image = m
      /\ \A f \in F : f \notin {C, P, I} => y[f.name] = x[f.name]
  <2>1. /\ {"NavigatorClusterConfig", "NodePools", "Image"} \subseteq Names(V1alpha1, t)
        /\ \A f \in F : f.name \in Names(V1alpha1, t)
    BY <1>1, <1>2 DEF Names
  <2>2. /\ Struct(t, y) /\ y.NavigatorClusterConfig = c /\ y.NodePools = p /\ y.Image = m
        /\ \A n \in Names(V1alpha1, t) :
             n \notin {"NavigatorClusterConfig", "NodePools", "Image"} => y[n] = x[n]
    BY <1>3, <2>1, Zenon DEF Struct, DefaultSpec
  <2> QED
    BY <1>1, <1>2, <2>1, <2>2, SMT, Z3, Zenon
<1>8. DefaultSpec(k, y) = y
  <2> HIDE DEF y, c, p, m
  <2>1. [y.NavigatorClusterConfig EXCEPT !.PilotImage =
            SetDefaults_ImageSpec(y.NavigatorClusterConfig.PilotImage)] = c
    <3>1. [c EXCEPT !.PilotImage = c.PilotImage] = c
      BY <1>4 DEF Struct
    <3> QED
      BY <1>4, <1>7, <3>1, Zenon
  <2>2. [i \in DOMAIN y.NodePools |-> DefaultPool(k, y.NodePools[i])] = p
    BY <1>5, <1>7, ZenonT(60) DEF p
  <2>3. [i \in DOMAIN y.Image |-> SetDefaults_ImageSpec(y.Image[i])] = m
    BY <1>6, <1>7, ZenonT(60) DEF m
  <2>4. DefaultSpec(k, y)
          = [y EXCEPT
               !.NavigatorClusterConfig =
                 [y.NavigatorClusterConfig EXCEPT !.PilotImage =
                    SetDefaults_ImageSpec(y.NavigatorClusterConfig.PilotImage)],
               !.NodePools = [i \in DOMAIN y.NodePools |-> DefaultPool(k, y.NodePools[i])],
               !.Image = [i \in DOMAIN y.Image |-> SetDefaults_ImageSpec(y.Image[i])]]
    BY Zenon DEF DefaultSpec
  <2>5. DefaultSpec(k, y) = [y EXCEPT !.NavigatorClusterConfig = c, !.NodePools = p,
                                      !.Image = m]
    BY <2>1, <2>2, <2>3, <2>4, Zenon
  <2> QED
    BY <1>7, <2>5, Zenon DEF Struct
<1> HIDE DEF y, c, p, m
<1>9. \A f \in F : Fits2(f, y[f.name]) /\ Meets2(f, x[f.name], y[f.name])
  BY <1>2, <1>3, <1>4, <1>5, <1>6, <1>7, MeetsItself
<1>10. Shaped3("Spec", t, y) /\ Holds3(t, x, y)
  BY <1>1, <1>7, <1>9, ShapedByField, HoldsByField, ZenonT(60) DEF Struct
<1>11. \A np \in Range(y.NodePools) : np.Replicas # <<>>
  BY <1>5, <1>7 DEF Range
<1> QED
  BY <1>8, <1>10, <1>11 DEF y

-----------------------------------------------------------------------------
(* Objects and the codecs.                                                 *)

StatusType(k) == CASE k = "CassandraCluster"     -> "CassandraClusterStatus"
                   [] k = "ElasticsearchCluster" -> "ElasticsearchClusterStatus"
                   [] k = "Pilot"                -> "PilotStatus"

\* An object has metadata, a spec and a status.
LEMMA ObjectFields ==
  ASSUME NEW k \in Kinds
  PROVE  /\ ~IsText(k) /\ k \in DOMAIN Conversions
         /\ Fields(V1alpha1, k) = {Inline("ObjectMeta", "ObjectMeta"),
                                   Inline("Spec", SpecType[k]),
                                   Inline("Status", StatusType(k))}
         /\ \A f, g \in Fields(V1alpha1, k) : f.name = g.name => f = g
         /\ ~IsText(SpecType[k]) /\ ~IsText(StatusType(k))
<1>1. k \in DOMAIN Conversions
  BY ConversionDomains, ConversionTables DEF Kinds
<1>2. ~IsText(SpecType[k]) /\ ~IsText(StatusType(k))
  BY DEF Kinds, SpecType, StatusType, IsText, TextTypes
<1>3. Fields(V1alpha1, k) = {Inline("ObjectMeta", "ObjectMeta"),
                             Inline("Spec", SpecType[k]),
                             Inline("Status", StatusType(k))}
  BY CassandraRows, ElasticsearchRows, PilotRows DEF Kinds, SpecType, StatusType
<1> QED
  BY <1>1, <1>2, <1>3, ConvertedTypes, SMTT(30), Z3T(30)

\* A tree keeps its shape when a field is replaced by one of its shape.
LEMMA Replaced ==
  ASSUME NEW n, NEW t, ~IsText(t), NEW x, NEW f \in Fields(V1alpha1, t),
         \A g \in Fields(V1alpha1, t) : g.name = f.name => g = f, NEW v
  PROVE  LET y == [x EXCEPT ![f.name] = v]
         IN /\ Shaped2(n, t, x) /\ Fits1(f, v) => Shaped2(n, t, y) /\ y[f.name] = v
            /\ Shaped3(n, t, x) /\ Fits2(f, v) => Shaped3(n, t, y) /\ y[f.name] = v
            /\ Shaped4(n, t, x) /\ Fits3(f, v) => Shaped4(n, t, y) /\ y[f.name] = v
<1> DEFINE F == Fields(V1alpha1, t)
           y == [x EXCEPT ![f.name] = v]
<1>1. Struct(t, x) => /\ Struct(t, y) /\ y[f.name] = v
                      /\ \A g \in F : g # f => y[g.name] = x[g.name]
  BY Edited
<1> HIDE DEF y
<1>2. Shaped2(n, t, x) /\ Fits1(f, v) => Shaped2(n, t, y) /\ y[f.name] = v
  BY <1>1, ShapedByField, Zenon
<1>3. Shaped3(n, t, x) /\ Fits2(f, v) => Shaped3(n, t, y) /\ y[f.name] = v
  BY <1>1, ShapedByField, Zenon
<1>4. Shaped4(n, t, x) /\ Fits3(f, v) => Shaped4(n, t, y) /\ y[f.name] = v
  BY <1>1, ShapedByField, Zenon
<1> QED
  BY <1>2, <1>3, <1>4 DEF y

\* The spec and the status of an object, and the object with others in it.
LEMMA ObjectParts ==
  ASSUME NEW k \in Kinds, NEW x, Shaped4(k, k, x)
  PROVE  /\ Struct(k, x) /\ Shaped3("Spec", SpecType[k], x.Spec)
         /\ Shaped3("Status", StatusType(k), x.Status)
         /\ \A v : LET y == [x EXCEPT !.Spec = v]
                   IN /\ y.Spec = v /\ y.Status = x.Status
                      /\ Shaped3("Spec", SpecType[k], v) => Shaped4(k, k, y)
         /\ \A v : LET y == [x EXCEPT !.Status = v]
                   IN /\ y.Status = v /\ y.Spec = x.Spec
                      /\ Shaped3("Status", StatusType(k), v) => Shaped4(k, k, y)
<1> DEFINE F == Fields(V1alpha1, k)
           s == Inline("Spec", SpecType[k])
           u == Inline("Status", StatusType(k))
<1>1. /\ ~IsText(k) /\ s \in F /\ u \in F
      /\ \A f, g \in Fields(V1alpha1, k) : f.name = g.name => f = g
  BY ObjectFields
<1>2. /\ s.name = "Spec" /\ s.form # "ref" /\ s.of = SpecType[k]
      /\ u.name = "Status" /\ u.form # "ref" /\ u.of = StatusType(k)
  BY DEF Inline
<1> HIDE DEF s, u
<1>3. Struct(k, x) /\ \A f \in F : Fits3(f, x[f.name])
  BY <1>1, ShapedByField, Zenon
<1>4. \A v : /\ Fits3(s, v) <=> Shaped3("Spec", SpecType[k], v)
             /\ Fits3(u, v) <=> Shaped3("Status", StatusType(k), v)
  BY <1>2 DEF Fits3, Elements
<1>5. ASSUME NEW v
      PROVE  LET y == [x EXCEPT !.Spec = v]
             IN /\ y.Spec = v /\ y.Status = x.Status
                /\ Shaped3("Spec", SpecType[k], v) => Shaped4(k, k, y)
  <2> DEFINE y == [x EXCEPT ![s.name] = v]
  <2>1. y[s.name] = v /\ y[u.name] = x[u.name]
    <3>1. /\ Struct(k, y) /\ y[s.name] = v
          /\ \A g \in F : g.name # s.name => y[g.name] = x[g.name]
      BY <1>1, <1>3, Edited
    <3> HIDE DEF y
    <3> QED
      BY <1>1, <1>2, <3>1
  <2>2. Fits3(s, v) => Shaped4(k, k, y)
    BY <1>1, Replaced
  <2>3. y = [x EXCEPT !.Spec = v]
    BY <1>2, Zenon
  <2> HIDE DEF y
  <2> QED
    BY <1>2, <1>4, <2>1, <2>2, <2>3, Zenon
<1>6. ASSUME NEW v
      PROVE  LET y == [x EXCEPT !.Status = v]
             IN /\ y.Status = v /\ y.Spec = x.Spec
                /\ Shaped3("Status", StatusType(k), v) => Shaped4(k, k, y)
  <2> DEFINE y == [x EXCEPT ![u.name] = v]
  <2>1. y[u.name] = v /\ y[s.name] = x[s.name]
    <3>1. /\ Struct(k, y) /\ y[u.name] = v
          /\ \A g \in F : g.name # u.name => y[g.name] = x[g.name]
      BY <1>1, <1>3, Edited
    <3> HIDE DEF y
    <3> QED
      BY <1>1, <1>2, <3>1
  <2>2. Fits3(u, v) => Shaped4(k, k, y)
    BY <1>1, Replaced
  <2>3. y = [x EXCEPT !.Status = v]
    BY <1>2, Zenon
  <2> HIDE DEF y
  <2> QED
    BY <1>2, <1>4, <2>1, <2>2, <2>3, ZenonT(60)
<1> QED
  BY <1>1, <1>2, <1>3, <1>4, <1>5, <1>6

\* The defaults of an object keep its shape and its status, and hold the spec that
\* was asked for; they do nothing a second time.
LEMMA ObjectDefaults ==
  ASSUME NEW k \in Kinds, NEW x, Shaped4(k, k, x)
  PROVE  LET y == SetObjectDefaults(k, x)
         IN /\ Shaped4(k, k, y) /\ y.Status = x.Status
            /\ Holds3(SpecType[k], x.Spec, y.Spec) /\ SetObjectDefaults(k, y) = y
<1> DEFINE y == SetObjectDefaults(k, x)
<1>1. CASE k = "Pilot"
  <2>1. Holds3(SpecType[k], x.Spec, x.Spec)
    BY ObjectParts, HoldsItself
  <2>2. \A z : SetObjectDefaults(k, z) = z
    BY <1>1 DEF SetObjectDefaults
  <2> QED
    BY <2>1, <2>2
<1>2. CASE k \in ClusterKinds
  <2> DEFINE d == DefaultSpec(k, x.Spec)
  <2>1. \A z : SetObjectDefaults(k, z) = [z EXCEPT !.Spec = DefaultSpec(k, z.Spec)]
    BY <1>2 DEF SetObjectDefaults, ClusterKinds
  <2>2. Shaped3("Spec", SpecType[k], x.Spec)
    BY ObjectParts
  <2>3. /\ Shaped3("Spec", SpecType[k], d) /\ Holds3(SpecType[k], x.Spec, d)
        /\ DefaultSpec(k, d) = d
    BY <1>2, <2>2, SpecDefaults
  <2>4. y = [x EXCEPT !.Spec = d]
    BY <2>1
  <2> HIDE DEF d, y
  <2>5. y.Spec = d /\ y.Status = x.Status /\ Shaped4(k, k, y)
    BY <2>3, <2>4, ObjectParts
  <2>6. SetObjectDefaults(k, y) = y
    <3>1. SetObjectDefaults(k, y) = [y EXCEPT !.Spec = y.Spec]
      BY <2>1, <2>3, <2>5
    <3>2. Struct(k, y)
      BY <2>5, ObjectParts
    <3> QED
      BY <3>1, <3>2, Zenon DEF Struct
  <2> QED
    BY <2>3, <2>5, <2>6 DEF y
<1> QED
  BY <1>1, <1>2 DEF Kinds, ClusterKinds

\* An object with its defaults has a number of replicas in every pool.
LEMMA DefaultedReplicas ==
  ASSUME NEW k \in ClusterKinds, NEW x, Shaped4(k, k, x), SetObjectDefaults(k, x) = x
  PROVE  /\ DefaultSpec(k, x.Spec) = x.Spec
         /\ \A np \in Range(x.Spec.NodePools) : np.Replicas # <<>>
<1>1. k \in Kinds /\ x = [x EXCEPT !.Spec = DefaultSpec(k, x.Spec)]
  BY DEF SetObjectDefaults, ClusterKinds, Kinds
<1> DEFINE d == DefaultSpec(k, x.Spec)
           y == [x EXCEPT !.Spec = d]
<1> HIDE DEF d
<1>2. y.Spec = d /\ Shaped3("Spec", SpecType[k], x.Spec)
  BY <1>1, ObjectParts
<1>3. x = y
  BY <1>1, Zenon DEF d
<1> HIDE DEF y
<1>4. DefaultSpec(k, x.Spec) = x.Spec
  BY <1>2, <1>3, Zenon DEF d
<1> QED
  BY <1>2, <1>4, SpecDefaults

\* Conversions of an object, with or without its defaults, lose and move nothing.
LEMMA ObjectConverted ==
  ASSUME NEW k \in Kinds, NEW x, Shaped4(k, k, x)
  PROVE  /\ Convert4(Navigator, k, SetObjectDefaults(k, x)) = SetObjectDefaults(k, x)
         /\ Convert4(V1alpha1, k, x) = x
<1>1. Shaped4(k, k, SetObjectDefaults(k, x))
  BY ObjectDefaults
<1>2. k \in DOMAIN Conversions
  BY ObjectFields
<1> QED
  BY <1>1, <1>2, Convert4Keeps

\* The types of the lists.
LEMMA ListFields ==
  ASSUME NEW k \in Kinds
  PROVE  LET t == ListOf[k]
         IN /\ ~IsText(t) /\ t \in DOMAIN Conversions
            /\ Fields(V1alpha1, t) = {Plain("ListMeta"), Ref("Items", k)}
            /\ Names(V1alpha1, t) = {"ListMeta", "Items"}
<1> DEFINE t == ListOf[k]
<1>1. ~IsText(t) /\ t \in DOMAIN Conversions
  BY ConversionDomains, ConversionTables DEF Kinds, ListOf, IsText, TextTypes
<1>2. Fields(V1alpha1, t) = {Plain("ListMeta"), Ref("Items", k)}
  <2>1. /\ Fields(V1alpha1, "CassandraClusterList")
             = {Plain("ListMeta"), Ref("Items", "CassandraCluster")}
        /\ Fields(V1alpha1, "ElasticsearchClusterList")
             = {Plain("ListMeta"), Ref("Items", "ElasticsearchCluster")}
        /\ Fields(V1alpha1, "PilotList") = {Plain("ListMeta"), Ref("Items", "Pilot")}
    BY CassandraRows, ElasticsearchRows, PilotRows, Zenon
  <2> QED
    BY <2>1 DEF Kinds, ListOf
<1>3. Plain("ListMeta").name = "ListMeta" /\ Ref("Items", k).name = "Items"
  BY DEF Plain, Ref
<1> HIDE DEF t
<1>4. Names(V1alpha1, t) = {"ListMeta", "Items"}
  BY <1>2, <1>3, Zenon DEF Names
<1> QED
  BY <1>1, <1>2, <1>4, SMT, Z3, Zenon DEF t

\* Nor does that of a list.
LEMMA ListConverted ==
  ASSUME NEW k \in Kinds, NEW objs, objs \in Seq(Range(objs)),
         \A o \in Range(objs) : Shaped4(k, k, o)
  PROVE  Convert5(V1alpha1, ListOf[k],
           [ListMeta |-> <<"ListMeta", 1>>, Items |-> objs]).Items = objs
<1> DEFINE t == ListOf[k]
           x == [ListMeta |-> <<"ListMeta", 1>>, Items |-> objs]
<1>1. /\ ~IsText(t) /\ t \in DOMAIN Conversions
      /\ Fields(V1alpha1, t) = {Plain("ListMeta"), Ref("Items", k)}
      /\ Names(V1alpha1, t) = {"ListMeta", "Items"}
  BY ListFields, Zenon
<1>2. Struct(t, x)
  <2>1. DOMAIN x = {"ListMeta", "Items"} /\ x = [m \in {"ListMeta", "Items"} |-> x[m]]
    OBVIOUS
  <2> QED
    BY <1>1, <2>1, Zenon DEF Struct
<1>3. Fits4(Ref("Items", k), objs)
  <2>1. ~IsText(k)
    BY ObjectFields
  <2>2. \A o \in Range(objs) : Shaped4("Items", k, o)
    BY <2>1, ShapedByField, Zenon
  <2> QED
    BY <2>2 DEF Fits4, Elements, Ref
<1>4. Fits4(Plain("ListMeta"), <<"ListMeta", 1>>)
  <2>1. ShapedText("ListMeta", "scalar", <<"ListMeta", 1>>)
    BY DEF ShapedText, IsText
  <2>2. Shaped4("ListMeta", "scalar", <<"ListMeta", 1>>)
    BY <2>1, Zenon DEF Shaped4, ShapedBy
  <2> QED
    BY <2>2 DEF Fits4, Elements, Plain
<1>5. \A f \in Fields(V1alpha1, t) : Fits4(f, x[f.name])
  <2>1. /\ x[Plain("ListMeta").name] = <<"ListMeta", 1>>
        /\ x[Ref("Items", k).name] = objs
    BY DEF Plain, Ref
  <2> HIDE DEF x
  <2> QED
    BY <1>1, <1>3, <1>4, <2>1, Zenon
<1> HIDE DEF x, t
<1>6. Shaped5(t, t, x)
  BY <1>1, <1>2, <1>5, ShapedByField, ZenonT(60)
<1>7. Convert5(V1alpha1, t, x) = x
  BY <1>1, <1>6, Convert5Keeps, SMTT(30)
<1> QED
  BY <1>7 DEF x, t

=============================================================================
