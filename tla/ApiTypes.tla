------------------------------- MODULE ApiTypes --------------------------------
(***************************************************************************)
(* The types of Navigator's API and the code generated for them: how the   *)
(* structs of v1alpha1 and of the internal version lie in memory, which    *)
(* fields the conversions between the two versions share, convert or cast, *)
(* and which fields DeepCopyInto gives memory of their own.                *)
(*                                                                         *)
(* A struct is the sequence of its fields.  A field holds a plain value, a *)
(* struct, or a reference (pointer, slice or map) to elements of a type.   *)
(* TypeMeta, a plain value that the codecs fill in, is left out.           *)
(***************************************************************************)

\* Two tables as one.
f ++ g == [x \in DOMAIN f \cup DOMAIN g |-> IF x \in DOMAIN f THEN f[x] ELSE g[x]]

Plain(n)     == [name |-> n, form |-> "plain", of |-> "scalar"]
Inline(n, t) == [name |-> n, form |-> "struct", of |-> t]
Ref(n, t)    == [name |-> n, form |-> "ref", of |-> t]

\* Types of other packages, down to the references they hold.  A Version or a
\* Quantity is read from and written as one text.
MetaTypes ==
  [ObjectMeta           |-> <<Plain("Name"), Ref("Labels", "scalar")>>,
   ResourceRequirements |-> <<Ref("Limits", "scalar")>>,
   Quantity             |-> <<Plain("i"), Ref("d", "scalar")>>]

VersionType == [Version |-> <<Plain("versionString"), Ref("semver", "scalar")>>]

TextTypes   == {"Version", "Quantity"}

-----------------------------------------------------------------------------
(* v1alpha1/types.go                                                       *)

CassandraTypes ==
  [CassandraCluster |-> <<Inline("ObjectMeta", "ObjectMeta"),
                          Inline("Spec", "CassandraClusterSpec"),
                          Inline("Status", "CassandraClusterStatus")>>,
   CassandraClusterSpec |->
     <<Inline("NavigatorClusterConfig", "NavigatorClusterConfig"),
       Ref("NodePools", "CassandraClusterNodePool"), Ref("Image", "ImageSpec"),
       Inline("Version", "Version")>>,
   CassandraClusterNodePool |->
     <<Plain("Name"), Ref("Replicas", "scalar"),
       Ref("Persistence", "PersistenceConfig"), Ref("NodeSelector", "scalar"),
       Ref("Rack", "scalar"), Ref("Datacenter", "scalar"),
       Inline("Resources", "ResourceRequirements"), Plain("SchedulerName")>>,
   CassandraClusterStatus |->
     <<Inline("NavigatorClusterStatus", "NavigatorClusterStatus"),
       Ref("NodePools", "CassandraClusterNodePoolStatus")>>,
   CassandraClusterNodePoolStatus |-> <<Plain("ReadyReplicas")>>,
   CassandraClusterList |-> <<Plain("ListMeta"), Ref("Items", "CassandraCluster")>>]

ElasticsearchTypes ==
  [ElasticsearchCluster |-> <<Inline("ObjectMeta", "ObjectMeta"),
                              Inline("Spec", "ElasticsearchClusterSpec"),
                              Inline("Status", "ElasticsearchClusterStatus")>>,
   ElasticsearchClusterStatus |->
     <<Inline("NavigatorClusterStatus", "NavigatorClusterStatus"),
       Ref("NodePools", "ElasticsearchClusterNodePoolStatus"),
       Ref("Health", "scalar")>>,
   ElasticsearchClusterNodePoolStatus |-> <<Plain("ReadyReplicas")>>,
   ElasticsearchClusterList |->
     <<Plain("ListMeta"), Ref("Items", "ElasticsearchCluster")>>,
   ElasticsearchClusterSpec |->
     <<Inline("NavigatorClusterConfig", "NavigatorClusterConfig"),
       Plain("Version"), Ref("Plugins", "scalar"),
       Ref("NodePools", "ElasticsearchClusterNodePool"),
       Ref("Image", "ImageSpec"), Ref("MinimumMasters", "scalar")>>,
   ElasticsearchClusterNodePool |->
     <<Plain("Name"), Ref("Replicas", "scalar"), Ref("Roles", "scalar"),
       Ref("NodeSelector", "scalar"),
       Inline("Resources", "ResourceRequirements"),
       Ref("Persistence", "PersistenceConfig"), Plain("SchedulerName")>>]

CommonTypes ==
  [PersistenceConfig |-> <<Inline("Size", "Quantity"),
                           Ref("StorageClass", "scalar")>>,
   ImageSpec |-> <<Plain("Repository"), Plain("Tag"), Plain("PullPolicy")>>,
   NavigatorClusterConfig |->
     <<Inline("PilotImage", "ImageSpec"),
       Inline("SecurityContext", "NavigatorSecurityContext"), Plain("Paused")>>,
   NavigatorClusterStatus |-> <<Ref("Conditions", "ClusterCondition")>>,
   NavigatorSecurityContext |-> <<Ref("RunAsUser", "scalar")>>,
   ClusterCondition |-> <<Plain("Type"), Plain("Status"),
                          Plain("LastTransitionTime"), Plain("Reason"),
                          Plain("Message")>>]

PilotTypes ==
  [Pilot |-> <<Inline("ObjectMeta", "ObjectMeta"), Inline("Spec", "PilotSpec"),
               Inline("Status", "PilotStatus")>>,
   PilotList |-> <<Plain("ListMeta"), Ref("Items", "Pilot")>>,
   PilotSpec |-> <<>>,
   PilotStatus |-> <<Ref("Conditions", "PilotCondition"),
                     Ref("Elasticsearch", "ElasticsearchPilotStatus"),
                     Ref("Cassandra", "CassandraPilotStatus")>>,
   ElasticsearchPilotStatus |-> <<Ref("Documents", "scalar"),
                                  Ref("Version", "scalar")>>,
   CassandraPilotStatus |-> <<Ref("Version", "Version")>>,
   PilotCondition |-> <<Plain("Type"), Plain("Status"),
                        Plain("LastTransitionTime"), Plain("Reason"),
                        Plain("Message")>>]

V1alpha1 == CassandraTypes ++ ElasticsearchTypes ++ CommonTypes ++ PilotTypes
              ++ MetaTypes ++ VersionType

-----------------------------------------------------------------------------
(* navigator/types.go declares the same structs.  The fields of the two    *)
(* cluster specs come in another order.                                    *)

Navigator ==
  [V1alpha1 EXCEPT
     !.CassandraClusterSpec =
       <<Inline("NavigatorClusterConfig", "NavigatorClusterConfig"),
         Ref("NodePools", "CassandraClusterNodePool"),
         Inline("Version", "Version"), Ref("Image", "ImageSpec")>>,
     !.ElasticsearchClusterSpec =
       <<Inline("NavigatorClusterConfig", "NavigatorClusterConfig"),
         Plain("Version"), Ref("Image", "ImageSpec"), Ref("Plugins", "scalar"),
         Ref("NodePools", "ElasticsearchClusterNodePool"),
         Ref("MinimumMasters", "scalar")>>]

-----------------------------------------------------------------------------
(* zz_generated.conversion.go.  Both directions of a conversion do the     *)
(* same: a field is shared with the source (assigned, or cast through      *)
(* unsafe.Pointer), or its conversion is called, for a reference with each *)
(* element and into new memory.  A field that is not named stays zero.     *)

Conv(shared, called) == [shared |-> shared, called |-> called]

\* Mutant: the items of a list are cast, as if both versions had one layout.
ConvertCassandraClusterCast ==
  [CassandraCluster         |-> Conv({"ObjectMeta"}, {"Spec", "Status"}),
   CassandraClusterList     |-> Conv({"ListMeta", "Items"}, {}),
   CassandraClusterNodePool |->
     Conv({"Name", "Replicas", "Persistence", "NodeSelector", "Rack",
           "Datacenter", "Resources", "SchedulerName"}, {})]

ConvertCassandraCluster ==
  [CassandraCluster         |-> Conv({"ObjectMeta"}, {"Spec", "Status"}),
   CassandraClusterList     |-> Conv({"ListMeta"}, {"Items"}),
   CassandraClusterNodePool |->
     Conv({"Name", "Replicas", "Persistence", "NodeSelector", "Rack",
           "Datacenter", "Resources", "SchedulerName"}, {})]

ConvertCassandraSpec ==
  [CassandraClusterNodePoolStatus |-> Conv({"ReadyReplicas"}, {}),
   CassandraClusterSpec   |-> Conv({"NodePools", "Image", "Version"},
                                   {"NavigatorClusterConfig"}),
   CassandraClusterStatus |-> Conv({"NodePools"}, {"NavigatorClusterStatus"}),
   CassandraPilotStatus   |-> Conv({"Version"}, {})]

\* Mutant: likewise.
ConvertElasticsearchClusterCast ==
  [ClusterCondition |-> Conv({"Type", "Status", "LastTransitionTime", "Reason",
                              "Message"}, {}),
   ElasticsearchCluster     |-> Conv({"ObjectMeta"}, {"Spec", "Status"}),
   ElasticsearchClusterList |-> Conv({"ListMeta", "Items"}, {})]

ConvertElasticsearchCluster ==
  [ClusterCondition |-> Conv({"Type", "Status", "LastTransitionTime", "Reason",
                              "Message"}, {}),
   ElasticsearchCluster     |-> Conv({"ObjectMeta"}, {"Spec", "Status"}),
   ElasticsearchClusterList |-> Conv({"ListMeta"}, {"Items"})]

ConvertElasticsearchSpec ==
  [ElasticsearchClusterNodePool |->
     Conv({"Name", "Replicas", "Roles", "NodeSelector", "Resources",
           "Persistence", "SchedulerName"}, {}),
   ElasticsearchClusterNodePoolStatus |-> Conv({"ReadyReplicas"}, {}),
   ElasticsearchClusterSpec |->
     Conv({"Version", "Plugins", "NodePools", "Image", "MinimumMasters"},
          {"NavigatorClusterConfig"}),
   ElasticsearchClusterStatus |->
     Conv({"NodePools", "Health"}, {"NavigatorClusterStatus"})]

ConvertCommon ==
  [ElasticsearchPilotStatus |-> Conv({"Documents", "Version"}, {}),
   ImageSpec                |-> Conv({"Repository", "Tag", "PullPolicy"}, {}),
   NavigatorClusterConfig   |-> Conv({"Paused"}, {"PilotImage", "SecurityContext"}),
   NavigatorClusterStatus   |-> Conv({"Conditions"}, {}),
   NavigatorSecurityContext |-> Conv({"RunAsUser"}, {}),
   PersistenceConfig        |-> Conv({"Size", "StorageClass"}, {})]

ConvertPilot ==
  [Pilot          |-> Conv({"ObjectMeta"}, {"Spec", "Status"}),
   PilotCondition |-> Conv({"Type", "Status", "LastTransitionTime", "Reason",
                            "Message"}, {}),
   PilotList      |-> Conv({"ListMeta", "Items"}, {}),
   PilotSpec      |-> Conv({}, {}),
   PilotStatus    |-> Conv({"Conditions", "Elasticsearch", "Cassandra"}, {})]

Conversions == ConvertCassandraCluster ++ ConvertCassandraSpec
                 ++ ConvertElasticsearchCluster ++ ConvertElasticsearchSpec
                 ++ ConvertCommon ++ ConvertPilot

-----------------------------------------------------------------------------
(* v1alpha1/zz_generated.deepcopy.go.  After *out = *in, a struct field is *)
(* copied into, a reference gets new memory with the same contents, or new *)
(* memory into which the elements are copied.  A field that is not named   *)
(* is as *out = *in left it.                                               *)

Into(into, fresh, freshInto) ==
  [into |-> into, fresh |-> fresh, freshInto |-> freshInto]

CopyCassandraCluster ==
  [CassandraCluster         |-> Into({"ObjectMeta", "Spec", "Status"}, {}, {}),
   CassandraClusterList     |-> Into({}, {}, {"Items"}),
   CassandraClusterNodePool |->
     Into({"Resources"}, {"Replicas", "NodeSelector", "Rack", "Datacenter"},
          {"Persistence"})]

CopyCassandraSpec ==
  [CassandraClusterNodePoolStatus |-> Into({}, {}, {}),
   CassandraClusterSpec   |-> Into({"NavigatorClusterConfig", "Version"},
                                   {"Image"}, {"NodePools"}),
   CassandraClusterStatus |-> Into({"NavigatorClusterStatus"}, {"NodePools"}, {}),
   CassandraPilotStatus   |-> Into({}, {}, {"Version"}),
   ClusterCondition       |-> Into({}, {}, {})]

\* Mutant: the storage of a pool is shared with the original.
CopyElasticsearchClusterShallow ==
  [ElasticsearchCluster         |-> Into({"ObjectMeta", "Spec", "Status"}, {}, {}),
   ElasticsearchClusterList     |-> Into({}, {}, {"Items"}),
   ElasticsearchClusterNodePool |->
     Into({"Resources"}, {"Replicas", "Roles", "NodeSelector", "Persistence"}, {}),
   ElasticsearchClusterNodePoolStatus |-> Into({}, {}, {})]

CopyElasticsearchCluster ==
  [ElasticsearchCluster         |-> Into({"ObjectMeta", "Spec", "Status"}, {}, {}),
   ElasticsearchClusterList     |-> Into({}, {}, {"Items"}),
   ElasticsearchClusterNodePool |->
     Into({"Resources"}, {"Replicas", "Roles", "NodeSelector"}, {"Persistence"}),
   ElasticsearchClusterNodePoolStatus |-> Into({}, {}, {})]

CopyElasticsearchSpec ==
  [ElasticsearchClusterSpec   |-> Into({"NavigatorClusterConfig"},
                                       {"Plugins", "Image", "MinimumMasters"},
                                       {"NodePools"}),
   ElasticsearchClusterStatus |-> Into({"NavigatorClusterStatus"},
                                       {"NodePools", "Health"}, {}),
   ElasticsearchPilotStatus   |-> Into({}, {"Documents", "Version"}, {})]

CopyCommon ==
  [ImageSpec                |-> Into({}, {}, {}),
   NavigatorClusterConfig   |-> Into({"SecurityContext"}, {}, {}),
   NavigatorClusterStatus   |-> Into({}, {}, {"Conditions"}),
   NavigatorSecurityContext |-> Into({}, {"RunAsUser"}, {}),
   PersistenceConfig        |-> Into({"Size"}, {"StorageClass"}, {})]

CopyPilot ==
  [Pilot          |-> Into({"ObjectMeta", "Status"}, {}, {}),
   PilotCondition |-> Into({}, {}, {}),
   PilotList      |-> Into({}, {}, {"Items"}),
   PilotSpec      |-> Into({}, {}, {}),
   PilotStatus    |-> Into({}, {}, {"Conditions", "Elasticsearch", "Cassandra"})]

CopyMeta ==
  [ObjectMeta           |-> Into({}, {"Labels"}, {}),
   ResourceRequirements |-> Into({}, {"Limits"}, {}),
   Quantity             |-> Into({}, {"d"}, {})]

\* Version.DeepCopy parses the text of the version again.
CopyVersion == [Version |-> Into({}, {"semver"}, {})]

DeepCopies == CopyCassandraCluster ++ CopyCassandraSpec
                ++ CopyElasticsearchCluster ++ CopyElasticsearchSpec
                ++ CopyCommon ++ CopyPilot ++ CopyMeta ++ CopyVersion
=============================================================================
