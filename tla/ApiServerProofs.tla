---------------------------- MODULE ApiServerProofs ----------------------------
(***************************************************************************)
(* The API server with its three clients, for any set of scenarios: any    *)
(* bodies of any number of pools, submitted any number of times.  What the *)
(* server stores, what a watcher's cache holds and what a controller's     *)
(* sync leaves in it follow from one inductive invariant.  From it also:   *)
(* an accepted update keeps a pool in its place, and the masters of an     *)
(* accepted cluster elect one master.                                      *)
(***************************************************************************)
EXTENDS ApiServer, ApiObjectProofs

\* The codecs of the server lose and move nothing: what is decoded is the body
\* with its defaults, and what is encoded is what was there.
LEMMA CodecsKeep ==
  ASSUME kind \in Kinds, NEW x, Shaped4(kind, kind, x)
  PROVE  ToInternal(x) = SetObjectDefaults(kind, x) /\ FromInternal(x) = x
BY ObjectConverted, Zenon DEF ToInternal, FromInternal

\* Nor does the codec of a list.
LEMMA ListCodecKeeps ==
  ASSUME kind \in Kinds, NEW objs, objs \in Seq(Range(objs)),
         \A o \in Range(objs) : Shaped4(kind, kind, o)
  PROVE  FromInternalList(objs) = objs
BY ListConverted, Zenon DEF FromInternalList

-----------------------------------------------------------------------------
(* A sync on a copy that shares nothing.                                   *)

\* A list keeps its shape when an element is replaced by one of its shape.
LEMMA ListEdited ==
  ASSUME NEW f, f.form = "ref", NEW v, NEW i, NEW e
  PROVE  LET w == [v EXCEPT ![i] = e]
         IN /\ Fits1(f, v) /\ Shaped1(f.name, f.of, e) => Fits1(f, w)
            /\ Fits2(f, v) /\ Shaped2(f.name, f.of, e) => Fits2(f, w)
<1> DEFINE w == [v EXCEPT ![i] = e]
<1>1. \A y : Elements(f, y) = Range(y)
  BY DEF Elements
<1>2. v \in Seq(Range(v)) => w \in Seq(Range(w)) /\ \A d \in Range(w) : d \in Range(v) \/ d = e
  <2> SUFFICES ASSUME v \in Seq(Range(v))
               PROVE  w \in Seq(Range(w)) /\ \A d \in Range(w) : d \in Range(v) \/ d = e
    BY Zenon
  <2>1. Len(v) \in Nat /\ DOMAIN v = 1 .. Len(v) /\ v = [j \in DOMAIN v |-> v[j]]
    BY SeqIsFunction
  <2>2. w = [j \in 1 .. Len(v) |-> IF j = i THEN e ELSE v[j]]
    BY <2>1, Zenon
  <2> HIDE DEF w
  <2>3. DOMAIN w = 1 .. Len(v) /\ \A j \in 1 .. Len(v) : w[j] \in Range(w)
    BY <2>2 DEF Range
  <2>4. w \in Seq(Range(w))
    BY <2>1, <2>2, <2>3
  <2>5. \A d \in Range(w) : d \in Range(v) \/ d = e
    BY <2>1, <2>2 DEF Range
  <2> QED
    BY <2>4, <2>5
<1> HIDE DEF w
<1>3. Fits1(f, v) /\ Shaped1(f.name, f.of, e) => Fits1(f, w)
  BY <1>1, <1>2, Zenon DEF Fits1
<1>4. Fits2(f, v) /\ Shaped2(f.name, f.of, e) => Fits2(f, w)
  BY <1>1, <1>2, Zenon DEF Fits2
<1> QED
  BY <1>3, <1>4 DEF w

\* A list of one element, and the empty list.
LEMMA ShortList ==
  ASSUME NEW f, f.form = "ref"
  PROVE  /\ Fits1(f, <<>>) /\ Fits2(f, <<>>)
         /\ \A e : /\ Shaped1(f.name, f.of, e) => Fits1(f, <<e>>)
                   /\ Shaped2(f.name, f.of, e) => Fits2(f, <<e>>)
<1>1. Elements(f, <<>>) = {} /\ <<>> \in Seq(Range(<<>>))
  BY DEF Elements, Range
<1>2. \A e : Elements(f, <<e>>) = {e} /\ <<e>> \in Seq(Range(<<e>>))
  BY DEF Elements, Range
<1> QED
  BY <1>1, <1>2 DEF Fits1, Fits2

\* A value in the field it was written for.
LEMMA TextFits ==
  ASSUME NEW n, NEW v \in Int
  PROVE  /\ Fits0(Plain(n), <<n, v>>) /\ Fits1(Plain(n), <<n, v>>)
         /\ Fits0(Ref(n, "scalar"), One(n, v)) /\ Fits1(Ref(n, "scalar"), One(n, v))
<1>1. ShapedText(n, "scalar", <<n, v>>)
  BY DEF ShapedText, IsText
<1>2. Shaped1(n, "scalar", <<n, v>>)
  BY <1>1, Zenon DEF Shaped1, ShapedBy
<1>3. /\ Plain(n).form # "ref" /\ Plain(n).name = n /\ Plain(n).of = "scalar"
      /\ Ref(n, "scalar").form = "ref" /\ Ref(n, "scalar").name = n
      /\ Ref(n, "scalar").of = "scalar"
  BY DEF Plain, Ref
<1>4. /\ Elements(Plain(n), <<n, v>>) = {<<n, v>>}
      /\ Elements(Ref(n, "scalar"), One(n, v)) = {<<n, v>>}
      /\ One(n, v) \in Seq(Range(One(n, v)))
  BY <1>3 DEF Elements, One, Range
<1> QED
  BY <1>1, <1>2, <1>3, <1>4, Zenon DEF Fits0, Fits1

ConditionTypes == {"ClusterCondition", "PilotCondition"}

ConditionNames == {"Type", "Status", "LastTransitionTime", "Reason", "Message"}

\* The conditions of clusters and of pilots have the same fields.
LEMMA ConditionFields ==
  ASSUME NEW t \in ConditionTypes
  PROVE  /\ ~IsText(t) /\ Fields(V1alpha1, t) = {Plain(n) : n \in ConditionNames}
         /\ Names(V1alpha1, t) = ConditionNames
<1>1. ~IsText(t)
  BY DEF ConditionTypes, IsText, TextTypes
<1>2. Fields(V1alpha1, t) = {Plain("Type"), Plain("Status"), Plain("LastTransitionTime"),
                             Plain("Reason"), Plain("Message")}
  BY CommonRows, PilotRows DEF ConditionTypes
<1>3. Fields(V1alpha1, t) = {Plain(n) : n \in ConditionNames}
  BY <1>2, Zenon DEF ConditionNames
<1>4. \A n : Plain(n).name = n
  BY DEF Plain
<1>5. Names(V1alpha1, t) = ConditionNames
  <2>1. \A m \in Names(V1alpha1, t) : m \in ConditionNames
    BY <1>3, <1>4 DEF Names
  <2>2. ASSUME NEW m \in ConditionNames PROVE m \in Names(V1alpha1, t)
    <3>1. Plain(m) \in Fields(V1alpha1, t) /\ Plain(m).name = m
      BY <1>3, <1>4, Zenon
    <3> QED
      BY <3>1, Zenon DEF Names
  <2> QED
    BY <2>1, <2>2, Zenon
<1> QED
  BY <1>1, <1>3, <1>5

\* A condition that a controller writes is one of the API.
LEMMA ConditionShaped ==
  ASSUME NEW t \in ConditionTypes, NEW n, NEW type \in Int, NEW val \in Int,
         NEW time \in Int, NEW reason \in Int
  PROVE  LET c == Condition(type, val, <<"LastTransitionTime", time>>, reason)
         IN Shaped1(n, t, c) /\ Shaped2(n, t, c)
<1> DEFINE c == Condition(type, val, <<"LastTransitionTime", time>>, reason)
<1>1. /\ DOMAIN c = ConditionNames /\ c = [m \in ConditionNames |-> c[m]]
      /\ \A m \in ConditionNames : \E v \in Int : c[m] = <<m, v>>
  BY DEF Condition, ConditionNames
<1> HIDE DEF c
<1>2. Struct(t, c)
  BY <1>1, ConditionFields, Zenon DEF Struct
<1>3. \A m : Plain(m).name = m
  BY DEF Plain
<1>4. \A f \in Fields(V1alpha1, t) : Fits0(f, c[f.name]) /\ Fits1(f, c[f.name])
  <2> TAKE f \in Fields(V1alpha1, t)
  <2>1. PICK m \in ConditionNames : f = Plain(m)
    BY ConditionFields
  <2>2. PICK v \in Int : c[m] = <<m, v>>
    BY <1>1
  <2> QED
    BY <1>3, <2>1, <2>2, TextFits, ZenonT(60)
<1> QED
  BY <1>2, <1>4, ConditionFields, ShapedByField, Zenon DEF c

\* A list of conditions stays one when a condition is set in it.
LEMMA WithConditionFits ==
  ASSUME NEW t \in ConditionTypes, NEW list, NEW type \in Int, NEW val \in Int,
         NEW reason \in Int
  PROVE  LET f == Ref("Conditions", t)
             w == WithCondition(list, type, val, reason)
         IN /\ Fits1(f, list) => Fits1(f, w)
            /\ Fits2(f, list) => Fits2(f, w)
<1> DEFINE f    == Ref("Conditions", t)
           w    == WithCondition(list, type, val, reason)
           now  == <<"LastTransitionTime", Now>>
           Mine == {j \in DOMAIN list : Num(list[j].Type) = type}
           i    == CHOOSE j \in Mine : \A l \in Mine : j <= l
           time == IF Num(list[i].Status) # val THEN now ELSE list[i].LastTransitionTime
           c    == Condition(type, val, time, reason)
<1>1. f.form = "ref" /\ f.name = "Conditions" /\ f.of = t
  BY DEF Ref
<1>2. \/ w = <<Condition(type, val, now, reason)>>
      \/ w = [list EXCEPT ![i] = c]
      \/ w = list
  BY DEF WithCondition
<1> HIDE DEF f, w
<1>3. /\ Shaped1("Conditions", t, Condition(type, val, now, reason))
      /\ Shaped2("Conditions", t, Condition(type, val, now, reason))
  BY ConditionShaped DEF Now
<1>4. ASSUME NEW j \in DOMAIN list, Fits1(f, list) \/ Fits2(f, list)
      PROVE  \E v \in Int : list[j].LastTransitionTime = <<"LastTransitionTime", v>>
  <2> DEFINE l == Plain("LastTransitionTime")
  <2>1. Shaped1("Conditions", t, list[j]) \/ Shaped2("Conditions", t, list[j])
    BY <1>1, <1>4, ElementsOf, Zenon DEF Fits1, Fits2
  <2>2. /\ l \in Fields(V1alpha1, t) /\ ~IsText(t) /\ l.name = "LastTransitionTime"
        /\ l.form # "ref" /\ l.of = "scalar"
    BY ConditionFields DEF ConditionNames, Plain
  <2> HIDE DEF l
  <2>3. Fits0(l, list[j].LastTransitionTime) \/ Fits1(l, list[j].LastTransitionTime)
    BY <2>1, <2>2, ShapedByField, Zenon
  <2>4. ShapedText(l.name, l.of, list[j].LastTransitionTime)
    BY <2>2, <2>3, ElementsOf, Zenon DEF Fits0, Fits1, Shaped1, ShapedBy, IsText
  <2> QED
    BY <2>2, <2>4 DEF ShapedText
<1>5. ASSUME i \in DOMAIN list, Fits1(f, list) \/ Fits2(f, list)
      PROVE  Shaped1("Conditions", t, c) /\ Shaped2("Conditions", t, c)
  <2>1. \E v \in Int : time = <<"LastTransitionTime", v>>
    <3>1. \E v \in Int : list[i].LastTransitionTime = <<"LastTransitionTime", v>>
      BY <1>4, <1>5, Zenon
    <3>2. Now \in Int
      BY DEF Now
    <3> HIDE DEF i
    <3> QED
      BY <3>1, <3>2, Zenon
  <2> HIDE DEF i, time
  <2> QED
    BY <2>1, ConditionShaped
<1>6. i \notin DOMAIN list /\ (Fits1(f, list) \/ Fits2(f, list)) =>
        [list EXCEPT ![i] = c] = list
  <2>1. Fits1(f, list) \/ Fits2(f, list) => list = [j \in DOMAIN list |-> list[j]]
    BY <1>1, SeqIsFunction, Zenon DEF Fits1, Fits2
  <2> HIDE DEF i, c
  <2> QED
    BY <2>1, Zenon
<1> HIDE DEF i, c, now
<1>7. /\ Fits1(f, list) => Fits1(f, [list EXCEPT ![i] = c])
      /\ Fits2(f, list) => Fits2(f, [list EXCEPT ![i] = c])
  <2>1. /\ Fits1(f, list) /\ Shaped1(f.name, f.of, c) => Fits1(f, [list EXCEPT ![i] = c])
        /\ Fits2(f, list) /\ Shaped2(f.name, f.of, c) => Fits2(f, [list EXCEPT ![i] = c])
    BY <1>1, ListEdited, Zenon
  <2> QED
    BY <1>1, <1>5, <1>6, <2>1
<1>8. /\ Fits1(f, <<Condition(type, val, now, reason)>>)
      /\ Fits2(f, <<Condition(type, val, now, reason)>>)
  BY <1>1, <1>3, ShortList
<1> QED
  BY <1>2, <1>7, <1>8 DEF f, w

\* An object stays one when a field of its status is replaced by one of its shape.
LEMMA StatusEdited ==
  ASSUME NEW k \in Kinds, NEW x, Shaped4(k, k, x),
         NEW f \in Fields(V1alpha1, StatusType(k)),
         \A g \in Fields(V1alpha1, StatusType(k)) : g.name = f.name => g = f,
         NEW v, Fits2(f, v)
  PROVE  LET y == [x EXCEPT !.Status = [x.Status EXCEPT ![f.name] = v]]
         IN Shaped4(k, k, y) /\ y.Status[f.name] = v /\ y.Spec = x.Spec
<1> DEFINE u == [x.Status EXCEPT ![f.name] = v]
<1>1. ~IsText(StatusType(k)) /\ Shaped3("Status", StatusType(k), x.Status)
  BY ObjectFields, ObjectParts, SMTT(30), Z3T(30)
<1>2. Shaped3("Status", StatusType(k), u) /\ u[f.name] = v
  BY <1>1, Replaced
<1> HIDE DEF u
<1>3. LET y == [x EXCEPT !.Status = u]
      IN Shaped4(k, k, y) /\ y.Status = u /\ y.Spec = x.Spec
  BY <1>2, ObjectParts
<1> QED
  BY <1>2, <1>3, Zenon DEF u

\* The copy x of the cached object c, with nothing in common.
Alone(x, c) == [copy |-> x, shared |-> {}, cached |-> c]

\* The parts of a copy that shares nothing with the cache.
LEMMA AloneParts ==
  ASSUME NEW x, NEW c
  PROVE  Alone(x, c).copy = x /\ Alone(x, c).shared = {} /\ Alone(x, c).cached = c
BY DEF Alone

\* A write to a copy that shares nothing is a write to the copy.
LEMMA AloneWritten ==
  ASSUME NEW x, NEW c, NEW v
  PROVE  [Alone(x, c) EXCEPT !.copy = v, !.cached = c] = Alone(v, c)
<1>1. [Alone(x, c) EXCEPT !.copy = v] = Alone(v, c)
  BY DEF Alone
<1>2. [Alone(v, c) EXCEPT !.cached = c] = Alone(v, c)
  BY DEF Alone
<1> QED
  BY <1>1, <1>2, Zenon

\* It gets no more its own than it was.
LEMMA AloneOwn ==
  ASSUME NEW x, NEW c, NEW cell
  PROVE  Own(Alone(x, c), cell) = Alone(x, c)
<1>1. Own(Alone(x, c), cell) = [Alone(x, c) EXCEPT !.shared = {}]
  <2>1. Alone(x, c).shared = {}
    BY AloneParts
  <2> QED
    BY <2>1 DEF Own
<1>2. [Alone(x, c) EXCEPT !.shared = {}] = Alone(x, c)
  BY DEF Alone
<1> QED
  BY <1>1, <1>2, Zenon

\* What a sync makes of the copy: still an object of the kind, on its own.
Stays(k, c, m) == \E y : m = Alone(y, c) /\ Shaped4(k, k, y)

\* Setting a condition of a cluster writes to the copy alone.
LEMMA ClusterConditionStays ==
  ASSUME NEW k \in ClusterKinds, NEW x, Shaped4(k, k, x), NEW c,
         NEW val \in Int, NEW reason \in Int
  PROVE  Stays(k, c, UpdateClusterCondition(Alone(x, c), val, reason))
<1> DEFINE m      == Alone(x, c)
           u      == x.Status.NavigatorClusterStatus
           w      == WithCondition(u.Conditions, Progressing, val, reason)
           Put(o) == [o EXCEPT !.Status.NavigatorClusterStatus.Conditions =
                                 WithCondition(@, Progressing, val, reason)]
           s      == Inline("NavigatorClusterStatus", "NavigatorClusterStatus")
           f      == Ref("Conditions", "ClusterCondition")
           path   == <<"Status", "NavigatorClusterStatus", "Conditions">>
<1>1. /\ s \in Fields(V1alpha1, StatusType(k)) /\ ~IsText("NavigatorClusterStatus")
      /\ \A g \in Fields(V1alpha1, StatusType(k)) : g.name = s.name => g = s
      /\ k \in Kinds
  BY CassandraRows, ElasticsearchRows
     DEF ClusterKinds, Kinds, StatusType, IsText, TextTypes, Inline, Ref
<1>2. /\ f \in Fields(V1alpha1, "NavigatorClusterStatus")
      /\ \A g \in Fields(V1alpha1, "NavigatorClusterStatus") : g = f
  BY CommonRows
<1>3. /\ s.name = "NavigatorClusterStatus" /\ s.form # "ref"
      /\ s.of = "NavigatorClusterStatus"
      /\ f.name = "Conditions" /\ f.form = "ref" /\ f.of = "ClusterCondition"
  BY DEF Inline, Ref
<1>4. Shaped2("NavigatorClusterStatus", "NavigatorClusterStatus", u)
  <2>1. Shaped3("Status", StatusType(k), x.Status) /\ ~IsText(StatusType(k))
    BY <1>1, ObjectParts, ObjectFields
  <2>2. Fits2(s, x.Status[s.name])
    BY <1>1, <2>1, ShapedByField, Zenon
  <2> HIDE DEF s
  <2> QED
    BY <1>3, <2>2, ElementsOf DEF Fits2
<1>5. Fits1(f, w)
  <2>1. Fits1(f, u.Conditions)
    BY <1>1, <1>2, <1>3, <1>4, ShapedByField, Zenon
  <2> QED
    BY <2>1, WithConditionFits DEF ConditionTypes, Progressing
<1> HIDE DEF f, s, w
<1>6. Shaped2("NavigatorClusterStatus", "NavigatorClusterStatus", [u EXCEPT !.Conditions = w])
  BY <1>1, <1>2, <1>3, <1>4, <1>5, Replaced, SMT, Z3, Zenon
<1>7. Fits2(s, [u EXCEPT !.Conditions = w])
  BY <1>3, <1>6 DEF Fits2, Elements
<1>8. Put(x) = [x EXCEPT !.Status = [x.Status EXCEPT ![s.name] =
                   [u EXCEPT !.Conditions = w]]]
  BY <1>3, Zenon DEF w
<1>9. Shaped4(k, k, Put(x))
  BY <1>1, <1>7, <1>8, StatusEdited, SMT, Z3, Zenon
<1>10. UpdateClusterCondition(m, val, reason) = 
        IF m.copy.Status.NavigatorClusterStatus.Conditions = <<>>
        THEN Own(In(m, <<>>, Put), path) ELSE In(m, path, Put)
  BY Zenon DEF UpdateClusterCondition
<1> HIDE DEF Put, path
<1>11. ASSUME NEW cell PROVE In(m, cell, Put) = Alone(Put(x), c)
  <2>1. In(m, cell, Put) = [m EXCEPT !.copy = Put(x), !.cached = c]
    BY AloneParts, ZenonT(60) DEF In
  <2> QED
    BY <2>1, AloneWritten, Zenon
<1>12. UpdateClusterCondition(m, val, reason) = Alone(Put(x), c)
  BY <1>10, <1>11, AloneOwn, Zenon
<1> QED
  BY <1>9, <1>12, Zenon DEF Stays

\* So does the bookkeeping of a pause.
LEMMA PausedStays ==
  ASSUME NEW k \in ClusterKinds, NEW x, Shaped4(k, k, x), NEW c
  PROVE  Stays(k, c, syncPausedConditions(Alone(x, c)))
<1> DEFINE m == Alone(x, c)
<1>1. syncPausedConditions(m) \in {UpdateClusterCondition(m, False, Paused),
                                   UpdateClusterCondition(m, True, Resumed), m}
  BY Zenon DEF syncPausedConditions
<1>2. /\ Stays(k, c, UpdateClusterCondition(m, False, Paused))
      /\ Stays(k, c, UpdateClusterCondition(m, True, Resumed))
  BY ClusterConditionStays DEF True, False, Paused, Resumed
<1>3. Stays(k, c, m)
  BY Zenon DEF Stays
<1> HIDE DEF m
<1> QED
  BY <1>1, <1>2, <1>3 DEF m

PoolStatusType(k) == IF k = "CassandraCluster" THEN "CassandraClusterNodePoolStatus"
                     ELSE "ElasticsearchClusterNodePoolStatus"

\* What the controllers find of the pools is a status of pools.
LEMMA ReadinessFits ==
  ASSUME NEW k \in ClusterKinds, NEW ready \in Readiness
  PROVE  LET f == Ref("NodePools", PoolStatusType(k))
         IN /\ f \in Fields(V1alpha1, StatusType(k)) /\ Fits2(f, ready)
            /\ \A g \in Fields(V1alpha1, StatusType(k)) : g.name = f.name => g = f
<1> DEFINE t == PoolStatusType(k)
           f == Ref("NodePools", t)
           r == Plain("ReadyReplicas")
           e == [ReadyReplicas |-> <<"ReadyReplicas", 2>>]
<1>1. /\ f \in Fields(V1alpha1, StatusType(k))
      /\ \A g \in Fields(V1alpha1, StatusType(k)) : g.name = f.name => g = f
  BY CassandraRows, ElasticsearchRows
     DEF ClusterKinds, StatusType, PoolStatusType, Inline, Ref
<1>2. /\ ~IsText(t) /\ Fields(V1alpha1, t) = {r}
  BY CassandraRows, ElasticsearchRows
     DEF ClusterKinds, PoolStatusType, IsText, TextTypes
<1>3. r.name = "ReadyReplicas" /\ f.form = "ref" /\ f.name = "NodePools" /\ f.of = t
  BY DEF Plain, Ref
<1>4. Fits1(r, <<"ReadyReplicas", 2>>)
  BY TextFits
<1> HIDE DEF t, r, f
<1>5. Names(V1alpha1, t) = {"ReadyReplicas"}
  BY <1>2, <1>3, Zenon DEF Names
<1>6. Struct(t, e) /\ e[r.name] = <<"ReadyReplicas", 2>>
  <2>1. /\ DOMAIN e = {"ReadyReplicas"} /\ e = [m \in {"ReadyReplicas"} |-> e[m]]
        /\ e[r.name] = <<"ReadyReplicas", 2>>
    BY <1>3
  <2> HIDE DEF e
  <2> QED
    BY <1>5, <2>1, Zenon DEF Struct
<1> HIDE DEF e
<1>7. Shaped2("NodePools", t, e)
  BY <1>2, <1>4, <1>6, ShapedByField, Zenon
<1>8. Fits2(f, <<>>) /\ Fits2(f, <<e>>)
  BY <1>3, <1>7, ShortList
<1>9. ready \in {<<>>, <<e>>}
  BY DEF Readiness, e
<1> QED
  BY <1>1, <1>8, <1>9 DEF f, t

\* The status of the pools goes in the copy alone.
LEMMA PoolStatusStays ==
  ASSUME NEW k \in ClusterKinds, NEW x, Shaped4(k, k, x), NEW c, NEW ready \in Readiness
  PROVE  /\ Stays(k, c, CassandraSync(Alone(x, c), ready))
         /\ Stays(k, c, ElasticsearchSync(Alone(x, c), ready))
<1> DEFINE f      == Ref("NodePools", PoolStatusType(k))
           Put(o) == [o EXCEPT !.Status.NodePools = ready]
<1>1. /\ k \in Kinds /\ f \in Fields(V1alpha1, StatusType(k)) /\ Fits2(f, ready)
      /\ \A g \in Fields(V1alpha1, StatusType(k)) : g.name = f.name => g = f
  BY ReadinessFits DEF Kinds, ClusterKinds
<1>2. f.name = "NodePools"
  BY DEF Ref
<1> HIDE DEF f
<1>3. PICK y : syncPausedConditions(Alone(x, c)) = Alone(y, c) /\ Shaped4(k, k, y)
  BY PausedStays DEF Stays
<1>4. Put(y) = [y EXCEPT !.Status = [y.Status EXCEPT ![f.name] = ready]]
  BY <1>2, Zenon
<1>5. Shaped4(k, k, Put(y))
  BY <1>1, <1>3, <1>4, StatusEdited
<1>6. \E cell : CassandraSync(Alone(x, c), ready) \in {Alone(y, c), In(Alone(y, c), cell, Put)}
  BY <1>3, Zenon DEF CassandraSync
<1>7. \E cell : ElasticsearchSync(Alone(x, c), ready) \in {Alone(y, c), In(Alone(y, c), cell, Put)}
  BY <1>3, Zenon DEF ElasticsearchSync
<1> HIDE DEF Put
<1>8. ASSUME NEW cell PROVE In(Alone(y, c), cell, Put) = Alone(Put(y), c)
  <2>1. In(Alone(y, c), cell, Put) = [Alone(y, c) EXCEPT !.copy = Put(y), !.cached = c]
    BY AloneParts, ZenonT(60) DEF In
  <2> QED
    BY <2>1, AloneWritten, Zenon
<1>9. Stays(k, c, Alone(y, c)) /\ Stays(k, c, Alone(Put(y), c))
  BY <1>3, <1>5, Zenon DEF Stays
<1>10. /\ CassandraSync(Alone(x, c), ready) \in {Alone(y, c), Alone(Put(y), c)}
       /\ ElasticsearchSync(Alone(x, c), ready) \in {Alone(y, c), Alone(Put(y), c)}
  BY <1>6, <1>7, <1>8, Zenon
<1> QED
  BY <1>9, <1>10, Zenon

\* Setting a condition of a pilot writes to the copy alone.
LEMMA PilotConditionStays ==
  ASSUME NEW x, Shaped4("Pilot", "Pilot", x), NEW c, NEW val \in Int, NEW reason \in Int
  PROVE  Stays("Pilot", c, UpdatePilotCondition(Alone(x, c), val, reason))
<1> DEFINE m      == Alone(x, c)
           w      == WithCondition(x.Status.Conditions, Started, val, reason)
           Put(o) == [o EXCEPT !.Status.Conditions = WithCondition(@, Started, val, reason)]
           f      == Ref("Conditions", "PilotCondition")
           path   == <<"Status", "Conditions">>
<1>1. /\ "Pilot" \in Kinds /\ StatusType("Pilot") = "PilotStatus"
      /\ f \in Fields(V1alpha1, "PilotStatus") /\ ~IsText("PilotStatus")
      /\ \A g \in Fields(V1alpha1, "PilotStatus") : g.name = f.name => g = f
  BY PilotRows DEF Kinds, StatusType, IsText, TextTypes, Ref
<1>2. f.name = "Conditions"
  BY DEF Ref
<1>3. Fits2(f, w)
  <2>1. Shaped3("Status", "PilotStatus", x.Status)
    BY <1>1, ObjectParts
  <2>2. Fits2(f, x.Status.Conditions)
    BY <1>1, <1>2, <2>1, ShapedByField, Zenon
  <2> QED
    BY <2>2, WithConditionFits DEF ConditionTypes, Started
<1> HIDE DEF f, w
<1>4. Put(x) = [x EXCEPT !.Status = [x.Status EXCEPT ![f.name] = w]]
  BY <1>2, Zenon DEF w
<1>5. Shaped4("Pilot", "Pilot", Put(x))
  BY <1>1, <1>3, <1>4, StatusEdited, SMT, Z3, Zenon
<1>6. UpdatePilotCondition(m, val, reason) =
        IF m.copy.Status.Conditions = <<>>
        THEN Own(In(m, <<>>, Put), path) ELSE In(m, path, Put)
  BY Zenon DEF UpdatePilotCondition
<1> HIDE DEF Put, path
<1>7. ASSUME NEW cell PROVE In(m, cell, Put) = Alone(Put(x), c)
  <2>1. In(m, cell, Put) = [m EXCEPT !.copy = Put(x), !.cached = c]
    BY AloneParts, ZenonT(60) DEF In
  <2> QED
    BY <2>1, AloneWritten, Zenon
<1>8. UpdatePilotCondition(m, val, reason) = Alone(Put(x), c)
  BY <1>6, <1>7, AloneOwn, Zenon
<1> QED
  BY <1>5, <1>8, Zenon DEF Stays

\* The fields of the status of a pilot, and those of what is in them.
LEMMA PilotStatusFields ==
  ASSUME NEW f \in Fields(V1alpha1, "PilotStatus")
  PROVE  /\ f.form = "ref" /\ ~IsText(f.of) /\ ~IsText("PilotStatus")
         /\ StatusType("Pilot") = "PilotStatus" /\ "Pilot" \in Kinds
         /\ \A g \in Fields(V1alpha1, "PilotStatus") : g.name = f.name => g = f
         /\ \A g, h \in Fields(V1alpha1, f.of) : g.name = h.name => g = h
<1>1. {"PilotStatus", "PilotCondition", "ElasticsearchPilotStatus",
       "CassandraPilotStatus"} \subseteq DOMAIN Conversions
  BY ConversionDomains, ConversionTables, SMT, Z3, Zenon
<1>2. f.form = "ref" /\ f.of \in DOMAIN Conversions
  BY <1>1, PilotRows DEF Ref
<1>3. StatusType("Pilot") = "PilotStatus" /\ "Pilot" \in Kinds
  BY DEF StatusType, Kinds
<1> QED
  BY <1>1, <1>2, <1>3, ConvertedTypes, ZenonT(60)

\* A pilot's object stays one when the status of its database is edited in place.
LEMMA ReportEdited ==
  ASSUME NEW x, Shaped4("Pilot", "Pilot", x), NEW f \in Fields(V1alpha1, "PilotStatus"),
         x.Status[f.name] # <<>>, NEW g \in Fields(V1alpha1, f.of), NEW v, Fits1(g, v)
  PROVE  LET l == x.Status[f.name]
             y == [x EXCEPT !.Status = [x.Status EXCEPT ![f.name] =
                      [l EXCEPT ![1] = [l[1] EXCEPT ![g.name] = v]]]]
         IN Shaped4("Pilot", "Pilot", y) /\ y.Status[f.name] # <<>>
<1> DEFINE l == x.Status[f.name]
           e == [l[1] EXCEPT ![g.name] = v]
           w == [l EXCEPT ![1] = e]
<1>1. Fits2(f, l)
  <2>1. Shaped3("Status", "PilotStatus", x.Status)
    BY PilotStatusFields, ObjectParts, SMT, Z3, Zenon
  <2> QED
    BY <2>1, PilotStatusFields, ShapedByField, Zenon
<1>2. 1 \in DOMAIN l /\ DOMAIN w = DOMAIN l
  <2>1. l \in Seq(Range(l))
    BY <1>1, PilotStatusFields DEF Fits2
  <2> HIDE DEF l, e
  <2>2. l # <<>>
    BY SMTT(30) DEF l
  <2> QED
    BY <2>1, <2>2, SMTT(30), Z3T(30)
<1>3. Shaped2(f.name, f.of, l[1])
  BY <1>1, <1>2, PilotStatusFields, ElementsOf, SMTT(30), Z3T(30) DEF Fits2
<1> HIDE DEF l
<1>4. Shaped2(f.name, f.of, e)
  BY <1>3, PilotStatusFields, Replaced, ZenonT(30)
<1> HIDE DEF e
<1>5. Fits2(f, w)
  BY <1>1, <1>4, PilotStatusFields, ListEdited, ZenonT(30)
<1>6. w # <<>>
  BY <1>2
<1> HIDE DEF w
<1>7. LET y == [x EXCEPT !.Status = [x.Status EXCEPT ![f.name] = w]]
      IN Shaped4("Pilot", "Pilot", y) /\ y.Status[f.name] = w
  BY <1>5, PilotStatusFields, StatusEdited, SMTT(30), Z3T(30)
<1> QED
  BY <1>6, <1>7, Zenon DEF w, e, l

\* What syncFunc of a pilot for Elasticsearch makes of the copy.
LEMMA ElasticsearchStatusesStay ==
  ASSUME NEW x, Shaped4("Pilot", "Pilot", x), NEW c
  PROVE  \A r \in ElasticsearchStatuses(Alone(x, c)) : Stays("Pilot", c, r)
<1> DEFINE m    == Alone(x, c)
           cell == <<"Status", "Elasticsearch">>
           New(o) == [o EXCEPT !.Status.Elasticsearch =
                                 <<[Documents |-> <<>>, Version |-> <<>>]>>]
           Unknown(o) == [o EXCEPT !.Status.Elasticsearch[1].Documents = <<>>]
           Told(o)    == [o EXCEPT !.Status.Elasticsearch[1].Documents = One("Documents", 2)]
           Version(o) == [o EXCEPT !.Status.Elasticsearch[1].Version = One("Version", 2)]
           e == In(IF m.copy.Status.Elasticsearch # <<>> THEN m
                   ELSE Own(In(m, <<>>, New), cell), cell, Unknown)
           d == In(e, cell, Told)
           Good(o) == Shaped4("Pilot", "Pilot", o) /\ o.Status.Elasticsearch # <<>>
           f == Ref("Elasticsearch", "ElasticsearchPilotStatus")
           p == Ref("Documents", "scalar")
           q == Ref("Version", "scalar")
           n == [Documents |-> <<>>, Version |-> <<>>]
<1>1. /\ f \in Fields(V1alpha1, "PilotStatus")
      /\ Fields(V1alpha1, "ElasticsearchPilotStatus") = {p, q}
  BY PilotRows
<1>2. /\ f.name = "Elasticsearch" /\ f.form = "ref" /\ f.of = "ElasticsearchPilotStatus"
      /\ p.name = "Documents" /\ p.form = "ref" /\ q.name = "Version" /\ q.form = "ref"
  BY DEF Ref
<1>3. /\ Fits1(p, <<>>) /\ Fits1(p, One("Documents", 2))
      /\ Fits1(q, <<>>) /\ Fits1(q, One("Version", 2))
  <2>1. Fits1(p, One("Documents", 2)) /\ Fits1(q, One("Version", 2))
    <3>1. 2 \in Int
      OBVIOUS
    <3> QED
      BY <3>1, TextFits, Zenon
  <2> HIDE DEF p, q
  <2> QED
    BY <1>2, <2>1, ShortList
<1> HIDE DEF f, p, q
<1>4. Shaped2("Elasticsearch", "ElasticsearchPilotStatus", n)
  <2>1. Names(V1alpha1, "ElasticsearchPilotStatus") = {"Documents", "Version"}
    BY <1>1, <1>2, Zenon DEF Names
  <2>2. /\ DOMAIN n = {"Documents", "Version"} /\ n = [i \in {"Documents", "Version"} |-> n[i]]
        /\ n[p.name] = <<>> /\ n[q.name] = <<>>
    BY <1>2
  <2>3. ~IsText("ElasticsearchPilotStatus")
    BY DEF IsText, TextTypes
  <2> HIDE DEF n
  <2> QED
    BY <1>1, <1>3, <2>1, <2>2, <2>3, ShapedByField, ZenonT(60) DEF Struct
<1>5. Good(New(x))
  <2> HIDE DEF n
  <2>1. Fits2(f, <<n>>) /\ <<n>> # <<>>
    BY <1>2, <1>4, ShortList, ZenonT(30)
  <2>2. New(x) = [x EXCEPT !.Status = [x.Status EXCEPT ![f.name] = <<n>>]]
    BY <1>2, Zenon DEF n
  <2>3. LET y == [x EXCEPT !.Status = [x.Status EXCEPT ![f.name] = <<n>>]]
        IN Shaped4("Pilot", "Pilot", y) /\ y.Status[f.name] = <<n>>
    BY <1>1, <2>1, PilotStatusFields, StatusEdited
  <2> HIDE DEF New
  <2> QED
    BY <1>2, <2>1, <2>2, <2>3, Zenon
<1>6. ASSUME NEW o, Good(o) PROVE Good(Unknown(o)) /\ Good(Told(o)) /\ Good(Version(o))
  <2> DEFINE l == o.Status[f.name]
             Put(g, v) == [o EXCEPT !.Status = [o.Status EXCEPT ![f.name] =
                             [l EXCEPT ![1] = [l[1] EXCEPT ![g.name] = v]]]]
  <2>1. /\ Unknown(o) = Put(p, <<>>) /\ Told(o) = Put(p, One("Documents", 2))
        /\ Version(o) = Put(q, One("Version", 2))
    BY <1>2, Zenon
  <2>2. ASSUME NEW g \in {p, q}, NEW v, Fits1(g, v) PROVE Good(Put(g, v))
    <3>1. o.Status[f.name] # <<>> /\ g \in Fields(V1alpha1, f.of)
      BY <1>1, <1>2, <1>6, <2>2, ZenonT(30)
    <3>2. Shaped4("Pilot", "Pilot", Put(g, v)) /\ Put(g, v).Status[f.name] # <<>>
      BY <1>1, <1>6, <2>2, <3>1, ReportEdited, ZenonT(30)
    <3> HIDE DEF Put
    <3> QED
      BY <1>2, <3>2
  <2>3. Good(Put(p, <<>>)) /\ Good(Put(p, One("Documents", 2))) /\ Good(Put(q, One("Version", 2)))
    BY <1>3, <2>2, Zenon
  <2> HIDE DEF Good, Put, Unknown, Told, Version
  <2> QED
    BY <2>1, <2>3, Zenon
<1>7. ElasticsearchStatuses(m) = {e, In(e, cell, Version), d, In(d, cell, Version)}
  BY Zenon DEF ElasticsearchStatuses
<1>8. Shaped4("Pilot", "Pilot", x) /\ x.Status.Elasticsearch # <<>> => Good(x)
  OBVIOUS
<1>9. \A o : Good(o) => Stays("Pilot", c, Alone(o, c))
  BY Zenon DEF Stays
<1> HIDE DEF New, Unknown, Told, Version, Good, cell
<1>10. ASSUME NEW o, NEW i
       PROVE  /\ In(Alone(o, c), i, New) = Alone(New(o), c)
              /\ In(Alone(o, c), i, Unknown) = Alone(Unknown(o), c)
              /\ In(Alone(o, c), i, Told) = Alone(Told(o), c)
              /\ In(Alone(o, c), i, Version) = Alone(Version(o), c)
  <2> DEFINE Set(v) == [Alone(o, c) EXCEPT !.copy = v, !.cached = c]
  <2>1. /\ In(Alone(o, c), i, New) = Set(New(o))
        /\ In(Alone(o, c), i, Unknown) = Set(Unknown(o))
        /\ In(Alone(o, c), i, Told) = Set(Told(o))
        /\ In(Alone(o, c), i, Version) = Set(Version(o))
    BY AloneParts, ZenonT(60) DEF In
  <2>2. \A v : Set(v) = Alone(v, c)
    BY AloneWritten, Zenon
  <2> HIDE DEF Set
  <2> QED
    BY <2>1, <2>2, SMT, Z3, Zenon
<1>11. PICK o : Good(o) /\ e = Alone(o, c)
  <2>1. CASE x.Status.Elasticsearch # <<>>
    <3>1. e = Alone(Unknown(x), c)
      BY <1>10, <2>1, AloneParts, ZenonT(60)
    <3> QED
      BY <1>6, <1>8, <2>1, <3>1, Zenon
  <2>2. CASE x.Status.Elasticsearch = <<>>
    <3>1. Own(In(m, <<>>, New), cell) = Alone(New(x), c)
      <4>1. In(m, <<>>, New) = Alone(New(x), c)
        BY <1>10, Zenon
      <4> QED
        BY <4>1, AloneOwn, Zenon
    <3>2. e = In(Own(In(m, <<>>, New), cell), cell, Unknown)
      BY <2>2, AloneParts, Zenon
    <3>3. e = Alone(Unknown(New(x)), c)
      BY <1>10, <3>1, <3>2, Zenon
    <3> QED
      BY <1>5, <1>6, <3>3, Zenon
  <2> QED
    BY <2>1, <2>2
<1> HIDE DEF e
<1>12. /\ d = Alone(Told(o), c) /\ In(e, cell, Version) = Alone(Version(o), c)
       /\ In(d, cell, Version) = Alone(Version(Told(o)), c)
  BY <1>10, <1>11, Zenon
<1>13. Good(Told(o)) /\ Good(Version(o)) /\ Good(Version(Told(o)))
  BY <1>6, <1>11
<1> HIDE DEF d
<1> QED
  BY <1>7, <1>9, <1>11, <1>12, <1>13, Zenon

\* What syncFunc of a pilot for Cassandra makes of the copy.
LEMMA CassandraStatusesStay ==
  ASSUME NEW x, Shaped4("Pilot", "Pilot", x), NEW c
  PROVE  \A r \in CassandraStatuses(Alone(x, c)) : Stays("Pilot", c, r)
<1> DEFINE m    == Alone(x, c)
           cell == <<"Status", "Cassandra">>
           New(o) == [o EXCEPT !.Status.Cassandra = <<[Version |-> <<>>]>>]
           Put(o, v) == [o EXCEPT !.Status.Cassandra[1].Version = v]
           e == IF m.copy.Status.Cassandra # <<>> THEN m ELSE Own(In(m, <<>>, New), cell)
           Values == {<<>>, One("Version", 2)}
           Good(o) == Shaped4("Pilot", "Pilot", o) /\ o.Status.Cassandra # <<>>
           f == Ref("Cassandra", "CassandraPilotStatus")
           q == Ref("Version", "Version")
           n == [Version |-> <<>>]
<1>1. /\ f \in Fields(V1alpha1, "PilotStatus")
      /\ Fields(V1alpha1, "CassandraPilotStatus") = {q}
  BY PilotRows
<1>2. /\ f.name = "Cassandra" /\ f.form = "ref" /\ f.of = "CassandraPilotStatus"
      /\ q.name = "Version" /\ q.form = "ref" /\ q.of = "Version"
  BY DEF Ref
<1> HIDE DEF f, q
<1>3. \A v \in Values : Fits1(q, v)
  <2>1. Shaped1("Version", "Version", <<"Version", 2>>)
    <3>1. ShapedText("Version", "Version", <<"Version", 2>>)
      BY DEF ShapedText, IsText, TextTypes
    <3> QED
      BY <3>1, Zenon DEF Shaped1, ShapedBy
  <2>2. Fits1(q, <<>>) /\ Fits1(q, <<<<"Version", 2>>>>)
    BY <1>2, <2>1, ShortList, SMT, Z3, Zenon
  <2> QED
    BY <2>2 DEF One
<1>4. Shaped2("Cassandra", "CassandraPilotStatus", n)
  <2>1. Names(V1alpha1, "CassandraPilotStatus") = {"Version"}
    BY <1>1, <1>2, Zenon DEF Names
  <2>2. /\ DOMAIN n = {"Version"} /\ n = [i \in {"Version"} |-> n[i]]
        /\ n[q.name] = <<>>
    BY <1>2
  <2>3. ~IsText("CassandraPilotStatus")
    BY DEF IsText, TextTypes
  <2> HIDE DEF n
  <2> QED
    BY <1>1, <1>3, <2>1, <2>2, <2>3, ShapedByField, ZenonT(60) DEF Struct
<1>5. Good(New(x))
  <2> HIDE DEF n
  <2>1. Fits2(f, <<n>>) /\ <<n>> # <<>>
    BY <1>2, <1>4, ShortList
  <2>2. New(x) = [x EXCEPT !.Status = [x.Status EXCEPT ![f.name] = <<n>>]]
    BY <1>2, Zenon DEF n
  <2>3. LET y == [x EXCEPT !.Status = [x.Status EXCEPT ![f.name] = <<n>>]]
        IN Shaped4("Pilot", "Pilot", y) /\ y.Status[f.name] = <<n>>
    BY <1>1, <2>1, PilotStatusFields, StatusEdited, SMT, Z3, Zenon
  <2> HIDE DEF New
  <2> QED
    BY <1>2, <2>1, <2>2, <2>3, ZenonT(60)
<1> HIDE DEF Values
<1>6. ASSUME NEW o, Good(o), NEW v \in Values PROVE Good(Put(o, v))
  <2> DEFINE l == o.Status[f.name]
             w == [o EXCEPT !.Status = [o.Status EXCEPT ![f.name] =
                     [l EXCEPT ![1] = [l[1] EXCEPT ![q.name] = v]]]]
  <2>1. Put(o, v) = w
    BY <1>2, Zenon
  <2>2. o.Status[f.name] # <<>> /\ q \in Fields(V1alpha1, f.of) /\ Fits1(q, v)
    BY <1>1, <1>2, <1>3, <1>6, SMTT(30), Z3T(30)
  <2>3. Shaped4("Pilot", "Pilot", w) /\ w.Status[f.name] # <<>>
    BY <1>1, <1>6, <2>2, ReportEdited, Zenon
  <2> HIDE DEF Put, w
  <2> QED
    BY <1>2, <2>1, <2>3, Zenon
<1>7. CassandraStatuses(m) = {In(e, cell, LAMBDA o : Put(o, v)) : v \in Values}
  BY Zenon DEF CassandraStatuses, Values
<1>8. Shaped4("Pilot", "Pilot", x) /\ x.Status.Cassandra # <<>> => Good(x)
  OBVIOUS
<1>9. \A o : Good(o) => Stays("Pilot", c, Alone(o, c))
  BY Zenon DEF Stays
<1> HIDE DEF New, Put, Good, cell
<1>10. ASSUME NEW o, NEW i, NEW v
       PROVE  /\ In(Alone(o, c), i, New) = Alone(New(o), c)
              /\ In(Alone(o, c), i, LAMBDA a : Put(a, v)) = Alone(Put(o, v), c)
  <2> DEFINE Set(w) == [Alone(o, c) EXCEPT !.copy = w, !.cached = c]
  <2>1. /\ In(Alone(o, c), i, New) = Set(New(o))
        /\ In(Alone(o, c), i, LAMBDA a : Put(a, v)) = Set(Put(o, v))
    BY AloneParts, ZenonT(60) DEF In
  <2>2. \A w : Set(w) = Alone(w, c)
    BY AloneWritten, Zenon
  <2> HIDE DEF Set
  <2> QED
    BY <2>1, <2>2, ZenonT(60)
<1>11. PICK o : Good(o) /\ e = Alone(o, c)
  <2>1. CASE x.Status.Cassandra # <<>>
    BY <1>8, <2>1, AloneParts, Zenon
  <2>2. CASE x.Status.Cassandra = <<>>
    <3>1. In(m, <<>>, New) = Alone(New(x), c)
      BY <1>10, Zenon
    <3>2. e = Own(In(m, <<>>, New), cell)
      BY <2>2, AloneParts, Zenon
    <3>3. e = Alone(New(x), c)
      BY <3>1, <3>2, AloneOwn, Zenon
    <3> QED
      BY <1>5, <3>3, Zenon
  <2> QED
    BY <2>1, <2>2
<1> HIDE DEF e
<1>12. ASSUME NEW v \in Values
       PROVE  Stays("Pilot", c, In(e, cell, LAMBDA a : Put(a, v)))
  <2>1. In(e, cell, LAMBDA a : Put(a, v)) = Alone(Put(o, v), c)
    BY <1>10, <1>11, Zenon
  <2> QED
    BY <1>6, <1>9, <1>11, <2>1, ZenonT(60)
<1> QED
  BY <1>7, <1>12, Zenon

\* A pilot's sync writes to the copy alone, whatever the database.
LEMMA PilotSyncStays ==
  ASSUME NEW x, Shaped4("Pilot", "Pilot", x), NEW c
  PROVE  \A r \in PilotSync(Alone(x, c)) : Stays("Pilot", c, r)
<1> DEFINE m    == Alone(x, c)
           sync == {m} \cup (IF sc.database = "Cassandra" THEN CassandraStatuses(m)
                             ELSE ElasticsearchStatuses(m))
<1>1. \A s \in sync : Stays("Pilot", c, s)
  <2>1. Stays("Pilot", c, m)
    BY Zenon DEF Stays
  <2> QED
    BY <2>1, CassandraStatusesStay, ElasticsearchStatusesStay
<1>2. PilotSync(m) = {UpdatePilotCondition(s, True, ProcessStarted) : s \in sync}
                       \cup {UpdatePilotCondition(s, False, 0) : s \in sync}
  BY Zenon DEF PilotSync
<1> HIDE DEF sync
<1>3. ASSUME NEW s \in sync
      PROVE  /\ Stays("Pilot", c, UpdatePilotCondition(s, True, ProcessStarted))
             /\ Stays("Pilot", c, UpdatePilotCondition(s, False, 0))
  <2>1. PICK y : s = Alone(y, c) /\ Shaped4("Pilot", "Pilot", y)
    BY <1>1 DEF Stays
  <2>2. True \in Int /\ ProcessStarted \in Int /\ False \in Int /\ 0 \in Int
    BY DEF True, ProcessStarted, False
  <2> QED
    BY <2>1, <2>2, PilotConditionStays
<1> QED
  BY <1>2, <1>3, Zenon

\* A sync writes to the copy alone and leaves an object of the kind in it.
LEMMA SyncStays ==
  ASSUME kind \in Kinds, NEW x, Shaped4(kind, kind, x), NEW c
  PROVE  \A r \in Synced(Alone(x, c)) : Stays(kind, c, r)
<1> DEFINE m == Alone(x, c)
<1>1. CASE kind = "CassandraCluster"
  <2>1. Synced(m) = {CassandraSync(m, n) : n \in Readiness}
    BY <1>1, Zenon DEF Synced
  <2>2. \A n \in Readiness : Stays(kind, c, CassandraSync(m, n))
    BY <1>1, PoolStatusStays, SMT, Z3, Zenon DEF ClusterKinds
  <2> QED
    BY <2>1, <2>2, Zenon
<1>2. CASE kind = "ElasticsearchCluster"
  <2>1. Synced(m) = {ElasticsearchSync(m, n) : n \in Readiness}
    BY <1>2 DEF Synced
  <2>2. \A n \in Readiness : Stays(kind, c, ElasticsearchSync(m, n))
    BY <1>2, PoolStatusStays DEF ClusterKinds
  <2> QED
    BY <2>1, <2>2, Zenon
<1>3. CASE kind = "Pilot"
  <2>1. Synced(m) = PilotSync(m)
    BY <1>3 DEF Synced
  <2> QED
    BY <1>3, <2>1, PilotSyncStays
<1> QED
  BY <1>1, <1>2, <1>3 DEF Kinds

-----------------------------------------------------------------------------
(* The inductive invariant.                                                *)

Ops      == {"none", "create", "update", "status", "delete"}
Stages   == {"idle", "admit", "wait", "live", "store", "done"}
Revs     == {"none", "read", "cache"}
Outcomes == {"none", "ok", "refused", "forbidden", "notReady", "noNamespace",
             "internalError"}

\* What the server has accepted: an object of the kind, with its defaults, whose
\* spec passed the validation.
ValidSpec(k, s) ==
  /\ k = "CassandraCluster" => ValidateCassandraClusterSpec(s)
  /\ k = "ElasticsearchCluster" => ValidateElasticsearchClusterSpec(s)

\* An object that the server stores: of its kind, with its defaults and valid.
Accepted(k, obj) ==
  /\ Shaped4(k, k, obj) /\ SetObjectDefaults(k, obj) = obj
  /\ ValidSpec(k, obj.Spec)

\* No object, or one object the server has accepted.
Holding(k, objs) == objs = <<>> \/ (objs = <<objs[1]>> /\ Accepted(k, objs[1]))

\* The types of the variables, but for those of the requests.
Typed ==
  /\ sc \in Scenarios
  /\ ns \in Phases /\ nsCache \in Phases \cup {"unsynced"} /\ left \in Nat
  /\ read \in [obj : {read.obj}, current : BOOLEAN]
  /\ cache \in [obj : {cache.obj}, current : BOOLEAN]
  /\ work \in [pc : {"idle", "copied", "sent"}, copy : {work.copy},
               shared : {work.shared}, current : BOOLEAN]

\* Each client sends requests of its own, with an object where one is due; an
\* edit has the status of what the owner read.
Sent(cl, r) ==
  /\ r \in [op : Ops, stage : Stages, obj : {r.obj}, rev : Revs, steady : BOOLEAN,
            outcome : Outcomes]
  /\ r.stage = "idle" => r.op = "none"
  /\ r.op \in {"create", "update", "status"} =>
       r.obj = <<r.obj[1]>> /\ Shaped4(kind, kind, r.obj[1])
  /\ r.op = "update" => cl = "owner" /\ r.rev # "cache"
  /\ r.op = "update" /\ r.rev = "read" => r.obj[1].Status = read.obj[1].Status

\* While the namespace does not move it is found.
Found(r) == r.steady => ns = "active" /\ r.outcome # "noNamespace"

\* The requests under way are ones that the clients send, and find their namespace.
Requests ==
  /\ req = [cl \in Clients |-> req[cl]]
  /\ \A cl \in Clients : Sent(cl, req[cl]) /\ Found(req[cl])

\* Whoever holds the object holds one that the server accepted, and knows when it
\* is the one that is stored.
Copies ==
  /\ Holding(kind, stored) /\ Holding(kind, delivered) /\ Holding(kind, read.obj)
  /\ cache.obj = delivered /\ work.shared = {}
  /\ work.pc = "copied" => /\ work.copy = <<work.copy[1]>>
                           /\ Shaped4(kind, kind, work.copy[1])
  /\ cache.current => stored = delivered /\ stored # <<>>
  /\ read.current => stored = read.obj /\ stored # <<>>

\* The stored object is what was last asked for and last reported.
History ==
  stored # <<>> => /\ stored[1].Status = status
                   /\ Holds3(SpecType[kind], spec, stored[1].Spec)

\* The inductive invariant.
IInv == Typed /\ Requests /\ Copies /\ History

\* The kinds of the scenarios, and the bodies that their owners submit.
LEMMA ScenarioFacts ==
  ASSUME Typed
  PROVE  kind \in Kinds /\ \A b \in sc.bodies : Shaped4(kind, kind, b)
BY ScenariosAssumption DEF Typed, kind

\* The requests stay in order when one of them becomes another that is in order.
LEMMA RequestChanged ==
  ASSUME Requests, NEW cl \in Clients, NEW r, Sent(cl, r), Found(r),
         req' = [req EXCEPT ![cl] = r], sc' = sc, ns' = ns, read'.obj = read.obj
  PROVE  Requests'
<1>1. \A d, q : (Sent(d, q) => Sent(d, q)') /\ (Found(q) => Found(q)')
  BY Zenon DEF Sent, Found, kind
<1>2. req'[cl] = r /\ \A d \in Clients \ {cl} : req'[d] = req[d]
  BY Zenon DEF Requests
<1>3. req' = [d \in Clients |-> req'[d]]
  BY Zenon DEF Requests
<1> QED
  BY <1>1, <1>2, <1>3 DEF Requests

\* A request that is handled goes on, or is answered.
LEMMA RequestHandled ==
  ASSUME Requests, NEW cl \in Clients, NEW s \in Stages \ {"idle"}, NEW o \in Outcomes,
         o = "noNamespace" => ~req[cl].steady \/ o = req[cl].outcome,
         req' = [req EXCEPT ![cl] = [req[cl] EXCEPT !.stage = s, !.outcome = o]],
         sc' = sc, ns' = ns, read'.obj = read.obj
  PROVE  Requests'
<1> DEFINE r == [req[cl] EXCEPT !.stage = s, !.outcome = o]
<1>1. Sent(cl, req[cl]) /\ Found(req[cl])
  BY DEF Requests
<1>2. /\ r.op = req[cl].op /\ r.obj = req[cl].obj /\ r.rev = req[cl].rev
      /\ r.steady = req[cl].steady /\ r.stage = s /\ r.outcome = o
      /\ r \in [op : Ops, stage : Stages, obj : {r.obj}, rev : Revs, steady : BOOLEAN,
                outcome : Outcomes]
  BY <1>1, Zenon DEF Sent
<1> HIDE DEF r
<1>3. Sent(cl, r) /\ Found(r)
  BY <1>1, <1>2, Zenon DEF Sent, Found
<1> QED
  BY <1>3, RequestChanged, Zenon DEF r

\* A request that goes on to its next stage stays in order.
LEMMA GotoKeeps ==
  ASSUME Requests, NEW cl \in Clients, NEW s \in Stages \ {"idle"}, Goto(cl, s),
         sc' = sc, ns' = ns, read'.obj = read.obj
  PROVE  Requests'
<1>1. Sent(cl, req[cl])
  BY DEF Requests
<1>2. req[cl].outcome \in Outcomes
  BY <1>1 DEF Sent
<1>3. [req[cl] EXCEPT !.stage = s]
        = [req[cl] EXCEPT !.stage = s, !.outcome = req[cl].outcome]
  BY <1>1, Zenon DEF Sent
<1>4. req' = [req EXCEPT ![cl] =
                [req[cl] EXCEPT !.stage = s, !.outcome = req[cl].outcome]]
  BY <1>3, Zenon DEF Goto
<1> QED
  BY <1>2, <1>4, RequestHandled, Zenon

\* A request that is answered stays in order, unless it is told that a steady
\* namespace is missing.
LEMMA AnswerKeeps ==
  ASSUME Requests, NEW cl \in Clients, NEW reply \in Outcomes, Answer(cl, reply),
         reply = "noNamespace" => ~req[cl].steady,
         sc' = sc, ns' = ns, read'.obj = read.obj
  PROVE  Requests'
<1>1. req' = [req EXCEPT ![cl] = [req[cl] EXCEPT !.stage = "done", !.outcome = reply]]
  BY Zenon DEF Answer, Requests
<1>2. "done" \in Stages \ {"idle"}
  BY DEF Stages
<1> QED
  BY <1>1, <1>2, RequestHandled, Zenon

\* A request that is sent is in order, if its body is.
LEMMA SendKeeps ==
  ASSUME Requests, NEW cl \in Clients, NEW op \in Ops, op # "none", NEW body,
         NEW rev \in Revs, Send(cl, op, body, rev),
         op \in {"create", "update", "status"} =>
           body = <<body[1]>> /\ Shaped4(kind, kind, body[1]),
         op = "update" => cl = "owner" /\ rev # "cache",
         op = "update" /\ rev = "read" => body[1].Status = read.obj[1].Status,
         sc' = sc, ns' = ns, read'.obj = read.obj
  PROVE  Requests'
<1> DEFINE stage == IF sc.standalone THEN "store" ELSE "admit"
           b == ns = "active"
           r == [NoReq EXCEPT !.op = op, !.rev = rev, !.steady = b, !.stage = stage,
                              !.obj = body]
<1>1. req' = [req EXCEPT ![cl] = r]
  BY Zenon DEF Send
<1>2. b \in BOOLEAN /\ stage \in Stages /\ stage # "idle"
  BY DEF Stages
<1> HIDE DEF b, stage
<1>3. /\ r.op = op /\ r.obj = body /\ r.rev = rev /\ r.stage = stage
      /\ r.steady = b /\ r.outcome = "none"
      /\ r \in [op : Ops, stage : Stages, obj : {body}, rev : Revs, steady : BOOLEAN,
                outcome : Outcomes]
  BY <1>2, Zenon DEF NoReq, Outcomes
<1> HIDE DEF r
<1>4. Sent(cl, r) /\ Found(r)
  BY <1>2, <1>3 DEF Sent, Found, b
<1> QED
  BY <1>1, <1>4, RequestChanged, Zenon

\* Nor does it disturb the others when a client takes its answer.
LEMMA ReturnKeeps ==
  ASSUME Requests, NEW cl \in Clients, req' = [req EXCEPT ![cl] = NoReq],
         sc' = sc, ns' = ns, read'.obj = read.obj
  PROVE  Requests'
<1>1. Sent(cl, NoReq) /\ Found(NoReq)
  BY Zenon DEF Sent, Found, NoReq, Ops, Stages, Revs, Outcomes
<1> QED
  BY <1>1, RequestChanged, Zenon

\* What a step leaves alone stays as it was.
LEMMA NothingMoves ==
  ASSUME IInv, UNCHANGED <<sc, ns, nsCache, stored, spec, status, watchVars, read>>,
         left' \in Nat
  PROVE  Typed' /\ Copies' /\ History'
<1> USE DEF IInv, watchVars
<1>1. Typed'
  BY Zenon DEF Typed
<1>2. Copies' /\ History'
  BY Zenon DEF Copies, History, kind
<1> QED
  BY <1>1, <1>2

\* The admission plugin only moves the request; it misses no namespace that was
\* there all along.
LEMMA AdmitKeeps ==
  ASSUME IInv, NEW cl \in Clients,
         \/ AdmitNotReady(cl) \/ AdmitCached(cl) \/ AdmitWaited(cl) \/ AdmitLive(cl)
         \/ AdmitLiveFails(cl)
  PROVE  IInv'
<1>1. AdmitLeaves
  BY DEF AdmitNotReady, AdmitCached, AdmitWaited, AdmitLive, AdmitLiveFails
<1>2. Typed' /\ Copies' /\ History'
  BY <1>1, NothingMoves DEF AdmitLeaves, IInv, Typed
<1>3. \/ \E s \in {"wait", "live", "store"} : Goto(cl, s)
      \/ \E reply \in Outcomes \ {"noNamespace"} : Answer(cl, reply)
      \/ ns = "absent" /\ Answer(cl, "noNamespace")
  BY DEF AdmitNotReady, AdmitCached, AdmitWaited, AdmitLive, AdmitLiveFails, Admitted,
         Outcomes
<1>4. Requests /\ sc' = sc /\ ns' = ns /\ read'.obj = read.obj
  BY <1>1 DEF AdmitLeaves, IInv
<1>5. ns = "absent" => ~req[cl].steady
  BY <1>4 DEF Requests, Found
<1>6. Requests'
  <2>1. ASSUME NEW s \in {"wait", "live", "store"}, Goto(cl, s) PROVE Requests'
    BY <1>4, <2>1, GotoKeeps, SMT, Z3, Zenon DEF Stages
  <2>2. ASSUME NEW reply \in Outcomes, reply # "noNamespace", Answer(cl, reply) PROVE Requests'
    BY <1>4, <2>2, AnswerKeeps, ZenonT(60)
  <2>3. ASSUME ns = "absent", Answer(cl, "noNamespace") PROVE Requests'
    BY <1>4, <1>5, <2>3, AnswerKeeps, SMT, Z3, Zenon DEF Outcomes
  <2> QED
    BY <1>3, <2>1, <2>2, <2>3, ZenonT(60)
<1> QED
  BY <1>2, <1>6 DEF IInv

\* A write of one object that the server accepts, with what was asked for and what
\* was reported in it.
LEMMA WriteKeeps ==
  ASSUME IInv, NEW objs, Write(objs), StoreLeaves, Holding(kind, objs),
         objs # <<>> => /\ objs[1].Status = status'
                        /\ Holds3(SpecType[kind], spec', objs[1].Spec)
  PROVE  Typed' /\ Copies' /\ History' /\ read'.obj = read.obj
<1>1. /\ stored' = objs /\ sc' = sc /\ ns' = ns /\ nsCache' = nsCache /\ left' = left
      /\ delivered' = delivered /\ kind' = kind
  BY DEF Write, StoreLeaves, kind
<1>2. /\ read' \in [obj : {read'.obj}, current : BOOLEAN]
      /\ read'.obj = read.obj /\ ~read'.current
  BY Zenon DEF Write, IInv, Typed
<1>3. /\ cache' \in [obj : {cache'.obj}, current : BOOLEAN]
      /\ cache'.obj = cache.obj /\ ~cache'.current
  BY Zenon DEF Write, IInv, Typed
<1>4. /\ work' \in [pc : {"idle", "copied", "sent"}, copy : {work'.copy},
                    shared : {work'.shared}, current : BOOLEAN]
      /\ work'.pc = work.pc /\ work'.copy = work.copy /\ work'.shared = work.shared
  BY Zenon DEF Write, IInv, Typed
<1>5. Typed'
  BY <1>1, <1>2, <1>3, <1>4, SMT, Z3, Zenon DEF IInv, Typed
<1>6. Copies'
  BY <1>1, <1>2, <1>3, <1>4, ZenonT(60) DEF IInv, Copies
<1>7. History'
  BY <1>1, Zenon DEF History
<1> QED
  BY <1>2, <1>5, <1>6, <1>7, SMT, Z3, Zenon

\* A request that is refused changes nothing but itself.
LEMMA RefuseKeeps ==
  ASSUME IInv, NEW cl \in Clients, Refuse(cl, "refused"), StoreLeaves
  PROVE  IInv'
<1>1. UNCHANGED <<sc, ns, nsCache, stored, spec, status, watchVars, read>> /\ left' \in Nat
  BY DEF Refuse, StoreLeaves, watchVars, IInv, Typed
<1>2. Typed' /\ Copies' /\ History'
  BY <1>1, NothingMoves, SMT, Z3, Zenon
<1>3. Requests'
  BY <1>1, AnswerKeeps DEF Refuse, Outcomes, IInv
<1> QED
  BY <1>2, <1>3, SMT, Z3, Zenon DEF IInv

\* A body as the server stores it, if it is accepted.
LEMMA BodyAccepted ==
  ASSUME kind \in Kinds, NEW b, Shaped4(kind, kind, b)
  PROVE  LET y == FromInternal(ToInternal(b))
         IN /\ ToInternal(b) = y /\ Shaped4(kind, kind, y) /\ y.Status = b.Status
            /\ SetObjectDefaults(kind, y) = y /\ Holds3(SpecType[kind], b.Spec, y.Spec)
            /\ ValidSpec(kind, y.Spec) => Holding(kind, <<y>>)
<1> DEFINE y == SetObjectDefaults(kind, b)
<1>1. /\ Shaped4(kind, kind, y) /\ y.Status = b.Status
      /\ Holds3(SpecType[kind], b.Spec, y.Spec) /\ SetObjectDefaults(kind, y) = y
  BY ObjectDefaults
<1> HIDE DEF y
<1>2. ToInternal(b) = y
  BY CodecsKeep, Zenon DEF y
<1>3. FromInternal(y) = y
  BY <1>1, CodecsKeep, Zenon
<1>4. ValidSpec(kind, y.Spec) => Holding(kind, <<y>>)
  BY <1>1 DEF Holding, Accepted
<1> QED
  BY <1>1, <1>2, <1>3, <1>4, ZenonT(60)

\* What the server accepted goes through its codecs as it is.
LEMMA AcceptedKept ==
  ASSUME kind \in Kinds, NEW obj, Accepted(kind, obj)
  PROVE  ToInternal(obj) = obj /\ FromInternal(ToInternal(obj)) = obj
BY CodecsKeep, Zenon DEF Accepted

\* What a strategy lets through has a valid spec.
LEMMA ValidatedSpec ==
  ASSUME NEW k \in Kinds, NEW old, NEW new, Validate(k, new) \/ ValidateUpdate(k, old, new)
  PROVE  ValidSpec(k, new.Spec)
<1>1. CASE k = "CassandraCluster"
  BY <1>1 DEF Validate, ValidateUpdate, ValidSpec, ValidateCassandraCluster,
              ValidateCassandraClusterUpdate
<1>2. CASE k = "ElasticsearchCluster"
  BY <1>2 DEF Validate, ValidateUpdate, ValidSpec, ValidateElasticsearchCluster,
              ValidateElasticsearchClusterUpdate
<1>3. CASE k = "Pilot"
  BY <1>3 DEF ValidSpec
<1> QED
  BY <1>1, <1>2, <1>3, SMT, Z3, Zenon DEF Kinds

\* The body of a request, where it has one.
LEMMA BodySent ==
  ASSUME IInv, NEW cl \in Clients, req[cl].op \in {"create", "update", "status"}
  PROVE  kind \in Kinds /\ Shaped4(kind, kind, req[cl].obj[1])
BY ScenarioFacts, Zenon DEF IInv, Requests, Sent

\* Creating the object preserves the invariant: what is stored is the body with its
\* defaults, which the codecs keep, and with an empty status.
LEMMA StoreCreateKeeps ==
  ASSUME IInv, NEW cl \in Clients, StoreCreate(cl)
  PROVE  IInv'
<1> DEFINE body == req[cl].obj[1]
           y    == FromInternal(ToInternal(body))
<1>1. kind \in Kinds /\ Shaped4(kind, kind, body)
  BY BodySent, SMTT(30) DEF StoreCreate
<1>2. /\ ToInternal(body) = y /\ y.Status = body.Status
      /\ Holds3(SpecType[kind], body.Spec, y.Spec)
      /\ ValidSpec(kind, y.Spec) => Holding(kind, <<y>>)
  BY <1>1, BodyAccepted, ZenonT(30)
<1>3. ASSUME /\ Validate(kind, ToInternal(body)) /\ Write(<<y>>) /\ Answer(cl, "ok")
             /\ spec' = body.Spec /\ status' = body.Status /\ StoreLeaves
      PROVE  IInv'
  <2>1. ValidSpec(kind, y.Spec)
    BY <1>1, <1>2, <1>3, ValidatedSpec, ZenonT(60)
  <2> HIDE DEF y, body
  <2>2. /\ Holding(kind, <<y>>) /\ <<y>>[1].Status = status'
        /\ Holds3(SpecType[kind], spec', <<y>>[1].Spec)
    BY <1>2, <1>3, <2>1, ZenonT(60)
  <2>3. Typed' /\ Copies' /\ History' /\ read'.obj = read.obj
    BY <1>3, <2>2, WriteKeeps, ZenonT(60)
  <2>4. Requests'
    BY <1>3, <2>3, AnswerKeeps, SMT, Z3, Zenon DEF IInv, Outcomes, StoreLeaves
  <2> QED
    BY <2>3, <2>4, SMTT(30), Z3T(30) DEF IInv
<1>4. ASSUME Refuse(cl, "refused"), StoreLeaves PROVE IInv'
  BY <1>4, RefuseKeeps
<1> QED
  BY <1>3, <1>4, ZenonT(60) DEF StoreCreate

\* An update is stored only over what its author read, whose status it carries.
LEMMA StoreUpdateKeeps ==
  ASSUME IInv, NEW cl \in Clients, StoreUpdate(cl)
  PROVE  IInv'
<1> DEFINE body == req[cl].obj[1]
           y    == FromInternal(ToInternal(body))
<1>1. kind \in Kinds /\ Shaped4(kind, kind, body)
  BY BodySent, ZenonT(60) DEF StoreUpdate
<1>2. /\ ToInternal(body) = y /\ y.Status = body.Status
      /\ Holds3(SpecType[kind], body.Spec, y.Spec)
      /\ ValidSpec(kind, y.Spec) => Holding(kind, <<y>>)
  BY <1>1, BodyAccepted, SMTT(30), Z3T(30)
<1>3. ASSUME /\ stored # <<>> /\ Current(cl)
             /\ ValidateUpdate(kind, ToInternal(stored[1]), ToInternal(body))
             /\ Write(<<y>>) /\ Answer(cl, "ok")
             /\ spec' = body.Spec /\ status' = status /\ StoreLeaves
      PROVE  IInv'
  <2>1. ValidSpec(kind, y.Spec)
    BY <1>1, <1>2, <1>3, ValidatedSpec, ZenonT(60)
  <2>2. body.Status = status
    <3>1. Sent(cl, req[cl]) /\ req[cl].op = "update"
      BY DEF IInv, Requests, StoreUpdate
    <3>2. req[cl].rev = "read" /\ body.Status = read.obj[1].Status
      BY <1>3, <3>1, Zenon DEF Sent, Revs, Current, AllowUnconditionalUpdate
    <3>3. read.current
      BY <1>3, <3>2, ZenonT(60) DEF Current
    <3>4. stored = read.obj /\ stored[1].Status = status
      BY <1>3, <3>3, SMT, Z3, Zenon DEF IInv, Copies, History
    <3> QED
      BY <3>2, <3>4, SMT, Z3, Zenon
  <2> HIDE DEF y, body
  <2>3. /\ Holding(kind, <<y>>) /\ <<y>>[1].Status = status'
        /\ Holds3(SpecType[kind], spec', <<y>>[1].Spec)
    BY <1>2, <1>3, <2>1, <2>2, SMT, Z3, Zenon
  <2>4. Typed' /\ Copies' /\ History' /\ read'.obj = read.obj
    BY <1>3, <2>3, WriteKeeps, ZenonT(30)
  <2>5. Requests'
    BY <1>3, <2>4, AnswerKeeps, ZenonT(60) DEF IInv, Outcomes, StoreLeaves
  <2> QED
    BY <2>4, <2>5 DEF IInv
<1>4. ASSUME Refuse(cl, "refused"), StoreLeaves PROVE IInv'
  BY <1>4, RefuseKeeps
<1> QED
  BY <1>3, <1>4, ZenonT(30) DEF StoreUpdate

\* The stored object is one that the server accepted.
LEMMA StoredAccepted ==
  ASSUME IInv, stored # <<>>
  PROVE  /\ kind \in Kinds /\ stored = <<stored[1]>> /\ Accepted(kind, stored[1])
         /\ ToInternal(stored[1]) = stored[1]
         /\ FromInternal(ToInternal(stored[1])) = stored[1]
<1>1. kind \in Kinds
  BY ScenarioFacts DEF IInv
<1>2. stored = <<stored[1]>> /\ Accepted(kind, stored[1])
  BY DEF IInv, Copies, Holding
<1> QED
  BY <1>1, <1>2, AcceptedKept, ZenonT(30)

\* The stored spec with another status is as acceptable as it was.
LEMMA StatusAccepted ==
  ASSUME kind \in Kinds, NEW old, Accepted(kind, old), NEW b, Shaped4(kind, kind, b)
  PROVE  LET z == PrepareForStatusUpdate(old, b)
         IN /\ Accepted(kind, z) /\ FromInternal(z) = z
            /\ z.Spec = old.Spec /\ z.Status = b.Status
<1> DEFINE z == PrepareForStatusUpdate(old, b)
<1>1. z = [b EXCEPT !.Spec = old.Spec]
  BY DEF PrepareForStatusUpdate
<1>2. Shaped4(kind, kind, old) /\ SetObjectDefaults(kind, old) = old
  BY DEF Accepted
<1> HIDE DEF z
<1>3. Shaped3("Spec", SpecType[kind], old.Spec)
  BY <1>2, ObjectParts, Zenon
<1>4. z.Spec = old.Spec /\ z.Status = b.Status /\ Shaped4(kind, kind, z)
  BY <1>1, <1>3, ObjectParts, SMT, Z3, Zenon
<1>5. SetObjectDefaults(kind, z) = z
  <2>1. CASE kind = "Pilot"
    BY <2>1 DEF SetObjectDefaults
  <2>2. CASE kind \in ClusterKinds
    <3>1. DefaultSpec(kind, z.Spec) = z.Spec
      BY <1>2, <1>4, <2>2, DefaultedReplicas, ZenonT(60)
    <3>2. SetObjectDefaults(kind, z) = [z EXCEPT !.Spec = DefaultSpec(kind, z.Spec)]
      BY <2>2 DEF SetObjectDefaults, ClusterKinds
    <3>3. Struct(kind, z)
      BY <1>4, ObjectParts, Zenon
    <3> QED
      BY <3>1, <3>2, <3>3, Zenon DEF Struct
  <2> QED
    BY <2>1, <2>2 DEF Kinds, ClusterKinds
<1>6. FromInternal(z) = z
  BY <1>4, CodecsKeep, Zenon
<1>7. Accepted(kind, z)
  BY <1>4, <1>5, Zenon DEF Accepted
<1> QED
  BY <1>4, <1>6, <1>7 DEF z

\* So does an update of the status, which takes the spec from what is stored.
LEMMA StoreStatusKeeps ==
  ASSUME IInv, NEW cl \in Clients, StoreStatus(cl)
  PROVE  IInv'
<1> DEFINE body == req[cl].obj[1]
           z == FromInternal(PrepareForStatusUpdate(ToInternal(stored[1]), ToInternal(body)))
<1>1. kind \in Kinds /\ Shaped4(kind, kind, body)
  BY BodySent DEF StoreStatus
<1>2. ASSUME /\ stored # <<>> /\ Write(<<z>>) /\ Answer(cl, "ok")
             /\ status' = body.Status /\ spec' = spec /\ StoreLeaves
      PROVE  IInv'
  <2>1. /\ Accepted(kind, z) /\ z.Spec = stored[1].Spec /\ z.Status = body.Status
    <3>1. Accepted(kind, stored[1]) /\ ToInternal(stored[1]) = stored[1]
      BY <1>2, StoredAccepted
    <3>2. Shaped4(kind, kind, ToInternal(body)) /\ ToInternal(body).Status = body.Status
      BY <1>1, BodyAccepted, ZenonT(30)
    <3>3. LET p == PrepareForStatusUpdate(stored[1], ToInternal(body))
          IN /\ Accepted(kind, p) /\ FromInternal(p) = p
             /\ p.Spec = stored[1].Spec /\ p.Status = ToInternal(body).Status
      BY <1>1, <3>1, <3>2, StatusAccepted, ZenonT(60)
    <3> QED
      BY <3>1, <3>2, <3>3, Zenon
  <2>2. Holds3(SpecType[kind], spec, stored[1].Spec)
    BY <1>2 DEF IInv, History
  <2> HIDE DEF z, body
  <2>3. /\ Holding(kind, <<z>>) /\ <<z>>[1].Status = status'
        /\ Holds3(SpecType[kind], spec', <<z>>[1].Spec)
    BY <1>2, <2>1, <2>2 DEF Holding
  <2>4. Typed' /\ Copies' /\ History' /\ read'.obj = read.obj
    BY <1>2, <2>3, WriteKeeps, ZenonT(30)
  <2>5. Requests'
    BY <1>2, <2>4, AnswerKeeps, SMT, Z3, Zenon DEF IInv, Outcomes, StoreLeaves
  <2> QED
    BY <2>4, <2>5 DEF IInv
<1>3. ASSUME Refuse(cl, "refused"), StoreLeaves PROVE IInv'
  BY <1>3, RefuseKeeps
<1> QED
  BY <1>2, <1>3, ZenonT(30) DEF StoreStatus

\* So does deleting the object.
LEMMA StoreDeleteKeeps ==
  ASSUME IInv, NEW cl \in Clients, StoreDelete(cl)
  PROVE  IInv'
<1>1. ASSUME Write(<<>>), Answer(cl, "ok"), StoreLeaves PROVE IInv'
  <2>1. Holding(kind, <<>>)
    BY DEF Holding
  <2>2. Typed' /\ Copies' /\ History' /\ read'.obj = read.obj
    BY <1>1, <2>1, WriteKeeps, ZenonT(30)
  <2>3. Requests'
    BY <1>1, <2>2, AnswerKeeps, ZenonT(30) DEF IInv, Outcomes, StoreLeaves
  <2> QED
    BY <2>2, <2>3 DEF IInv
<1>2. ASSUME Refuse(cl, "refused"), StoreLeaves PROVE IInv'
  BY <1>2, RefuseKeeps
<1> QED
  BY <1>1, <1>2, Zenon DEF StoreDelete

\* So does every step of the server on a request, and the client's taking of its
\* answer.
LEMMA HandleKeeps ==
  ASSUME IInv, NEW cl \in Clients, Handle(cl) \/ Return(cl)
  PROVE  IInv'
<1>1. CASE Return(cl)
  <2>1. Typed' /\ Copies' /\ History'
    BY <1>1, NothingMoves DEF Return, IInv, Typed
  <2>2. Requests'
    BY <1>1, ReturnKeeps, Zenon DEF Return, IInv
  <2> QED
    BY <2>1, <2>2, ZenonT(60) DEF IInv
<1> QED
  BY <1>1, AdmitKeeps, StoreCreateKeeps, StoreUpdateKeeps, StoreStatusKeeps,
     StoreDeleteKeeps, ZenonT(60) DEF Handle

\* So does the owner's reading of the object.
LEMMA ReadKeeps ==
  ASSUME IInv, Read
  PROVE  IInv'
<1>1. /\ stored # <<>> /\ UNCHANGED <<sc, ns, nsCache, stored, spec, status, watchVars>>
      /\ UNCHANGED <<req, left>> /\ req["owner"].stage = "idle"
  BY DEF Read, OwnerLeaves
<1>2. stored = <<stored[1]>> /\ FromInternal(ToInternal(stored[1])) = stored[1]
  BY <1>1, StoredAccepted, Zenon
<1>3. read' = [obj |-> stored, current |-> TRUE]
  BY <1>2, Zenon DEF Read
<1>4. /\ read'.obj = stored /\ read'.current
      /\ read' \in [obj : {read'.obj}, current : BOOLEAN]
  BY <1>3
<1>5. Typed'
  BY <1>1, <1>4, Zenon DEF IInv, Typed, watchVars
<1>6. Copies' /\ History'
  BY <1>1, <1>4, Zenon DEF IInv, Copies, History, watchVars, kind
<1>7. Requests'
  <2>1. \A cl \in Clients : req[cl].op # "update"
    BY <1>1 DEF IInv, Requests, Sent, Clients
  <2>2. \A cl \in Clients : Sent(cl, req[cl])' /\ Found(req[cl])'
    BY <1>1, <2>1, ZenonT(60) DEF IInv, Requests, Sent, Found, kind
  <2> QED
    BY <1>1, <2>2, ZenonT(60) DEF IInv, Requests
<1> QED
  BY <1>5, <1>6, <1>7, SMT, Z3, Zenon DEF IInv

\* Requests of the owner: a body of the scenario, or an edit of what was read.
LEMMA SubmitKeeps ==
  ASSUME IInv, SubmitCreate \/ SubmitUpdate \/ SubmitDelete
  PROVE  IInv'
<1>1. /\ UNCHANGED <<sc, ns, nsCache, stored, spec, status, watchVars, read>>
      /\ left > 0 /\ left' = Spent
  BY DEF SubmitCreate, SubmitUpdate, SubmitDelete, OwnerLeaves
<1>2. left' \in Nat
  BY <1>1 DEF Spent, IInv, Typed
<1>3. Typed' /\ Copies' /\ History'
  BY <1>1, <1>2, NothingMoves, ZenonT(30)
<1>4. /\ Requests /\ kind \in Kinds /\ \A b \in sc.bodies : Shaped4(kind, kind, b)
      /\ "owner" \in Clients /\ read'.obj = read.obj
  BY <1>1, ScenarioFacts, SMT, Z3, Zenon DEF IInv, Clients
<1>5. ASSUME NEW b \in sc.bodies, Send("owner", "create", <<b>>, "none") PROVE Requests'
  <2>1. <<b>>[1] = b
    OBVIOUS
  <2> QED
    BY <1>1, <1>4, <1>5, <2>1, SendKeeps, SMT, Z3, Zenon DEF Ops, Revs
<1>6. ASSUME NEW b \in sc.bodies, Send("owner", "update", <<b>>, "none") PROVE Requests'
  <2>1. <<b>>[1] = b
    OBVIOUS
  <2> QED
    BY <1>1, <1>4, <1>6, <2>1, SendKeeps, ZenonT(60) DEF Ops, Revs
<1>7. ASSUME NEW b \in sc.bodies, read.obj # <<>>,
             Send("owner", "update", <<[read.obj[1] EXCEPT !.Spec = b.Spec]>>, "read")
      PROVE  Requests'
  <2> DEFINE y == [read.obj[1] EXCEPT !.Spec = b.Spec]
  <2>1. Shaped4(kind, kind, read.obj[1]) /\ Shaped3("Spec", SpecType[kind], b.Spec)
    <3>1. Shaped4(kind, kind, read.obj[1])
      BY <1>7 DEF IInv, Copies, Holding, Accepted
    <3> QED
      BY <1>4, <3>1, ObjectParts, Zenon
  <2>2. y.Status = read.obj[1].Status /\ Shaped4(kind, kind, y)
    BY <1>4, <2>1, ObjectParts
  <2> HIDE DEF y
  <2>3. <<y>>[1] = y /\ Send("owner", "update", <<y>>, "read")
    BY <1>7 DEF y
  <2> QED
    BY <1>1, <1>4, <2>2, <2>3, SendKeeps, SMT, Z3, Zenon DEF Ops, Revs
<1>8. ASSUME Send("owner", "delete", <<>>, "none") PROVE Requests'
  BY <1>1, <1>4, <1>8, SendKeeps, ZenonT(30) DEF Ops, Revs
<1>9. Requests'
  BY <1>5, <1>6, <1>7, <1>8, Zenon DEF SubmitCreate, SubmitUpdate, SubmitDelete
<1> QED
  BY <1>3, <1>9 DEF IInv

\* A namespace that moves takes the steadiness of every request with it.
LEMMA NsMovesKeeps ==
  ASSUME IInv, NEW phase \in Phases, NsMoves(phase)
  PROVE  IInv'
<1>1. /\ ns' = phase /\ UNCHANGED <<sc, nsCache, stored, spec, status, watchVars, read, left>>
      /\ req' = [cl \in Clients |-> [req[cl] EXCEPT !.steady = FALSE]]
  BY DEF NsMoves
<1>2. Typed' /\ Copies' /\ History'
  <2>1. Typed'
    BY <1>1, Zenon DEF IInv, Typed, watchVars
  <2> QED
    BY <1>1, <2>1, Zenon DEF IInv, Copies, History, watchVars, kind
<1>3. ASSUME NEW cl \in Clients PROVE (Sent(cl, req[cl]) /\ Found(req[cl]))'
  <2>1. Sent(cl, req[cl])
    BY DEF IInv, Requests
  <2>2. PICK r : r = [req[cl] EXCEPT !.steady = FALSE]
    BY Zenon
  <2>3. /\ r.op = req[cl].op /\ r.obj = req[cl].obj /\ r.rev = req[cl].rev
        /\ r.stage = req[cl].stage /\ ~r.steady
        /\ r \in [op : Ops, stage : Stages, obj : {r.obj}, rev : Revs, steady : BOOLEAN,
                  outcome : Outcomes]
    BY <2>1, <2>2, Zenon DEF Sent
  <2>4. req'[cl] = r
    BY <1>1, <2>2, Zenon
  <2>5. Sent(cl, r)' /\ Found(r)'
    BY <1>1, <2>1, <2>3, Zenon DEF Sent, Found, kind
  <2> QED
    BY <2>4, <2>5, Zenon
<1>4. req' = [cl \in Clients |-> req'[cl]]
  BY <1>1, Zenon
<1> QED
  BY <1>2, <1>3, <1>4, Zenon DEF IInv, Requests

\* So does what happens to the namespace: a request for which it moved is no longer
\* one that must find it.
LEMMA NamespaceKeeps ==
  ASSUME IInv, \/ CreateNamespace \/ DeleteNamespace \/ Finalise \/ EmptyNamespace
               \/ NsObserve
  PROVE  IInv'
<1>1. CASE CreateNamespace \/ DeleteNamespace \/ Finalise
  BY <1>1, NsMovesKeeps, SMT, Z3, Zenon DEF CreateNamespace, DeleteNamespace,
     Finalise, Phases
<1>2. CASE EmptyNamespace
  <2>1. UNCHANGED <<sc, ns, nsCache, stored, spec, status, watchVars, read, left>>
    BY <1>2 DEF EmptyNamespace
  <2>2. Typed' /\ Copies' /\ History'
    BY <2>1, NothingMoves, SMT, Z3, Zenon DEF IInv, Typed
  <2>3. Requests'
    BY <1>2, <2>1, SendKeeps, SMT, Z3, Zenon DEF EmptyNamespace, IInv, Clients, Ops,
       Revs
  <2> QED
    BY <2>2, <2>3, SMT, Z3, Zenon DEF IInv
<1>3. CASE NsObserve
  <2>1. UNCHANGED <<sc, ns, serverVars, watchVars, read, left>> /\ nsCache' = ns
    BY <1>3 DEF NsObserve
  <2>2. Typed' /\ Copies' /\ History'
    <3>1. Typed'
      BY <2>1, Zenon DEF IInv, Typed, serverVars, watchVars
    <3> QED
      BY <2>1, <3>1, Zenon DEF IInv, Copies, History, serverVars, watchVars, kind
  <2>3. Requests'
    BY <2>1, Zenon DEF IInv, Requests, Sent, Found, serverVars, kind
  <2> QED
    BY <2>2, <2>3 DEF IInv
<1> QED
  BY <1>1, <1>2, <1>3, SMT, Z3, Zenon

\* What is sent to a process that watches is what is stored.
LEMMA SentAsStored ==
  ASSUME IInv
  PROVE  /\ [i \in DOMAIN stored |-> FromInternal(ToInternal(stored[i]))] = stored
         /\ FromInternalList([i \in DOMAIN stored |-> ToInternal(stored[i])]) = stored
<1> DEFINE objs == [i \in DOMAIN stored |-> ToInternal(stored[i])]
<1>1. kind \in Kinds
  BY ScenarioFacts DEF IInv
<1>2. /\ stored \in Seq(Range(stored))
      /\ \A i \in DOMAIN stored : Accepted(kind, stored[i])
  <2>1. CASE stored = <<>>
    BY <2>1 DEF Range
  <2>2. CASE stored # <<>>
    <3>1. stored = <<stored[1]>> /\ Accepted(kind, stored[1])
      BY <2>2, StoredAccepted, SMT, Z3, Zenon
    <3>2. PICK e : e = stored[1]
      OBVIOUS
    <3>3. stored = <<e>> /\ Accepted(kind, e)
      BY <3>1, <3>2, ZenonT(60)
    <3>4. DOMAIN <<e>> = {1} /\ <<e>> \in Seq(Range(<<e>>))
      BY DEF Range
    <3> QED
      BY <3>1, <3>3, <3>4, ZenonT(60)
  <2> QED
    BY <2>1, <2>2
<1>3. \A i \in DOMAIN stored : /\ ToInternal(stored[i]) = stored[i]
                               /\ FromInternal(ToInternal(stored[i])) = stored[i]
  BY <1>1, <1>2, AcceptedKept, SMT, Z3, Zenon
<1>4. stored = [i \in DOMAIN stored |-> stored[i]]
  BY <1>2, SeqIsFunction, Zenon
<1>5. [i \in DOMAIN stored |-> FromInternal(ToInternal(stored[i]))] = stored
  BY <1>3, <1>4, Zenon
<1>6. objs = stored
  BY <1>3, <1>4, ZenonT(60)
<1>7. \A o \in Range(stored) : Shaped4(kind, kind, o)
  BY <1>2 DEF Range, Accepted
<1>8. FromInternalList(stored) = stored
  BY <1>1, <1>2, <1>7, ListCodecKeeps, SMT, Z3, Zenon
<1> QED
  BY <1>5, <1>6, <1>8, ZenonT(60)

\* So does a delivery to the controller's cache, by watch or by list: the controller
\* is between syncs, or holds a copy of its own.
LEMMA DeliverKeeps ==
  ASSUME IInv, Watch \/ List
  PROVE  IInv'
<1>1. Deliver(stored)
  BY SentAsStored, Zenon DEF Watch, List
<1>2. /\ UNCHANGED <<sc, ns, nsCache, stored, spec, status, read, left, req>>
      /\ delivered' = stored
  BY <1>1 DEF Deliver, WatchLeaves
<1>3. /\ cache' \in [obj : {cache'.obj}, current : BOOLEAN]
      /\ cache'.obj = stored /\ (cache'.current => stored # <<>>)
  BY <1>1, Zenon DEF Deliver
<1>4. /\ work' \in [pc : {"idle", "copied", "sent"}, copy : {work'.copy},
                    shared : {work'.shared}, current : BOOLEAN]
      /\ work'.pc = work.pc /\ work'.copy = work.copy /\ work'.shared = {}
  BY <1>1 DEF Deliver, IInv, Typed
<1>5. Typed'
  BY <1>2, <1>3, <1>4, Zenon DEF IInv, Typed
<1>6. Copies' /\ History'
  BY <1>2, <1>3, <1>4, ZenonT(60) DEF IInv, Copies, History, kind
<1>7. Requests'
  BY <1>2, ZenonT(60) DEF IInv, Requests, Sent, Found, kind
<1> QED
  BY <1>5, <1>6, <1>7, SMT, Z3, Zenon DEF IInv

\* A sync starts on a deep copy of the cached object, which shares nothing with it.
LEMMA BeginSyncKeeps ==
  ASSUME IInv, BeginSync
  PROVE  IInv'
<1>1. /\ UNCHANGED <<sc, ns, nsCache, stored, spec, status, read, left, req, cache, delivered>>
      /\ cache.obj # <<>>
      /\ work' = [pc |-> "copied", copy |-> cache.obj, shared |-> SharedCells[kind],
                  current |-> cache.current]
  BY DEF BeginSync, WatchLeaves
<1>2. SharedCells[kind] = {}
  <2>1. kind \in DOMAIN V1alpha1
    <3>1. kind \in Kinds
      BY ScenarioFacts, SMTT(30), Z3T(30) DEF IInv
    <3> QED
      BY <3>1, ObjectFields, ConvertedTypes, ZenonT(60)
  <2> QED
    BY <2>1, DeepCopySharesNothing DEF Types
<1>3. /\ work' \in [pc : {"idle", "copied", "sent"}, copy : {work'.copy},
                    shared : {work'.shared}, current : BOOLEAN]
      /\ work'.copy = delivered /\ work'.shared = {}
  BY <1>1, <1>2, ZenonT(60) DEF IInv, Typed, Copies
<1>4. delivered = <<delivered[1]>> /\ Shaped4(kind, kind, delivered[1])
  BY <1>1 DEF IInv, Copies, Holding, Accepted
<1>5. Typed'
  BY <1>1, <1>3, Zenon DEF IInv, Typed
<1>6. Copies' /\ History'
  BY <1>1, <1>3, <1>4, Zenon DEF IInv, Copies, History, kind
<1>7. Requests'
  BY <1>1, ZenonT(60) DEF IInv, Requests, Sent, Found, kind
<1> QED
  BY <1>5, <1>6, <1>7 DEF IInv

\* A sync posts an object of the kind and writes to nothing but its own copy.
LEMMA SyncKeeps ==
  ASSUME IInv, Sync
  PROVE  IInv'
<1> DEFINE x == work.copy[1]
           c == cache.obj
<1>1. /\ UNCHANGED <<sc, ns, nsCache, stored, spec, status, read, left, delivered>>
      /\ work.pc = "copied"
      /\ work' = [work EXCEPT !.pc = "sent", !.copy = <<>>, !.shared = {}]
  BY DEF Sync, WatchLeaves
<1>2. kind \in Kinds /\ Shaped4(kind, kind, x) /\ work.shared = {}
  BY <1>1, ScenarioFacts DEF IInv, Copies
<1>3. [copy |-> x, shared |-> work.shared, cached |-> c] = Alone(x, c)
  BY <1>2, Zenon DEF Alone
<1>4. PICK m \in Synced(Alone(x, c)) :
             /\ cache' = [cache EXCEPT !.obj = m.cached]
             /\ Send("controller", "status", <<m.copy>>, "cache")
  BY <1>3, ZenonT(60) DEF Sync
<1>5. PICK y : m = Alone(y, c) /\ Shaped4(kind, kind, y)
  BY <1>2, SyncStays, SMT, Z3, Zenon DEF Stays
<1>6. m.copy = y /\ m.cached = c
  BY <1>5, AloneParts, Zenon
<1>7. cache' = cache
  BY <1>4, <1>6, SMT, Z3, Zenon DEF IInv, Typed
<1>8. /\ work' \in [pc : {"idle", "copied", "sent"}, copy : {work'.copy},
                    shared : {work'.shared}, current : BOOLEAN]
      /\ work'.pc = "sent" /\ work'.shared = {}
  BY <1>1, Zenon DEF IInv, Typed
<1>9. Typed'
  BY <1>1, <1>7, <1>8, ZenonT(60) DEF IInv, Typed
<1>10. Copies' /\ History'
  BY <1>1, <1>7, <1>8, SMT, Z3, Zenon DEF IInv, Copies, History, kind
<1>11. Requests'
  <2>1. Send("controller", "status", <<y>>, "cache") /\ <<y>>[1] = y
    BY <1>4, <1>6, ZenonT(60)
  <2> QED
    BY <1>1, <1>5, <2>1, SendKeeps, SMT, Z3, Zenon DEF IInv, Clients, Ops, Revs
<1> QED
  BY <1>9, <1>10, <1>11, SMT, Z3, Zenon DEF IInv

\* So does the end of a sync.
LEMMA FinishSyncKeeps ==
  ASSUME IInv, FinishSync
  PROVE  IInv'
<1>1. /\ UNCHANGED <<sc, ns, nsCache, stored, spec, status, read, left, cache, delivered>>
      /\ req' = [req EXCEPT !["controller"] = NoReq] /\ work' = NoWork
  BY DEF FinishSync, WatchLeaves
<1>2. /\ work' \in [pc : {"idle", "copied", "sent"}, copy : {work'.copy},
                    shared : {work'.shared}, current : BOOLEAN]
      /\ work'.pc = "idle" /\ work'.shared = {}
  BY <1>1 DEF NoWork
<1>3. Typed'
  BY <1>1, <1>2, ZenonT(60) DEF IInv, Typed
<1>4. Copies' /\ History'
  BY <1>1, <1>2, SMT, Z3, Zenon DEF IInv, Copies, History, kind
<1>5. Requests'
  BY <1>1, ReturnKeeps DEF IInv, Clients
<1> QED
  BY <1>3, <1>4, <1>5 DEF IInv

\* The invariant holds when the server starts, with nothing stored.
LEMMA InitIInv == Init => IInv
<1> SUFFICES ASSUME Init PROVE IInv
  OBVIOUS
<1>1. sc \in Scenarios /\ ns \in Phases /\ left \in Nat
  BY ScenariosAssumption DEF Init
<1>2. nsCache \in Phases \cup {"unsynced"}
  BY <1>1, SMT, Z3, Zenon DEF Init
<1>3. Typed
  BY <1>1, <1>2 DEF Init, Typed, NoRead, NoCache, NoWork
<1>4. Requests
  <2>1. \A cl \in Clients : Sent(cl, NoReq) /\ Found(NoReq)
    BY DEF Sent, Found, NoReq, Ops, Stages, Revs, Outcomes
  <2>2. req = [cl \in Clients |-> req[cl]] /\ \A cl \in Clients : req[cl] = NoReq
    BY ZenonT(60) DEF Init
  <2> QED
    BY <2>1, <2>2, ZenonT(60) DEF Requests
<1>5. Copies /\ History
  BY DEF Init, Copies, History, Holding, NoRead, NoCache, NoWork
<1> QED
  BY <1>3, <1>4, <1>5, SMT, Z3, Zenon DEF IInv

\* It is preserved by every step.
LEMMA NextIInv == IInv /\ [Next]_vars => IInv'
<1> SUFFICES ASSUME IInv, [Next]_vars PROVE IInv'
  OBVIOUS
<1>1. ASSUME NEW cl \in Clients, Handle(cl) \/ Return(cl) PROVE IInv'
  BY <1>1, HandleKeeps
<1>2. CASE Read
  BY <1>2, ReadKeeps, SMT, Z3, Zenon
<1>3. CASE SubmitCreate \/ SubmitUpdate \/ SubmitDelete
  BY <1>3, SubmitKeeps
<1>4. CASE \/ CreateNamespace \/ DeleteNamespace \/ Finalise \/ EmptyNamespace \/ NsObserve
  BY <1>4, NamespaceKeeps
<1>5. CASE Watch \/ List
  BY <1>5, DeliverKeeps, ZenonT(60)
<1>6. CASE BeginSync
  BY <1>6, BeginSyncKeeps
<1>7. CASE Sync
  BY <1>7, SyncKeeps
<1>8. CASE FinishSync
  BY <1>8, FinishSyncKeeps
<1>9. CASE UNCHANGED vars
  <2>1. UNCHANGED <<sc, ns, nsCache, stored, spec, status, watchVars, read, left>> /\ req' = req
    BY <1>9, SMTT(30), Z3T(30) DEF vars, serverVars
  <2>2. Typed' /\ Copies' /\ History'
    BY <2>1, NothingMoves, SMT, Z3, Zenon DEF IInv, Typed
  <2>3. Requests'
    BY <2>1, Zenon DEF IInv, Requests, Sent, Found, kind
  <2> QED
    BY <2>2, <2>3, SMT, Z3, Zenon DEF IInv
<1> QED
  BY <1>1, <1>2, <1>3, <1>4, <1>5, <1>6, <1>7, <1>8, <1>9, ZenonT(60) DEF Next

\* The inductive invariant holds throughout.
THEOREM Invariant == Spec => []IInv
BY InitIInv, NextIInv, PTL DEF Spec

\* The object that is stored or delivered, in a Range.
LEMMA HeldObject ==
  ASSUME NEW k, NEW objs, Holding(k, objs), NEW obj \in Range(objs)
  PROVE  objs # <<>> /\ obj = objs[1] /\ Accepted(k, obj)
<1>1. objs # <<>>
  BY DEF Range
<1>2. objs = <<objs[1]>> /\ Accepted(k, objs[1])
  BY <1>1 DEF Holding
<1> QED
  BY <1>1, <1>2, SMT, Z3, Zenon DEF Range

\* Objects are of their kind's type and requests at a stage that exists, for any
\* bodies of any size: no conversion moves a value to another field
\* (unsafe.Pointer casts in zz_generated.conversion.go).
THEOREM TypeCorrect == Spec => []TypeOK
<1>1. IInv => TypeOK
  <2> SUFFICES ASSUME IInv PROVE TypeOK
    OBVIOUS
  <2>1. /\ ns \in Phases /\ nsCache \in Phases \cup {"unsynced"} /\ left \in Nat
        /\ work.pc \in {"idle", "copied", "sent"}
    BY DEF IInv, Typed
  <2>2. Len(stored) <= 1
    <3>1. stored = <<>> \/ stored = <<stored[1]>>
      BY SMT, Z3, Zenon DEF IInv, Copies, Holding
    <3> QED
      BY <3>1, SMT, Z3, Zenon
  <2>3. ASSUME NEW cl \in Clients
        PROVE  req[cl].op \in Ops /\ req[cl].stage \in Stages /\ req[cl].outcome \in Outcomes
    BY SMTT(30) DEF IInv, Requests, Sent
  <2>4. \A obj \in Range(stored) \cup Range(delivered) : Shaped4(kind, kind, obj)
    BY HeldObject, ZenonT(60) DEF IInv, Copies, Accepted
  <2> QED
    BY <2>1, <2>2, <2>3, <2>4, ZenonT(60) DEF TypeOK, Ops, Stages, Outcomes
<1> QED
  BY <1>1, Invariant, PTL

\* The spec that is stored, and the one in an up-to-date cache, have every value
\* of the last accepted body, whatever its fields hold (zz_generated.conversion.go).
THEOREM SpecSubmitted == Spec => []SpecAsSubmitted
<1>1. IInv => SpecAsSubmitted
  BY ZenonT(60) DEF IInv, Copies, History, SpecAsSubmitted
<1> QED
  BY <1>1, Invariant, PTL

\* The status that is stored is the one that was last reported: an edit that
\* started from an older object is refused (AllowUnconditionalUpdate in
\* pkg/registry).
THEOREM StatusReported == Spec => []StatusAsReported
<1>1. IInv => StatusAsReported
  BY ZenonT(60) DEF IInv, History, StatusAsReported
<1> QED
  BY <1>1, Invariant, PTL

\* A sync changes nothing in its informer's cache, and its copy shares no memory
\* with the cached object (zz_generated.deepcopy.go).
THEOREM CacheDelivered == Spec => []CacheAsDelivered
<1>1. IInv => CacheAsDelivered
  BY SMT, Z3, Zenon DEF IInv, Copies, CacheAsDelivered
<1> QED
  BY <1>1, Invariant, PTL

\* A create is not refused for want of a namespace that was there all along
\* (lifecycle/admission.go, Admit).
THEOREM NamespaceNotMissed == Spec => []NamespaceFound
<1>1. IInv => NamespaceFound
  BY SMT, Z3, Zenon DEF IInv, Requests, Found, NamespaceFound
<1> QED
  BY <1>1, Invariant, PTL

\* Every pool that a controller is sent has a number of replicas, whatever was
\* submitted: SetDefaults_* ran on all that is stored.
THEOREM ReplicasAlwaysKnown == Spec => []ReplicasKnown
<1>1. IInv => ReplicasKnown
  <2> SUFFICES ASSUME IInv, NEW obj \in Range(delivered), NEW np \in Range(PoolsOf(obj))
               PROVE  np.Replicas # <<>>
    BY SMTT(30), Z3T(30) DEF ReplicasKnown
  <2>1. kind \in Kinds /\ Accepted(kind, obj)
    BY ScenarioFacts, HeldObject, SMT, Z3, Zenon DEF IInv, Copies
  <2>2. CASE kind = "Pilot"
    BY <2>2, SMTT(30) DEF PoolsOf, Range
  <2>3. CASE kind \in ClusterKinds
    <3>1. np \in Range(obj.Spec.NodePools)
      BY <2>3, SMT, Z3, Zenon DEF PoolsOf, ClusterKinds
    <3> QED
      BY <2>1, <2>3, <3>1, DefaultedReplicas, ZenonT(60) DEF Accepted
  <2> QED
    BY <2>1, <2>2, <2>3, SMT, Z3, Zenon DEF Kinds, ClusterKinds
<1> QED
  BY <1>1, Invariant, PTL

-----------------------------------------------------------------------------
(* The place of a pool.                                                    *)

\* What a pool keeps from one object to the next.
Placed(was, np) ==
  /\ was.Persistence \in {<<>>, np.Persistence}
  /\ \A f \in DOMAIN was \ {"Replicas", "Persistence"} : np[f] = was[f]

\* Pools with different names keep their places when they do not change, and
\* pools whose update was validated keep them too.
LEMMA PoolsPlaced ==
  ASSUME NEW old, NEW new,
         (UniqueNames(old) /\ new = old) \/ ValidatePoolsUpdate(old, new),
         NEW was \in Range(old), NEW np \in Range(new), np.Name = was.Name
  PROVE  Placed(was, np)
<1>1. CASE UniqueNames(old) /\ new = old
  <2>1. np = was
    BY <1>1, Zenon DEF UniqueNames, Range
  <2> QED
    BY <2>1, Zenon DEF Placed
<1>2. CASE ValidatePoolsUpdate(old, new)
  <2>1. /\ np.Persistence # was.Persistence => was.Persistence = <<>>
        /\ was = [np EXCEPT !.Replicas = was.Replicas, !.Persistence = was.Persistence]
    BY <1>2, Zenon DEF ValidatePoolsUpdate
  <2>2. \A f \in DOMAIN was \ {"Replicas", "Persistence"} : np[f] = was[f]
    <3> DEFINE a == was.Replicas
               p == was.Persistence
    <3>1. \A f \in DOMAIN np \ {"Replicas", "Persistence"} :
            np[f] = [np EXCEPT !.Replicas = a, !.Persistence = p][f]
      BY Zenon
    <3>2. DOMAIN [np EXCEPT !.Replicas = a, !.Persistence = p] = DOMAIN np
      BY Zenon
    <3> QED
      BY <2>1, <3>1, <3>2, ZenonT(60)
  <2> QED
    BY <2>1, <2>2, SMT, Z3, Zenon DEF Placed
<1> QED
  BY <1>1, <1>2, SMT, Z3, Zenon

\* What may be stored in place of an object that is there: one with the same
\* spec, or an update of it that was validated.
LEMMA StoredNext ==
  ASSUME IInv, [Next]_vars, stored # <<>>, stored' # <<>>
  PROVE  \/ stored'[1].Spec = stored[1].Spec
         \/ ValidateUpdate(kind, stored[1], stored'[1])
<1>1. CASE stored' = stored
  BY <1>1
<1>2. ASSUME NEW cl \in Clients, StoreUpdate(cl), stored' # stored
      PROVE  ValidateUpdate(kind, stored[1], stored'[1])
  <2> DEFINE body == req[cl].obj[1]
             y    == FromInternal(ToInternal(body))
  <2>1. kind \in Kinds /\ Shaped4(kind, kind, body)
    BY <1>2, BodySent, ZenonT(60) DEF StoreUpdate
  <2>2. ToInternal(body) = y /\ ToInternal(stored[1]) = stored[1]
    BY <2>1, BodyAccepted, StoredAccepted, ZenonT(60)
  <2>3. stored' = <<y>> /\ ValidateUpdate(kind, ToInternal(stored[1]), ToInternal(body))
    BY <1>2, Zenon DEF StoreUpdate, Write, Refuse
  <2> HIDE DEF y, body
  <2>4. stored'[1] = y
    BY <2>3
  <2> QED
    BY <2>2, <2>3, <2>4, ZenonT(30)
<1>3. ASSUME NEW cl \in Clients, StoreStatus(cl), stored' # stored
      PROVE  stored'[1].Spec = stored[1].Spec
  <2> DEFINE body == req[cl].obj[1]
             p    == PrepareForStatusUpdate(ToInternal(stored[1]), ToInternal(body))
  <2>1. kind \in Kinds /\ Shaped4(kind, kind, body)
    BY <1>3, BodySent, ZenonT(60) DEF StoreStatus
  <2>2. Accepted(kind, stored[1]) /\ ToInternal(stored[1]) = stored[1]
    BY StoredAccepted
  <2>3. Shaped4(kind, kind, ToInternal(body))
    BY <2>1, BodyAccepted, ZenonT(60)
  <2>4. FromInternal(p) = p /\ p.Spec = stored[1].Spec
    <3>1. LET q == PrepareForStatusUpdate(stored[1], ToInternal(body))
          IN FromInternal(q) = q /\ q.Spec = stored[1].Spec
      BY <2>1, <2>2, <2>3, StatusAccepted, ZenonT(60)
    <3> QED
      BY <2>2, <3>1, ZenonT(60)
  <2>5. stored' = <<FromInternal(p)>>
    BY <1>3, Zenon DEF StoreStatus, Write, Refuse
  <2> HIDE DEF p
  <2> QED
    BY <2>4, <2>5, ZenonT(30)
<1>4. ASSUME NEW cl \in Clients, StoreCreate(cl) \/ StoreDelete(cl)
      PROVE  stored' = stored
  BY <1>4, Zenon DEF StoreCreate, StoreDelete, Write, Refuse
<1>5. ASSUME NEW cl \in Clients,
             \/ AdmitNotReady(cl) \/ AdmitCached(cl) \/ AdmitWaited(cl) \/ AdmitLive(cl)
             \/ AdmitLiveFails(cl) \/ Return(cl)
      PROVE  stored' = stored
  BY <1>5, Zenon DEF AdmitNotReady, AdmitCached, AdmitWaited, AdmitLive, AdmitLiveFails,
                     AdmitLeaves, Return
<1>6. CASE \/ Read \/ SubmitCreate \/ SubmitUpdate \/ SubmitDelete
           \/ CreateNamespace \/ DeleteNamespace \/ Finalise \/ EmptyNamespace
  BY <1>1, <1>6, Zenon DEF Read, SubmitCreate, SubmitUpdate, SubmitDelete, OwnerLeaves,
       CreateNamespace, DeleteNamespace, Finalise, EmptyNamespace, NsMoves
<1>7. CASE NsObserve \/ Watch \/ List \/ BeginSync \/ Sync \/ FinishSync \/ UNCHANGED vars
  BY <1>1, <1>7, Zenon DEF NsObserve, serverVars, Watch, List, Deliver, BeginSync, Sync,
       FinishSync, WatchLeaves, vars
<1> QED
  BY <1>1, <1>2, <1>3, <1>4, <1>5, <1>6, <1>7, ZenonT(60) DEF Next, Handle

\* While an object is stored, no write takes a pool's storage, rack, datacenter
\* or roles away from it, however many clients write it
\* (ValidateCassandraClusterUpdate and ValidateElasticsearchClusterUpdate).
THEOREM PoolsStayInPlace == Spec => PoolsKeepTheirPlace
<1>1. ASSUME IInv, [Next]_vars, stored # <<>>, stored' # <<>>,
             NEW was \in Range(PoolsOf(stored[1])), NEW np \in Range(PoolsOf(stored'[1])),
             np.Name = was.Name
      PROVE  Placed(was, np)
  <2>1. kind \in Kinds /\ ValidSpec(kind, stored[1].Spec)
    BY <1>1, StoredAccepted, ZenonT(60) DEF Accepted
  <2>2. kind # "Pilot"
    BY <1>1, SMT, Z3, Zenon DEF PoolsOf, Range
  <2> DEFINE old == stored[1].Spec.NodePools
             new == stored'[1].Spec.NodePools
  <2>3. was \in Range(old) /\ np \in Range(new)
    BY <1>1, <2>2, SMT, Z3, Zenon DEF PoolsOf
  <2>4. UniqueNames(old)
    BY <2>1, <2>2, ZenonT(60) DEF Kinds, ValidSpec, ValidateCassandraClusterSpec,
       ValidateElasticsearchClusterSpec
  <2>5. ValidateUpdate(kind, stored[1], stored'[1]) => ValidatePoolsUpdate(old, new)
    <3>1. CASE kind = "CassandraCluster"
      BY <3>1 DEF ValidateUpdate, ValidateCassandraClusterUpdate
    <3>2. CASE kind = "ElasticsearchCluster"
      BY <3>2 DEF ValidateUpdate, ValidateElasticsearchClusterUpdate
    <3> QED
      BY <2>1, <2>2, <3>1, <3>2, SMT, Z3, Zenon DEF Kinds
  <2>6. new = old \/ ValidatePoolsUpdate(old, new)
    BY <1>1, <2>5, StoredNext, ZenonT(60)
  <2> HIDE DEF old, new
  <2> QED
    BY <1>1, <2>3, <2>4, <2>6, PoolsPlaced, ZenonT(60)
<1>2. IInv /\ [Next]_vars =>
        [stored # <<>> /\ stored' # <<>> =>
           \A was \in Range(PoolsOf(stored[1])), np \in Range(PoolsOf(stored'[1])) :
             np.Name = was.Name =>
               /\ was.Persistence \in {<<>>, np.Persistence}
               /\ \A f \in DOMAIN was \ {"Replicas", "Persistence"} : np[f] = was[f]]_vars
  BY <1>1, Zenon DEF Placed
<1> QED
  BY <1>2, Invariant, PTL DEF Spec, PoolsKeepTheirPlace

-----------------------------------------------------------------------------
(* The quorum of masters.  What the API server accepts and the controller   *)
(* configures keeps a cluster from electing two masters.                    *)

\* The quorum that CalculateQuorum computes is a majority, and there are as many.
LEMMA QuorumIsMajority ==
  ASSUME NEW n \in Nat, n # 0
  PROVE  /\ CalculateQuorum(n) \in 1 .. n
         /\ 2 * CalculateQuorum(n) > n
BY DEF CalculateQuorum

\* An accepted Spec.MinimumMasters, or the default for none, is a majority.
LEMMA MinimumIsMajority ==
  ASSUME NEW minimum \in Seq(Int), NEW n \in Nat, ValidMinimumMasters(minimum, n)
  PROVE  /\ MinimumMasterNodes(minimum, n) \in 1 .. n
         /\ 2 * MinimumMasterNodes(minimum, n) > n
<1>1. n # 0
  BY DEF ValidMinimumMasters
<1>2. CalculateQuorum(n) \in 1 .. n /\ 2 * CalculateQuorum(n) > n
  BY <1>1, QuorumIsMajority, SMT, Z3, Zenon
<1>3. CASE minimum = <<>>
  BY <1>2, <1>3, SMT, Z3, Zenon DEF MinimumMasterNodes
<1>4. CASE minimum # <<>>
  <2>1. minimum[1] \in Int
    BY <1>4
  <2>2. minimum[1] >= CalculateQuorum(n) /\ minimum[1] <= n
    BY <1>4, Zenon DEF ValidMinimumMasters
  <2>3. MinimumMasterNodes(minimum, n) = minimum[1]
    BY <1>4, Zenon DEF MinimumMasterNodes
  <2> QED
    BY <1>2, <2>1, <2>2, <2>3, SMT, Z3, Zenon
<1> QED
  BY <1>3, <1>4, SMT, Z3, Zenon

INSTANCE FiniteSetTheorems

\* Whatever the master nodes of an accepted cluster are, all of them together are
\* enough to elect one of them (generateConfig's minimum_master_nodes), and two
\* sets of them that are both enough have a node in common.
THEOREM MastersElectOne ==
  ASSUME NEW Masters, IsFiniteSet(Masters), NEW minimum \in Seq(Int),
         ValidMinimumMasters(minimum, Cardinality(Masters))
  PROVE  LET m == MinimumMasterNodes(minimum, Cardinality(Masters))
         IN /\ Cardinality(Masters) >= m
            /\ \A S, T \in SUBSET Masters :
                 Cardinality(S) >= m /\ Cardinality(T) >= m => S \cap T # {}
<1> DEFINE n == Cardinality(Masters)
           m == MinimumMasterNodes(minimum, n)
<1>1. n \in Nat
  BY FS_CardinalityType, SMT, Z3, Zenon
<1>2. m \in 1 .. n /\ 2 * m > n
  BY <1>1, MinimumIsMajority, ZenonT(60)
<1>3. ASSUME NEW S \in SUBSET Masters, NEW T \in SUBSET Masters,
             Cardinality(S) >= m, Cardinality(T) >= m, S \cap T = {}
      PROVE  FALSE
  <2>1. IsFiniteSet(S) /\ IsFiniteSet(T) /\ IsFiniteSet(S \cup T)
    BY FS_Subset, FS_Union, ZenonT(60)
  <2>2. /\ Cardinality(S) \in Nat /\ Cardinality(T) \in Nat
        /\ Cardinality(S \cup T) \in Nat
    BY <2>1, FS_CardinalityType, ZenonT(60)
  <2>3. Cardinality(S \cup T) <= n
    <3>1. S \cup T \subseteq Masters
      BY SMT, Z3, Zenon
    <3> QED
      BY <3>1, FS_Subset, ZenonT(60)
  <2>4. Cardinality(S \cup T) = Cardinality(S) + Cardinality(T)
    <3>1. Cardinality(S \cap T) = 0
      BY <1>3, FS_EmptySet, ZenonT(60)
    <3>2. Cardinality(S \cup T)
            = Cardinality(S) + Cardinality(T) - Cardinality(S \cap T)
      BY <2>1, FS_Union, ZenonT(60)
    <3> QED
      BY <2>2, <3>1, <3>2, SMTT(30), Z3T(30)
  <2> HIDE DEF m, n
  <2> QED
    BY <1>1, <1>2, <1>3, <2>2, <2>3, <2>4, SMTT(30), Z3T(30)
<1>4. n >= m
  BY <1>1, <1>2, SMT, Z3, Zenon
<1> QED
  BY <1>3, <1>4, ZenonT(60)

\* A set of natural numbers that is not empty has a least one.
LEMMA LeastNumber ==
  ASSUME NEW S \in SUBSET Nat, S # {}
  PROVE  \E m \in S : \A n \in S : m <= n
<1>1. PICK m \in S : \A n \in S : <<n, m>> \notin OpToRel(<, Nat)
  BY WFMin, NatLessThanWellFounded, ZenonT(60)
<1>2. \A n \in S : m <= n
  <2> SUFFICES ASSUME NEW n \in S PROVE m <= n
    OBVIOUS
  <2>1. ~(n < m)
    BY <1>1, ZenonT(60) DEF OpToRel
  <2> QED
    BY <2>1, SMT, Z3, Zenon
<1> QED
  BY <1>2, SMT, Z3, Zenon

\* The nodes of a pool that may be elected.
Share(np) ==
  IF \E r \in Range(np.Roles) : Num(r) = Master THEN Num(np.Replicas[1]) ELSE 0

\* A function that counts the masters of the first n pools.
Counts(g, pools, n) ==
  g = [i \in 0 .. n |-> IF i = 0 THEN 0 ELSE g[i - 1] + Share(pools[i])]

\* The masters can be counted, for any number of pools: if not, there is a least
\* number of pools for which they cannot.
LEMMA CountExists ==
  ASSUME NEW pools, NEW n \in Nat
  PROVE  \E g : Counts(g, pools, n)
<1> DEFINE Bad == {m \in Nat : ~ \E g : Counts(g, pools, m)}
<1> SUFFICES ASSUME Bad # {} PROVE FALSE
  OBVIOUS
<1>1. PICK m \in Bad : \A k \in Bad : m <= k
  BY LeastNumber, ZenonT(60)
<1>2. m # 0
  <2> DEFINE g == [i \in 0 .. 0 |-> 0]
  <2>1. Counts(g, pools, 0)
    BY SMT, Z3, Zenon DEF Counts
  <2> QED
    BY <2>1, SMT, Z3, Zenon
<1>3. PICK h : Counts(h, pools, m - 1)
  BY <1>1, <1>2, SMT, Z3, Zenon
<1> DEFINE g == [i \in 0 .. m |-> IF i = m THEN h[m - 1] + Share(pools[m]) ELSE h[i]]
<1>4. Counts(g, pools, m)
  <2>1. \A i \in 0 .. m - 1 : h[i] = IF i = 0 THEN 0 ELSE h[i - 1] + Share(pools[i])
    BY <1>3, <1>2, ZenonT(60) DEF Counts
  <2>2. \A i \in 0 .. m : g[i] = IF i = 0 THEN 0 ELSE g[i - 1] + Share(pools[i])
    BY <1>2, <2>1, SMT, Z3, Zenon
  <2>3. g = [i \in 0 .. m |-> g[i]]
    BY Zenon
  <2> HIDE DEF g
  <2>4. [i \in 0 .. m |-> g[i]]
          = [i \in 0 .. m |-> IF i = 0 THEN 0 ELSE g[i - 1] + Share(pools[i])]
    BY <2>2, ZenonT(60)
  <2> QED
    BY <2>3, <2>4, ZenonT(60) DEF Counts
<1> QED
  BY <1>4, SMT, Z3, Zenon

\* countElasticsearchMasters counts them.
LEMMA CountIs ==
  ASSUME NEW pools, Len(pools) \in Nat
  PROVE  \E g : /\ Counts(g, pools, Len(pools))
                /\ countElasticsearchMasters(pools) = g[Len(pools)]
<1> DEFINE m == CHOOSE g : Counts(g, pools, Len(pools))
<1>1. Counts(m, pools, Len(pools))
  BY CountExists, ZenonT(60)
<1>2. countElasticsearchMasters(pools) = m[Len(pools)]
  BY DEF countElasticsearchMasters, Counts, Share
<1> QED
  BY <1>1, <1>2, ZenonT(60)

\* There are a natural number of masters if no pool has fewer nodes than none.
LEMMA CountType ==
  ASSUME NEW pools, Len(pools) \in Nat, \A i \in 1 .. Len(pools) : Share(pools[i]) \in Nat
  PROVE  countElasticsearchMasters(pools) \in Nat
<1>1. PICK g : /\ Counts(g, pools, Len(pools))
               /\ countElasticsearchMasters(pools) = g[Len(pools)]
  BY CountIs, SMT, Z3, Zenon
<1>2. \A i \in 0 .. Len(pools) : g[i] = IF i = 0 THEN 0 ELSE g[i - 1] + Share(pools[i])
  BY <1>1, SMT, Z3, Zenon DEF Counts
<1> DEFINE Bad == {i \in Nat : i <= Len(pools) /\ g[i] \notin Nat}
<1>3. ASSUME Bad # {} PROVE FALSE
  <2>1. PICK m \in Bad : \A k \in Bad : m <= k
    BY <1>3, LeastNumber, ZenonT(60)
  <2>2. m # 0 /\ m - 1 \in Nat /\ m - 1 <= Len(pools) /\ m \in 1 .. Len(pools)
    BY <1>2, <2>1, SMT, Z3, Zenon
  <2>3. g[m - 1] \in Nat
    BY <2>1, <2>2, SMT, Z3, Zenon
  <2> QED
    BY <1>2, <2>1, <2>2, <2>3, SMTT(30), Z3T(30)
<1> QED
  BY <1>1, <1>3, SMTT(30), Z3T(30)

\* A list of numbers in an object.
LEMMA Numbers ==
  ASSUME NEW n, NEW v, Fits1(Ref(n, "scalar"), v) \/ Fits2(Ref(n, "scalar"), v)
  PROVE  v \in Seq(Range(v)) /\ Opt(v) \in Seq(Int) /\ \A e \in Range(v) : Num(e) \in Int
<1>1. /\ Ref(n, "scalar").form = "ref" /\ Ref(n, "scalar").of = "scalar"
      /\ Ref(n, "scalar").name = n /\ IsText("scalar")
  BY DEF Ref, IsText
<1>2. v \in Seq(Range(v)) /\ \A e \in Range(v) : ShapedText(n, "scalar", e)
  BY <1>1, ZenonT(60) DEF Fits1, Fits2, Elements, Shaped1, Shaped2, ShapedBy
<1>3. \A e \in Range(v) : Num(e) \in Int
  BY <1>2, ZenonT(60) DEF ShapedText, Num
<1>4. Len(v) \in Nat /\ DOMAIN v = 1 .. Len(v) /\ \A i \in DOMAIN v : Num(v[i]) \in Int
  BY <1>2, <1>3, SMTT(30), Z3T(30) DEF Range
<1> HIDE DEF Num
<1>5. [i \in 1 .. Len(v) |-> Num(v[i])] \in Seq(Int)
  BY <1>4, SMT, Z3, Zenon
<1> QED
  BY <1>2, <1>3, <1>4, <1>5, ZenonT(60) DEF Opt

\* An accepted cluster has a number of masters, and a minimum or none.
LEMMA MastersCounted ==
  ASSUME NEW x, Accepted("ElasticsearchCluster", x)
  PROVE  /\ countElasticsearchMasters(x.Spec.NodePools) \in Nat
         /\ Opt(x.Spec.MinimumMasters) \in Seq(Int)
<1> DEFINE k  == "ElasticsearchCluster"
           s  == x.Spec
           ps == s.NodePools
           F  == Fields(V1alpha1, "ElasticsearchClusterSpec")
           G  == Fields(V1alpha1, "ElasticsearchClusterNodePool")
<1>1. k \in Kinds /\ k \in ClusterKinds /\ SpecType[k] = "ElasticsearchClusterSpec"
  BY DEF Kinds, ClusterKinds, SpecType
<1>2. /\ Shaped3("Spec", "ElasticsearchClusterSpec", s)
      /\ \A np \in Range(ps) : np.Replicas # <<>>
  <2>1. Shaped4(k, k, x) /\ SetObjectDefaults(k, x) = x
    BY Zenon DEF Accepted
  <2> HIDE DEF k
  <2>2. Shaped3("Spec", SpecType[k], s)
    BY <1>1, <2>1, ObjectParts, ZenonT(60)
  <2>3. \A np \in Range(ps) : np.Replicas # <<>>
    BY <1>1, <2>1, DefaultedReplicas, ZenonT(60)
  <2> QED
    BY <1>1, <2>2, <2>3, ZenonT(60)
<1>3. \A np \in Range(ps) : ValidateElasticsearchClusterNodePool(np)
  BY ZenonT(60) DEF Accepted, ValidSpec, ValidateElasticsearchClusterSpec
<1>4. /\ ~IsText("ElasticsearchClusterSpec") /\ ~IsText("ElasticsearchClusterNodePool")
      /\ Ref("NodePools", "ElasticsearchClusterNodePool") \in F
      /\ Ref("MinimumMasters", "scalar") \in F /\ Ref("Replicas", "scalar") \in G
  BY ElasticsearchRows, SMT, Z3, Zenon DEF IsText, TextTypes
<1>5. \A n, t : Ref(n, t).name = n /\ Ref(n, t).of = t /\ Ref(n, t).form = "ref"
  BY DEF Ref
<1>6. /\ Fits2(Ref("NodePools", "ElasticsearchClusterNodePool"), ps)
      /\ Fits2(Ref("MinimumMasters", "scalar"), s.MinimumMasters)
  <2>1. \A f \in F : Fits2(f, s[f.name])
    BY <1>2, <1>4, ShapedByField, ZenonT(60)
  <2> HIDE DEF F, s
  <2> QED
    BY <1>4, <1>5, <2>1, ZenonT(60)
<1>7. ps \in Seq(Range(ps))
      /\ \A np \in Range(ps) : Shaped2("NodePools", "ElasticsearchClusterNodePool", np)
  BY <1>5, <1>6, ZenonT(60) DEF Fits2, Elements
<1>8. ASSUME NEW np \in Range(ps) PROVE Share(np) \in Nat
  <2>1. Fits1(Ref("Replicas", "scalar"), np.Replicas)
    <3>1. \A f \in G : Fits1(f, np[f.name])
      BY <1>4, <1>7, ShapedByField, ZenonT(60)
    <3> HIDE DEF G
    <3> QED
      BY <1>4, <1>5, <3>1, ZenonT(60)
  <2>2. np.Replicas \in Seq(Range(np.Replicas)) /\ np.Replicas # <<>>
        /\ \A e \in Range(np.Replicas) : Num(e) \in Int
    BY <1>2, <2>1, Numbers, ZenonT(60)
  <2>3. np.Replicas[1] \in Range(np.Replicas)
    BY <2>2, SMT, Z3, Zenon DEF Range
  <2>4. Num(np.Replicas[1]) >= 0 /\ Num(np.Replicas[1]) \in Int
    BY <1>3, <2>2, <2>3, ZenonT(60) DEF ValidateElasticsearchClusterNodePool
  <2> HIDE DEF Num
  <2> QED
    BY <2>4, SMT, Z3, Zenon DEF Share
<1>9. Len(ps) \in Nat /\ \A i \in 1 .. Len(ps) : ps[i] \in Range(ps)
  BY <1>7, SMT, Z3, Zenon DEF Range
<1> HIDE DEF ps, s
<1>10. countElasticsearchMasters(ps) \in Nat
  BY <1>8, <1>9, CountType, ZenonT(60)
<1>11. Opt(s.MinimumMasters) \in Seq(Int)
  BY <1>6, Numbers, ZenonT(60)
<1> QED
  BY <1>10, <1>11, ZenonT(60) DEF ps, s

\* With the minimum_master_nodes that the controller computes from a cluster that
\* the server accepted, two disjoint sets of its masters never both elect, and
\* all of them together do, for any pools (ValidateElasticsearchClusterSpec).
THEOREM NoSplitBrain == Spec => []SplitBrainExcluded
<1>1. IInv => SplitBrainExcluded
  <2> SUFFICES ASSUME IInv, kind = "ElasticsearchCluster", NEW obj \in Range(stored)
               PROVE  LET masters == countElasticsearchMasters(obj.Spec.NodePools)
                          minimum == MinimumMasterNodes(Opt(obj.Spec.MinimumMasters), masters)
                          Electing == {S \in SUBSET (1 .. masters) : Cardinality(S) >= minimum}
                      IN /\ 1 .. masters \in Electing
                         /\ \A S, T \in Electing : S \cap T # {}
    BY ZenonT(60) DEF SplitBrainExcluded
  <2> DEFINE n == countElasticsearchMasters(obj.Spec.NodePools)
             q == Opt(obj.Spec.MinimumMasters)
             m == MinimumMasterNodes(q, n)
  <2>1. Accepted("ElasticsearchCluster", obj)
    BY HeldObject, SMT, Z3, Zenon DEF IInv, Copies
  <2>2. n \in Nat /\ q \in Seq(Int)
    BY <2>1, MastersCounted, SMT, Z3, Zenon
  <2>3. ValidMinimumMasters(q, n)
    BY <2>1, ZenonT(60) DEF Accepted, ValidSpec, ValidateElasticsearchClusterSpec
  <2> HIDE DEF n, q
  <2>4. IsFiniteSet(1 .. n) /\ Cardinality(1 .. n) = n
    <3>1. 1 \in Int /\ n \in Int
      BY <2>2, SMT, Z3, Zenon
    <3>2. /\ IsFiniteSet(1 .. n)
          /\ Cardinality(1 .. n) = IF 1 > n THEN 0 ELSE n - 1 + 1
      BY <3>1, FS_Interval, ZenonT(60)
    <3> QED
      BY <2>2, <3>2, SMT, Z3, Zenon
  <2>5. /\ Cardinality(1 .. n) >= m
        /\ \A S, T \in SUBSET (1 .. n) :
             Cardinality(S) >= m /\ Cardinality(T) >= m => S \cap T # {}
    BY <2>2, <2>3, <2>4, MastersElectOne, ZenonT(60)
  <2> HIDE DEF m
  <2> QED
    BY <2>5, ZenonT(60) DEF n, q, m
<1> QED
  BY <1>1, Invariant, PTL
=============================================================================
