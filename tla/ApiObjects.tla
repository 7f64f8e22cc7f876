------------------------------ MODULE ApiObjects -------------------------------
(***************************************************************************)
(* API objects, what the generated conversions make of them and which      *)
(* memory their deep copies share.                                         *)
(*                                                                         *)
(* An object is a tree: the fields of a struct by name, a plain value as a *)
(* pair of the field it was written for and a number, 0 for the zero       *)
(* value, and a reference as the sequence of what it points to.  Nil and   *)
(* empty are not told apart: the fields are omitempty.                     *)
(***************************************************************************)
EXTENDS Integers, Sequences, Functions, ApiTypes

Fields(L, t)   == IF t \in DOMAIN L THEN Range(L[t]) ELSE {}
Names(L, t)    == {f.name : f \in Fields(L, t)}
Field(L, t, n) == CHOOSE f \in Fields(L, t) : f.name = n
IsText(t)      == t = "scalar" \/ t \in TextTypes

\* The kinds of objects, the types of their specs and those of their lists.
Kinds == {"CassandraCluster", "ElasticsearchCluster", "Pilot"}

SpecType == [CassandraCluster     |-> "CassandraClusterSpec",
             ElasticsearchCluster |-> "ElasticsearchClusterSpec",
             Pilot                |-> "PilotSpec"]

ListOf == [CassandraCluster     |-> "CassandraClusterList",
           ElasticsearchCluster |-> "ElasticsearchClusterList",
           Pilot                |-> "PilotList"]

\* A tree of type t, written for the field n, in which every value is in the
\* field it was written for.  Types nest five deep: a list, an object, its spec,
\* a node pool, its storage.
ShapedText(n, t, x) == IsText(t) /\ x = <<n, x[2]>> /\ x[2] \in Int

IsStruct(t, x) ==
  /\ DOMAIN x = Names(V1alpha1, t) /\ x = [m \in DOMAIN x |-> x[m]]
  /\ \A f \in Fields(V1alpha1, t) :
       f.form = "ref" => x[f.name] \in Seq(Range(x[f.name]))

Elements(f, x) == IF f.form = "ref" THEN Range(x) ELSE {x}

ShapedBy(Inner(_, _, _), n, t, x) ==
  \/ ShapedText(n, t, x)
  \/ /\ ~IsText(t) /\ IsStruct(t, x)
     /\ \A f \in Fields(V1alpha1, t) :
          \A e \in Elements(f, x[f.name]) : Inner(f.name, f.of, e)

Shaped1(n, t, x) == ShapedBy(ShapedText, n, t, x)
Shaped2(n, t, x) == ShapedBy(Shaped1, n, t, x)
Shaped3(n, t, x) == ShapedBy(Shaped2, n, t, x)
Shaped4(n, t, x) == ShapedBy(Shaped3, n, t, x)
Shaped5(n, t, x) == ShapedBy(Shaped4, n, t, x)

\* A tree of type t holds everything that was asked for; what was left out may
\* have been defaulted.
HoldsText(t, asked, got) == IsText(t) /\ (asked[2] = 0 \/ got = asked)

HoldsBy(Inner(_, _, _), t, asked, got) ==
  IF IsText(t) THEN HoldsText(t, asked, got)
  ELSE /\ DOMAIN got = Names(V1alpha1, t)
       /\ \A f \in Fields(V1alpha1, t) :
            LET a == asked[f.name]
                g == got[f.name]
            IN IF f.form # "ref" THEN Inner(f.of, a, g)
               ELSE \/ a = <<>>
                    \/ Len(a) = Len(g) /\ \A i \in DOMAIN a : Inner(f.of, a[i], g[i])

Holds1(t, asked, got) == HoldsBy(HoldsText, t, asked, got)
Holds2(t, asked, got) == HoldsBy(Holds1, t, asked, got)
Holds3(t, asked, got) == HoldsBy(Holds2, t, asked, got)

-----------------------------------------------------------------------------
(* The conversions.                                                        *)

\* The structs that the two versions lay out differently, and the ones that
\* hold such a struct.
Holders(S) ==
  S \cup {t \in DOMAIN V1alpha1 : \E f \in Fields(V1alpha1, t) : f.of \in S}

Differing == Holders(Holders(Holders(Holders(
               {t \in DOMAIN V1alpha1 : V1alpha1[t] # Navigator[t]}))))

\* What a reader makes of memory that another type was written to.
Garbage(f) == CASE f.form = "ref"  -> <<>>
                [] IsText(f.of)    -> <<"garbage", 0>>
                [] OTHER           -> [garbage |-> 0]

\* Memory written with the layout of one version and read with that of the
\* other, as after a cast through unsafe.Pointer.
Cast(to, t, x) ==
  IF t \notin Differing THEN x
  ELSE [n \in Names(to, t) |-> Garbage(Field(to, t, n))]

\* The zero value of a field; of a struct, without its fields.
Zero(f) == CASE f.form = "ref" -> <<>>
             [] IsText(f.of)   -> <<f.name, 0>>
             [] OTHER          -> [zero |-> 0]

\* The value a conversion assigns to a field, given the field converted.
Assigned(to, how, f, x, converted) ==
  CASE f.name \in how.shared /\ f.form = "ref" ->
         [j \in DOMAIN x |-> Cast(to, f.of, x[j])]
    [] f.name \in how.shared /\ f.form # "ref" -> x
    [] f.name \in how.called -> converted
    [] OTHER -> Zero(f)

ConvertBy(Call(_, _, _), to, t, x) ==
  [n \in Names(to, t) |->
     LET f == Field(to, t, n)
     IN Assigned(to, Conversions[t], f, x[n],
                 IF f.form = "ref" THEN [j \in DOMAIN x[n] |-> Call(to, f.of, x[n][j])]
                 ELSE Call(to, f.of, x[n]))]

Convert0(to, t, x) == [garbage |-> 0]   \* no type nests that deep
Convert1(to, t, x) == ConvertBy(Convert0, to, t, x)
Convert2(to, t, x) == ConvertBy(Convert1, to, t, x)
Convert3(to, t, x) == ConvertBy(Convert2, to, t, x)
Convert4(to, t, x) == ConvertBy(Convert3, to, t, x)
Convert5(to, t, x) == ConvertBy(Convert4, to, t, x)

-----------------------------------------------------------------------------
(* DeepCopyInto.  A cell is the memory a reference leads to, named by the  *)
(* path to it from the top of the object, which is the cell <<>>.          *)

Types == DOMAIN V1alpha1 \cup {"scalar"}

Under(n, cells) == {<<n>> \o c : c \in cells}

\* The cells of a field, and those that an object of each type may have, from
\* those of the types that nest less deep.
CellsIn(inner, f) ==
  CASE f.form = "plain"  -> {}
    [] f.form = "struct" -> Under(f.name, inner[f.of])
    [] f.form = "ref"    -> {<<f.name>>} \cup Under(f.name, inner[f.of])

CellsOver(inner) ==
  [t \in Types |-> UNION {CellsIn(inner, f) : f \in Fields(V1alpha1, t)}]

NoCells == [t \in Types |-> {}]
Cells   == CellsOver(CellsOver(CellsOver(CellsOver(CellsOver(NoCells)))))

\* The ones of them that a deep copy of the object shares with it.
SharedIn(inner, how, f) ==
  CASE f.form = "plain" -> {}
    [] f.form = "struct" ->
         Under(f.name, IF f.name \in how.into THEN inner[f.of] ELSE Cells[f.of])
    [] f.form = "ref" /\ f.name \in how.freshInto -> Under(f.name, inner[f.of])
    [] f.form = "ref" /\ f.name \in how.fresh     -> Under(f.name, Cells[f.of])
    [] OTHER -> {<<f.name>>} \cup Under(f.name, Cells[f.of])

SharedOver(inner) ==
  [t \in Types |->
     UNION {SharedIn(inner, DeepCopies[t], f) : f \in Fields(V1alpha1, t)}]

SharedCells == SharedOver(SharedOver(SharedOver(SharedOver(SharedOver(NoCells)))))
=============================================================================
