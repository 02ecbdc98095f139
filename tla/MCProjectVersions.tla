--------------------------- MODULE MCProjectVersions ---------------------------
(* Small instances of ProjectSaves for TLC. *)
EXTENDS ProjectSaves, TLC

CONSTANTS a, aTidied, b, faulty, p1, p2, c1, c2, c3

EmptyObject == Object(<<>>)

\* What a component's jitter may be: left out, null, an object with its
\* parameter left out, null or given, or a list with a null in it.
Components ==
  { Object("uid" :> Atom(u)) : u \in {1, 2} } \cup
  { Object("uid" :> Atom(1) @@ "jitter" :> j) :
      j \in { Null, EmptyObject, Object("max" :> Null), Object("max" :> Atom(1)),
              Object("max" :> EmptyObject), Object("max" :> Object("max" :> Null)),
              List(<<>>), List(<<Null>>), List(<<Null, Atom(1)>>),
              List(<<Object("max" :> Null)>>), List(<<EmptyObject>>) } }

ComponentLists ==
  { <<>> } \cup { <<c>> : c \in Components } \cup
  { <<Object("uid" :> Atom(u)), Object("uid" :> Atom(3 - u) @@ "jitter" :> Null)>> : u \in {1, 2} }

SmallTexts ==
  { "components" :> List(c) @@ "trains" :> List(t) :
      c \in ComponentLists, t \in {<<>>, <<Null>>} } \cup
  { "components" :> List(<<>>) @@ "name" :> n : n \in {Null, Atom(1)} }

OptionalKeys == {"jitter", "max"}

(* Values: what is sent, what the API answers to it, and their parts.      *)

RECURSIVE PartsOf(_)
PartsOf(v) ==
  {v} \cup CASE v.type = "object" -> UNION { PartsOf(v.at[k]) : k \in DOMAIN v.at }
             [] v.type = "list" -> UNION { PartsOf(v.items[i]) : i \in DOMAIN v.items }
             [] OTHER -> {}

RECURSIVE DepthOf(_)
DepthOf(v) ==
  CASE v.type = "object" -> 1 + Max({0} \cup { DepthOf(v.at[k]) : k \in DOMAIN v.at })
    [] v.type = "list" -> 1 + Max({0} \cup { DepthOf(v.items[i]) : i \in DOMAIN v.items })
    [] OTHER -> 0

AllValues ==
  LET sent == UNION { PartsOf(v) : v \in {Null, List(<<>>), List(<<Null>>), Atom(1)} \cup
                                          { List(c) : c \in ComponentLists } }
      filled[v \in sent] == Completed(v, filled)
  IN  sent \cup UNION { PartsOf(filled[v]) : v \in sent }

Depths == [v \in AllValues |-> DepthOf(v)]

\* aTidied is a as a client gets it, b differs from a in the items of one list,
\* and the model that faulty describes cannot be built.
TextOfA == "components" :> List(<<Object("uid" :> Atom(1))>>) @@ "trains" :> List(<<>>)
TextOf == [s \in Specs |->
  IF s = a THEN TextOfA
  ELSE IF s = aTidied THEN Fetched(TextOfA)
  ELSE IF s = b THEN [TextOfA EXCEPT !["trains"] = List(<<Null>>)]
  ELSE [TextOfA EXCEPT !["components"] = List(<<>>)]]
CanonOf == [s \in Specs |-> Sections(TextOf[s])]
AllBut == Specs \ {faulty}
=============================================================================
