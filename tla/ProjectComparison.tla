-------------------------- MODULE ProjectComparison --------------------------
(***************************************************************************)
(* Whether a save changed what a simulation reads: _without_nulls and      *)
(* _inputs_differ of services/projects_service.py, on which inputs_version *)
(* rests.  ProjectVersions takes what it leaves of a spec as given, as its *)
(* constant Canon; here it is computed, and compared with what it is meant *)
(* to say: a key written as null and a key left out mean the same to spur, *)
(* at any depth, and nothing else does.                                    *)
(*                                                                         *)
(* JSON is tagged: Null, Atom(v), List(s) for a sequence s, and Object(f)  *)
(* for a function f from the keys that are written.  What recurs over it   *)
(* is a function on Values, whose every value has its parts among them.    *)
(***************************************************************************)
EXTENDS Naturals, Sequences

CONSTANTS
  Optional,  \* the keys that a fetched object always carries
  Values,    \* the JSON that is stored, sent or fetched, with its parts
  Depth      \* Depth[v]: how deep v is nested

Null == [type |-> "null"]
Atom(v) == [type |-> "atom", value |-> v]
List(s) == [type |-> "list", items |-> s]
Object(f) == [type |-> "object", at |-> f]

\* JSON is one of the four, and nested finitely deep.
ASSUME ValuesAssumption ==
  /\ Depth \in [Values -> Nat]
  /\ Null \in Values
  /\ \A v \in Values :
       \/ v = Null
       \/ v.type = "atom" /\ v = Atom(v.value)
       \/ /\ v.type = "list"
          /\ v = List(v.items)
          /\ v.items \in Seq(Values)
          /\ \A i \in DOMAIN v.items : Depth[v.items[i]] < Depth[v]
       \/ /\ v.type = "object"
          /\ v = Object(v.at)
          /\ v.at \in [DOMAIN v.at -> Values]
          /\ Depth[Null] < Depth[v]
          /\ \A k \in DOMAIN v.at : Depth[v.at[k]] < Depth[v]

Inputs == {"components", "routes", "tours", "trains"}  \* _SIMULATION_INPUTS

\* obj.get(k)
Get(f, k) == IF k \in DOMAIN f THEN f[k] ELSE Null

Written(f) == { k \in DOMAIN f : f[k] # Null }

\* Mutant: only the keys of the value itself.
CleanedShallow(v, clean) ==
  IF v.type = "object" THEN Object([k \in Written(v.at) |-> v.at[k]]) ELSE v

\* Mutant: the null items of lists are dropped too.
CleanedItems(v, clean) ==
  CASE v.type = "object" -> Object([k \in Written(v.at) |-> clean[v.at[k]]])
    [] v.type = "list" ->
         LET kept == SelectSeq(v.items, LAMBDA x : x # Null)
         IN  List([i \in DOMAIN kept |-> clean[kept[i]]])
    [] OTHER -> v

\* v without its nulls, where clean is that for its parts.
Cleaned(v, clean) ==
  CASE v.type = "object" -> Object([k \in Written(v.at) |-> clean[v.at[k]]])
    [] v.type = "list"   -> List([i \in DOMAIN v.items |-> clean[v.items[i]]])
    [] OTHER             -> v

WithoutNulls[v \in Values] == Cleaned(v, WithoutNulls)

SectionsDiffer(old, new) ==
  \E s \in Inputs : WithoutNulls[Get(old, s)] # WithoutNulls[Get(new, s)]

\* What the response model makes of a stored value, where fill is that for its
\* parts: every optional key of an object is there.
Completed(v, fill) ==
  CASE v.type = "object" -> Object([k \in DOMAIN v.at \cup Optional |-> fill[Get(v.at, k)]])
    [] v.type = "list"   -> List([i \in DOMAIN v.items |-> fill[v.items[i]]])
    [] OTHER             -> v

Filled[v \in Values] == Completed(v, Filled)

Fetched(text) == [k \in DOMAIN text \cup {"name"} |-> Filled[Get(text, k)]]

-----------------------------------------------------------------------------
\* For each w, whether v means the same to spur, where same is that for the parts
\* of v: the same atom, a list of as many items that do pairwise, an object that
\* does at every key, one left out being null.
Alike(v, same) ==
  [w \in Values |->
    /\ v.type = w.type
    /\ v.type = "atom" => v.value = w.value
    /\ v.type = "list" => /\ Len(v.items) = Len(w.items)
                          /\ \A i \in DOMAIN v.items : same[v.items[i]][w.items[i]]
    /\ v.type = "object" => \A k \in DOMAIN v.at \cup DOMAIN w.at :
                              same[Get(v.at, k)][Get(w.at, k)]]

SameToSpur[v \in Values] == Alike(v, SameToSpur)

\* Some section reads otherwise than it did.
ReadsOtherwise(old, new) ==
  \E s \in Inputs : ~ SameToSpur[Get(old, s)][Get(new, s)]
=============================================================================
