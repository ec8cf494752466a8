------------------------- MODULE ConditionContract --------------------------
(***************************************************************************)
(* A condition of a published ModelIR, from the JSON of the request to the *)
(* CEL text OpenFGA is given: the shape check, the typed decoding, the     *)
(* static validation, the rendering.  The shape check and the decoder each *)
(* decide on their own whether a node is a group or a leaf.                *)
(*                                                                         *)
(* JSON is a tagged value: [str |-> s], [num |-> n] (n halves), [bool |->  *)
(* b], [arr |-> sequence], [obj |-> record].  CEL text is a sequence of    *)
(* tokens, a comparison being one token.                                   *)
(***************************************************************************)
EXTENDS Integers, Sequences, SequencesExt

CONSTANTS
  ConditionDocs,  \* JSON trees of a request
  ParamLists,     \* its params: sequences of [name, type]
  BadIdent,       \* names badIdent refuses
  Rfc3339, Cidr,  \* texts that are well-formed timestamps, CIDR ranges
  MaxSafeInt      \* 2^53 - 1 in the code

VARIABLE condition  \* the condition of one publish request

-----------------------------------------------------------------------------
(* The shape check (model_decode.go).                                      *)
IsStr(d) == DOMAIN d = {"str"}
IsArr(d) == DOMAIN d = {"arr"}
IsObj(d) == DOMAIN d = {"obj"}
IsScalar(d) == DOMAIN d \in {{"str"}, {"num"}, {"bool"}}
Has(o, k) == k \in DOMAIN o
StringField(o, k) == Has(o, k) /\ IsStr(o[k])
EnumField(o, k, options) == StringField(o, k) /\ o[k].str \in options

RhsShape(d) ==
  /\ IsObj(d)
  /\ \/ EnumField(d.obj, "kind", {"literal"}) /\ StringField(d.obj, "rfc3339")
     \/ EnumField(d.obj, "kind", {"param"}) /\ StringField(d.obj, "param")

LeafShape(o) ==
  /\ StringField(o, "param")
  /\ \/ /\ EnumField(o, "kind", {"time"}) /\ EnumField(o, "op", {"lt", "lte", "gt", "gte"})
        /\ Has(o, "rhs") /\ RhsShape(o.rhs)
     \/ /\ EnumField(o, "kind", {"ip"}) /\ EnumField(o, "op", {"in_cidr"})
        /\ StringField(o, "cidr")
     \/ /\ EnumField(o, "kind", {"value"})
        /\ EnumField(o, "op", {"eq", "neq", "lt", "lte", "gt", "gte"})
        /\ Has(o, "value") /\ IsScalar(o.value)

RECURSIVE NodeShape(_)
GroupShape(o) ==
  /\ EnumField(o, "op", {"and", "or"})
  /\ Has(o, "children") /\ IsArr(o.children)
  /\ \A i \in DOMAIN o.children.arr : NodeShape(o.children.arr[i])
NodeShape(d) == IsObj(d) /\ (GroupShape(d.obj) \/ LeafShape(d.obj))

-----------------------------------------------------------------------------
(* The typed decoding (condition.go).  A key of the Go struct must have its
   type wherever it occurs, also on a leaf of a kind that does not use it. *)
Undecodable == [none |-> TRUE]
Nil == [nil |-> TRUE]
StringsDecode(o, keys) == \A k \in keys : Has(o, k) => IsStr(o[k])
StringOr(o, k) == IF Has(o, k) THEN o[k].str ELSE ""
OrNil(o, k) == IF Has(o, k) THEN o[k] ELSE Nil

RhsDecodes(d) ==
  /\ IsObj(d) /\ StringsDecode(d.obj, {"kind", "rfc3339", "param"})
  /\ StringOr(d.obj, "kind") \in {"literal", "param"}

LeafDecodes(o) ==
  /\ StringsDecode(o, {"kind", "param", "op", "cidr"})
  /\ Has(o, "rhs") => RhsDecodes(o.rhs)
  /\ Has(o, "value") => IsScalar(o.value)
  /\ StringOr(o, "kind") \in {"time", "ip", "value"}

(* The fields the leaf's kind uses; those of the other kinds are dropped. *)
LeafOf(o) ==
  [kind |-> StringOr(o, "kind"), param |-> StringOr(o, "param"), op |-> StringOr(o, "op"),
   rhs |-> CASE o.kind.str = "time" -> OrNil(o, "rhs")
             [] o.kind.str = "ip" -> [str |-> StringOr(o, "cidr")]
             [] o.kind.str = "value" -> OrNil(o, "value")]

RECURSIVE DecodeNode(_)
DecodeNode(d) ==
  IF ~IsObj(d) THEN Undecodable
  ELSE LET o == d.obj
           inner == IF EnumField(o, "op", {"and", "or"}) /\ Has(o, "children") /\ IsArr(o.children)
                    THEN [i \in DOMAIN o.children.arr |-> DecodeNode(o.children.arr[i])]
                    ELSE <<Undecodable>>
       IN IF \A i \in DOMAIN inner : inner[i] # Undecodable
            THEN [op |-> o.op.str, children |-> inner]
          ELSE IF LeafDecodes(o) THEN LeafOf(o) ELSE Undecodable

IsGroup(n) == "children" \in DOMAIN n

RECURSIVE Leaves(_)
Leaves(n) == IF IsGroup(n) THEN UNION {Leaves(n.children[i]) : i \in DOMAIN n.children}
             ELSE {n}
RECURSIVE EmptyGroupIn(_)
EmptyGroupIn(n) == IsGroup(n) /\ (n.children = <<>> \/ \E i \in DOMAIN n.children :
                                                          EmptyGroupIn(n.children[i]))

-----------------------------------------------------------------------------
(* The static validation (condition_validate.go): the error codes.         *)
NamesOf(ps) == {ps[i].name : i \in DOMAIN ps}
TypeOfParam(ps, n) ==
  ps[CHOOSE i \in DOMAIN ps : ps[i].name = n /\ \A j \in DOMAIN ps :
       ps[j].name = n => j <= i].type

ParamErrors(ps, n, wanted) ==
  IF n \notin NamesOf(ps) THEN {"UNKNOWN_PARAM"}
  ELSE IF TypeOfParam(ps, n) \notin wanted THEN {"TYPE_MISMATCH"} ELSE {}

IsSafeInteger(halves) == halves % 2 = 0 /\ halves \div 2 \in -MaxSafeInt..MaxSafeInt

ValueFits(type, v) ==
  CASE type = "string" -> DOMAIN v = {"str"}
    [] type = "bool" -> DOMAIN v = {"bool"}
    [] type = "int" -> DOMAIN v = {"num"} /\ IsSafeInteger(v.num)
    [] type = "double" -> DOMAIN v = {"num"}

ValueTypes == {"string", "int", "double", "bool"}

LeafErrors(ps, l) ==
  CASE l.kind = "time" ->
         ParamErrors(ps, l.param, {"timestamp"}) \cup
         IF l.rhs.obj.kind.str = "literal"
           THEN IF l.rhs.obj.rfc3339.str \in Rfc3339 THEN {} ELSE {"BAD_TIMESTAMP"}
           ELSE ParamErrors(ps, l.rhs.obj.param.str, {"timestamp"})
    [] l.kind = "ip" -> ParamErrors(ps, l.param, {"ipaddress"}) \cup
         IF l.rhs.str \in Cidr THEN {} ELSE {"BAD_CIDR"}
    [] l.kind = "value" -> ParamErrors(ps, l.param, ValueTypes) \cup
         IF l.param \notin NamesOf(ps) \/ TypeOfParam(ps, l.param) \notin ValueTypes THEN {}
         ELSE LET type == TypeOfParam(ps, l.param)
                  v == IF l.rhs = Nil THEN [str |-> ""] ELSE l.rhs
              IN IF ~ValueFits(type, v) \/ (type = "bool" /\ l.op \in {"lt", "lte", "gt", "gte"})
                   THEN {"TYPE_MISMATCH"} ELSE {}

ConditionErrors(ps, tree) ==
  (IF \E i \in DOMAIN ps : ps[i].name \in BadIdent THEN {"BAD_NAME"} ELSE {}) \cup
  (IF \E i, j \in DOMAIN ps : i # j /\ ps[i].name = ps[j].name THEN {"DUP_PARAM"} ELSE {}) \cup
  (IF EmptyGroupIn(tree) THEN {"EMPTY_GROUP"} ELSE {}) \cup
  UNION {LeafErrors(ps, l) : l \in Leaves(tree)}

(* visitLeaf dereferences the rhs of a time leaf. *)
DereferencesNil(tree) == \E l \in Leaves(tree) : l.kind = "time" /\ l.rhs = Nil

-----------------------------------------------------------------------------
(* The rendering (condition_to_cel.go).                                    *)
Sym(s) == [sym |-> s]
CelOp == [lt |-> "<", lte |-> "<=", gt |-> ">", gte |-> ">=", eq |-> "==", neq |-> "!=",
          in_cidr |-> "in_cidr"]

LeafToCel(l) == [atom |-> [param |-> l.param, rhs |-> l.rhs,
                           op |-> IF l.op \in DOMAIN CelOp THEN CelOp[l.op] ELSE ""]]

Joined(parts, sep) == FlattenSeq([i \in 1..(2 * Len(parts) - 1) |->
                        IF i % 2 = 1 THEN parts[(i + 1) \div 2] ELSE <<Sym(sep)>>])

RECURSIVE NodeToCel(_, _)
(* Seeded bug: an only child is at the top, whatever its parent is. *)
NodeToCelUnwrapped(n, top) ==
  IF ~IsGroup(n) THEN <<LeafToCel(n)>>
  ELSE IF n.children = <<>> THEN <<Sym("true")>>
  ELSE IF Len(n.children) = 1 THEN NodeToCel(n.children[1], TRUE)
  ELSE LET inner == Joined([i \in DOMAIN n.children |-> NodeToCel(n.children[i], FALSE)],
                           IF n.op = "or" THEN "||" ELSE "&&")
       IN IF top THEN inner ELSE <<Sym("(")>> \o inner \o <<Sym(")")>>

NodeToCel(n, top) ==
  IF ~IsGroup(n) THEN <<LeafToCel(n)>>
  ELSE IF n.children = <<>> THEN <<Sym("true")>>
  ELSE IF Len(n.children) = 1 THEN NodeToCel(n.children[1], top)
  ELSE LET inner == Joined([i \in DOMAIN n.children |-> NodeToCel(n.children[i], FALSE)],
                           IF n.op = "or" THEN "||" ELSE "&&")
       IN IF top THEN inner ELSE <<Sym("(")>> \o inner \o <<Sym(")")>>

-----------------------------------------------------------------------------
ConditionInit == \E d \in ConditionDocs, ps \in ParamLists :
  condition = [at |-> "received", doc |-> d, params |-> ps, tree |-> Nil, cel |-> <<>>]

(* POST /model, the part of a condition: 422 for its shape or its errors. *)
PublishCondition ==
  /\ condition.at = "received"
  /\ LET tree == DecodeNode(condition.doc)
     IN condition' =
          IF ~NodeShape(condition.doc) \/ tree = Undecodable
            THEN [condition EXCEPT !.at = "refused"]
          ELSE IF DereferencesNil(tree)
            THEN [condition EXCEPT !.at = "failed", !.tree = tree]
          ELSE IF ConditionErrors(condition.params, tree) # {}
            THEN [condition EXCEPT !.at = "refused", !.tree = tree]
          ELSE [condition EXCEPT !.at = "compiled", !.tree = tree,
                                 !.cel = NodeToCel(tree, TRUE)]

-----------------------------------------------------------------------------
(* The property.                                                           *)

(* What CEL makes of the tokens: && binds tighter than ||. *)
Depth(ts, i) == Cardinality({j \in 1..(i - 1) : ts[j] = Sym("(")})
                - Cardinality({j \in 1..i : ts[j] = Sym(")")})
At(ts, s) == {i \in DOMAIN ts : ts[i] = Sym(s) /\ Depth(ts, i) = 0}

RECURSIVE CelTrue(_, _)
CelTrue(ts, T) ==
  LET left(i) == CelTrue(SubSeq(ts, 1, i - 1), T)
      right(i) == CelTrue(SubSeq(ts, i + 1, Len(ts)), T)
  IN IF At(ts, "||") # {} THEN LET i == CHOOSE i \in At(ts, "||") : TRUE IN left(i) \/ right(i)
     ELSE IF At(ts, "&&") # {} THEN LET i == CHOOSE i \in At(ts, "&&") : TRUE IN left(i) /\ right(i)
     ELSE IF ts[1] = Sym("(") THEN CelTrue(SubSeq(ts, 2, Len(ts) - 1), T)
     ELSE ts[1].atom \in T

(* What the document says, to a reader of the contract: a node that has the
   shape of a group is one, and a leaf compares what its kind names. *)
Says(o) == [param |-> o.param.str, op |-> CelOp[o.op.str],
            rhs |-> CASE o.kind.str = "time" -> o.rhs
                      [] o.kind.str = "ip" -> o.cidr
                      [] o.kind.str = "value" -> o.value]

RECURSIVE DocTrue(_, _)
DocTrue(d, T) ==
  LET within == IF GroupShape(d.obj) THEN d.obj.children.arr ELSE <<>>
  IN IF ~GroupShape(d.obj) THEN Says(d.obj) \in T
     ELSE IF d.obj.op.str = "and" THEN \A i \in DOMAIN within : DocTrue(within[i], T)
     ELSE \E i \in DOMAIN within : DocTrue(within[i], T)

(* No key that another kind of node uses has a type that kind refuses: see
   the README for what happens to the others. *)
RECURSIVE SurplusKeysFit(_)
SurplusKeysFit(d) ==
  /\ StringsDecode(d.obj, {"kind", "param", "op", "cidr"})
  /\ Has(d.obj, "rhs") => RhsDecodes(d.obj.rhs)
  /\ Has(d.obj, "value") => IsScalar(d.obj.value)
  /\ GroupShape(d.obj) => \A i \in DOMAIN d.obj.children.arr : SurplusKeysFit(d.obj.children.arr[i])

(* A condition that has the shape is decoded, without a panic, and if it is
   compiled the CEL text has the truth value of the document under every
   outcome of its comparisons: neither the two readings of a node nor the
   parentheses the rendering leaves out change what was asked for. *)
AcceptedConditionMeansItsTree ==
  condition.at # "received" /\ NodeShape(condition.doc) /\ SurplusKeysFit(condition.doc) =>
    /\ condition.tree # Nil /\ condition.at # "failed"
    /\ condition.at = "compiled" =>
         \A T \in SUBSET {LeafToCel(l).atom : l \in Leaves(condition.tree)} :
           CelTrue(condition.cel, T) = DocTrue(condition.doc, T)
=============================================================================
