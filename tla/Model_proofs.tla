---------------------------- MODULE Model_proofs ----------------------------
(* About models: that one that passes the validation is one OpenFGA takes,
   that a comparison tells every change, that a grant the service takes is
   one OpenFGA can write, that a listing misses nothing, for any number of
   tuples, types and pages, whatever others grant and revoke between the
   pages, that no edit of a model leaves an orphan in it, and that a model is
   what its DSL text reads as. *)
EXTENDS ModelDiff, GrantContract, GrantListing, ModelEditor, Lists_proofs, SequenceTheorems, TLAPS

-----------------------------------------------------------------------------
(* Valid models, and what the comparison of two of them tells.             *)

(* What a validation that finds nothing has looked for. *)
LEMMA WhenMeans ==
  ASSUME NEW broken \in BOOLEAN, NEW code
  PROVE  When(broken, code) = {} <=> ~broken
BY DEF When

Distinct(s) == \A i, j \in DOMAIN s : s[i] = s[j] => i = j
Unique(S) == \A x, y \in S : x.name = y.name => x = y

LEMMA RepeatsMeans ==
  ASSUME NEW X, NEW s \in Seq(X), ~Repeats(s)
  PROVE  Distinct(s)
<1>1. DOMAIN s = 1..Len(s) /\ Len(s) \in Nat
  OBVIOUS
<1>2. \A i, j \in 1..Len(s) : i < j => s[i] # s[j]
  BY <1>1 DEF Repeats
<1> QED
  BY <1>1, <1>2 DEF Distinct

LEMMA NamedIs ==
  ASSUME NEW X, NEW s \in Seq(X), \A x \in X : x.name \in STRING
  PROVE  /\ Named(s) \in Seq(STRING) /\ Len(Named(s)) = Len(s) /\ ToSet(Named(s)) = NameSet(s)
         /\ \A i \in DOMAIN s : Named(s)[i] = s[i].name
<1>1. DOMAIN s = 1..Len(s) /\ Len(s) \in Nat /\ \A i \in 1..Len(s) : s[i] \in X
  OBVIOUS
<1>2. Named(s) = [i \in 1..Len(s) |-> s[i].name]
  BY <1>1 DEF Named
<1> QED
  BY <1>1, <1>2 DEF ToSet, NameSet

LEMMA ConcatDistinct ==
  ASSUME NEW X, NEW s \in Seq(X), NEW t \in Seq(X), Distinct(s \o t)
  PROVE  /\ Distinct(s) /\ Distinct(t)
         /\ ToSet(s) \cap ToSet(t) = {}
         /\ ToSet(s \o t) = ToSet(s) \cup ToSet(t)
<1> DEFINE u == s \o t
<1>1. /\ Len(s) \in Nat /\ Len(t) \in Nat /\ DOMAIN s = 1..Len(s) /\ DOMAIN t = 1..Len(t)
      /\ DOMAIN u = 1..(Len(s) + Len(t))
      /\ \A i \in 1..Len(s) : u[i] = s[i]
      /\ \A i \in 1..Len(t) : u[Len(s) + i] = t[i]
      /\ \A i, j \in DOMAIN u : u[i] = u[j] => i = j
  BY DEF Distinct
<1> HIDE DEF u
<1>2. Distinct(s)
  BY <1>1 DEF Distinct
<1>3. \A i \in 1..Len(t) : Len(s) + i \in DOMAIN u
  BY <1>1
<1>4. Distinct(t)
  <2> SUFFICES ASSUME NEW i \in 1..Len(t), NEW j \in 1..Len(t), t[i] = t[j] PROVE i = j
    BY <1>1 DEF Distinct
  <2>1. Len(s) + i = Len(s) + j
    BY <1>1, <1>3
  <2> QED
    BY <1>1, <2>1
<1>5. ASSUME NEW i \in 1..Len(s), NEW j \in 1..Len(t), s[i] = t[j] PROVE FALSE
  <2>1. i = Len(s) + j
    <3>1. i \in DOMAIN u /\ Len(s) + j \in DOMAIN u /\ u[i] = u[Len(s) + j]
      BY <1>1, <1>3, <1>5
    <3> QED
      BY <1>1, <3>1
  <2> QED
    BY <1>1, <2>1
<1>6. ToSet(u) = ToSet(s) \cup ToSet(t)
  <2>1. ToSet(u) \subseteq ToSet(s) \cup ToSet(t)
    <3> SUFFICES ASSUME NEW k \in DOMAIN u PROVE u[k] \in ToSet(s) \cup ToSet(t)
      BY DEF ToSet
    <3>1. CASE k <= Len(s)
      BY <1>1, <3>1 DEF ToSet
    <3>2. CASE k > Len(s)
      <4>1. k - Len(s) \in 1..Len(t) /\ Len(s) + (k - Len(s)) = k
        BY <1>1, <3>2
      <4> QED
        BY <1>1, <4>1 DEF ToSet
    <3> QED
      BY <1>1, <3>1, <3>2
  <2>2. ToSet(s) \subseteq ToSet(u)
    BY <1>1 DEF ToSet
  <2>3. ToSet(t) \subseteq ToSet(u)
    BY <1>1, <1>3 DEF ToSet
  <2> QED
    BY <2>1, <2>2, <2>3
<1>7. ToSet(s) \cap ToSet(t) = {}
  BY <1>1, <1>5 DEF ToSet
<1> QED
  BY <1>2, <1>4, <1>6, <1>7 DEF u

LEMMA DistinctNames ==
  ASSUME NEW X, NEW s \in Seq(X), \A x \in X : x.name \in STRING, Distinct(Named(s))
  PROVE  Unique(ToSet(s))
BY NamedIs DEF Distinct, Unique, ToSet, Named

LEMMA IrRecords ==
  ASSUME NEW ir \in ModelIRs
  PROVE  /\ ir.groups \in Seq(GroupTypes) /\ ir.resources \in Seq(ResourceTypes)
         /\ ir.conditions \in Seq(STRING)
         /\ ToSet(ir.groups) \subseteq GroupTypes /\ ToSet(ir.resources) \subseteq ResourceTypes
BY DEF ModelIRs, ToSet

LEMMA ResourceRecords ==
  ASSUME NEW r \in ResourceTypes
  PROVE  /\ r.name \in STRING /\ r.parents \in Seq(ParentRefs) /\ r.roles \in Seq(Roles)
         /\ r.permissions \in Seq(Permissions)
         /\ ToSet(r.parents) \subseteq ParentRefs /\ ToSet(r.roles) \subseteq Roles
         /\ ToSet(r.permissions) \subseteq Permissions
BY DEF ResourceTypes, ToSet

LEMMA AllNamed ==
  /\ \A g \in GroupTypes : g.name \in STRING
  /\ \A r \in ResourceTypes : r.name \in STRING
  /\ \A x \in Roles : x.name \in STRING
  /\ \A p \in Permissions : p.name \in STRING /\ p.name \in DOMAIN CanName
BY ModelContractAssumption DEF GroupTypes, ResourceTypes, Roles, Permissions

(* Every type, and every role and permission of a type, has a name of its
   own; of a permission, "can_" and the name too. *)
LEMMA ValidNames ==
  ASSUME NEW ir \in ModelIRs, ModelErrors(ir) = {}
  PROVE  /\ Unique(ToSet(ir.groups)) /\ Unique(ToSet(ir.resources))
         /\ NameSet(ir.groups) \cap NameSet(ir.resources) = {}
         /\ "user" \notin NameSet(ir.groups) \cup NameSet(ir.resources)
<1>1. TypeErrors(ir) = {}
  BY DEF ModelErrors
<1> DEFINE names == Named(ir.groups) \o Named(ir.resources)
<1>2. ~Repeats(names) /\ "user" \notin ToSet(names)
  BY <1>1 DEF TypeErrors, When
<1>3. /\ Named(ir.groups) \in Seq(STRING) /\ Named(ir.resources) \in Seq(STRING)
      /\ ToSet(Named(ir.groups)) = NameSet(ir.groups)
      /\ ToSet(Named(ir.resources)) = NameSet(ir.resources)
  BY IrRecords, AllNamed, NamedIs
<1>4. names \in Seq(STRING)
  BY <1>3
<1>4a. Distinct(names)
  <2> HIDE DEF names
  <2> QED
    BY <1>2, <1>4, RepeatsMeans
<1>5. /\ Distinct(Named(ir.groups)) /\ Distinct(Named(ir.resources))
      /\ NameSet(ir.groups) \cap NameSet(ir.resources) = {}
      /\ ToSet(names) = NameSet(ir.groups) \cup NameSet(ir.resources)
  BY <1>3, <1>4a, ConcatDistinct
<1> QED
  BY <1>2, <1>5, IrRecords, AllNamed, DistinctNames

LEMMA ValidRelations ==
  ASSUME NEW ir \in ModelIRs, ModelErrors(ir) = {}, NEW r \in ToSet(ir.resources)
  PROVE  /\ r \in ResourceTypes
         /\ Unique(ToSet(r.roles)) /\ Unique(ToSet(r.permissions))
         /\ \A role \in ToSet(r.roles), p \in ToSet(r.permissions) : role.name # CanName[p.name]
         /\ \A i, j \in DOMAIN r.parents : r.parents[i].relationName = r.parents[j].relationName => i = j
         /\ \A p \in ToSet(r.parents) :
              /\ \A role \in ToSet(r.roles) : role.name # p.relationName
              /\ \A e \in ToSet(r.permissions) : CanName[e.name] # p.relationName
<1>1. r \in ResourceTypes /\ ParentErrors(ir, r) = {} /\ RelationErrors(r) = {}
  <2>1. r \in ResourceTypes
    BY IrRecords
  <2>2. ResourceErrors(ir, r) \subseteq ModelErrors(ir)
    BY DEF ModelErrors
  <2>3. ParentErrors(ir, r) \subseteq ResourceErrors(ir, r) /\ RelationErrors(r) \subseteq ResourceErrors(ir, r)
    BY DEF ResourceErrors
  <2> QED
    BY <2>1, <2>2, <2>3
<1> DEFINE relations == [i \in DOMAIN r.parents |-> r.parents[i].relationName]
           cans == [i \in DOMAIN r.permissions |-> CanName[r.permissions[i].name]]
           own == Named(r.roles) \o cans
<1>2. ~Repeats(relations) /\ ~Repeats(own) /\ ToSet(own) \cap ToSet(relations) = {}
  BY <1>1 DEF ParentErrors, RelationErrors, When
<1>3. /\ r.parents \in Seq(ParentRefs) /\ r.roles \in Seq(Roles) /\ r.permissions \in Seq(Permissions)
  BY <1>1, ResourceRecords
<1>4. /\ Named(r.roles) \in Seq(STRING) /\ ToSet(Named(r.roles)) = NameSet(r.roles)
  BY <1>3, AllNamed, NamedIs
<1>5. cans \in Seq(STRING)
  <2>1. /\ Len(r.permissions) \in Nat /\ DOMAIN r.permissions = 1..Len(r.permissions)
        /\ \A i \in 1..Len(r.permissions) : r.permissions[i].name \in DOMAIN CanName
    BY <1>3, AllNamed
  <2>2. \A i \in 1..Len(r.permissions) : CanName[r.permissions[i].name] \in STRING
    BY <2>1, ModelContractAssumption
  <2> QED
    BY <2>1, <2>2
<1>6. relations \in Seq(STRING)
  <2>1. /\ Len(r.parents) \in Nat /\ DOMAIN r.parents = 1..Len(r.parents)
        /\ \A i \in 1..Len(r.parents) : r.parents[i] \in ParentRefs
    BY <1>3
  <2>2. \A p \in ParentRefs : p.relationName \in STRING
    BY DEF ParentRefs
  <2> QED
    BY <2>1, <2>2
<1>7. own \in Seq(STRING)
  <2> HIDE DEF cans
  <2> QED
    BY <1>4, <1>5
<1>7a. Distinct(own) /\ Distinct(relations)
  <2> HIDE DEF own, relations
  <2> QED
    BY <1>2, <1>6, <1>7, RepeatsMeans
<1>8. /\ Distinct(Named(r.roles)) /\ Distinct(cans) /\ NameSet(r.roles) \cap ToSet(cans) = {}
      /\ ToSet(own) = NameSet(r.roles) \cup ToSet(cans)
  <2> HIDE DEF cans, relations
  <2> QED
    BY <1>4, <1>5, <1>7a, ConcatDistinct
<1>9. Unique(ToSet(r.permissions))
  BY <1>8 DEF Distinct, Unique, ToSet
<1>10. Unique(ToSet(r.roles))
  BY <1>3, <1>8, AllNamed, DistinctNames
<1>11. /\ \A role \in ToSet(r.roles) : role.name \in NameSet(r.roles)
       /\ \A p \in ToSet(r.permissions) : CanName[p.name] \in ToSet(cans)
       /\ \A p \in ToSet(r.parents) : p.relationName \in ToSet(relations)
  BY DEF ToSet, NameSet
<1>12. \A role \in ToSet(r.roles), p \in ToSet(r.permissions) : role.name # CanName[p.name]
  BY <1>8, <1>11
<1>13. \A p \in ToSet(r.parents) :
         /\ \A role \in ToSet(r.roles) : role.name # p.relationName
         /\ \A e \in ToSet(r.permissions) : CanName[e.name] # p.relationName
  BY <1>2, <1>8, <1>11
<1>14. \A i, j \in DOMAIN r.parents : r.parents[i].relationName = r.parents[j].relationName => i = j
  BY <1>7a DEF Distinct
<1> QED
  BY <1>1, <1>9, <1>10, <1>12, <1>13, <1>14

-----------------------------------------------------------------------------
(* Facts, kind by kind. *)
LEMMA FactsAre ==
  ASSUME NEW ir, NEW f
  PROVE  f \in Facts(ir) <=>
           \/ \E t \in TypeNames(ir) : f = <<"type", t>>
           \/ \E r \in ToSet(ir.resources) : f \in ResourceFacts(r)
BY DEF Facts

LEMMA ResourceFactsAre ==
  ASSUME NEW r, NEW f
  PROVE  f \in ResourceFacts(r) <=>
           \/ \E pair \in ParentPairs(r) : f = <<"parent", r.name, pair>>
           \/ \E role \in ToSet(r.roles) :
                \/ f = <<"role", r.name, role.name>>
                \/ \E k \in SubjectKeys(role.assignableBy) : f = <<"subject", r.name, role.name, k>>
           \/ \E p \in ToSet(r.permissions) :
                \/ f = <<"permission", r.name, p.name>>
                \/ \E k \in ToSet(p.grantedByRoles) : f = <<"grant", r.name, p.name, k>>
                \/ \E k \in ToSet(p.inheritFromParents) : f = <<"inherit", r.name, p.name, k>>
BY DEF ResourceFacts, RoleFacts, PermissionFacts

(* A model whose names are unique, as far as the diff looks. *)
Orderly(ir) ==
  /\ Unique(ToSet(ir.resources))
  /\ \A r \in ToSet(ir.resources) : Unique(ToSet(r.roles)) /\ Unique(ToSet(r.permissions))

LEMMA ByNameIs ==
  ASSUME NEW s, Unique(ToSet(s)), NEW x \in ToSet(s)
  PROVE  ByName(s, x.name) = x
BY DEF ByName, Unique

LEMMA ByNameOf ==
  ASSUME NEW s, NEW name \in NameSet(s)
  PROVE  ByName(s, name) \in ToSet(s) /\ ByName(s, name).name = name
<1>1. \E x \in ToSet(s) : x.name = name
  BY DEF NameSet, ToSet
<1> QED
  BY <1>1 DEF ByName

LEMMA NameSetIs ==
  ASSUME NEW s, NEW x \in ToSet(s)
  PROVE  x.name \in NameSet(s)
BY DEF NameSet, ToSet

Res(ir, name) == ByName(ir.resources, name)
Shared(from, to) == NameSet(from.resources) \cap NameSet(to.resources)

(* The facts of an orderly model by the names they are about. *)
LEMMA TypeFacts ==
  ASSUME NEW ir
  PROVE  \A n : <<"type", n>> \in Facts(ir) <=> n \in TypeNames(ir)
BY FactsAre, ResourceFactsAre

LEMMA RoleNamesInFacts ==
  ASSUME NEW ir, Orderly(ir)
  PROVE  \A n, m : <<"role", n, m>> \in Facts(ir) <=>
           n \in NameSet(ir.resources) /\ m \in NameSet(Res(ir, n).roles)
<1> SUFFICES ASSUME NEW n, NEW m
             PROVE  <<"role", n, m>> \in Facts(ir) <=>
                      n \in NameSet(ir.resources) /\ m \in NameSet(Res(ir, n).roles)
  OBVIOUS
<1> DEFINE R == ToSet(ir.resources)
<1>1. /\ \A r \in R : r.name \in NameSet(ir.resources) /\ Res(ir, r.name) = r
      /\ n \in NameSet(ir.resources) => Res(ir, n) \in R /\ Res(ir, n).name = n
  BY NameSetIs, ByNameIs, ByNameOf DEF Orderly, Res
<1>2. \A r \in R : /\ \A x \in ToSet(r.roles) :
                        x.name \in NameSet(r.roles) /\ ByName(r.roles, x.name) = x
                   /\ m \in NameSet(r.roles) =>
                        ByName(r.roles, m) \in ToSet(r.roles) /\ ByName(r.roles, m).name = m
  BY NameSetIs, ByNameIs, ByNameOf DEF Orderly
<1>3. <<"role", n, m>> \in Facts(ir) <=> \E r \in R : <<"role", n, m>> \in ResourceFacts(r)
  BY FactsAre
<1> HIDE DEF R
<1>4. \A r \in R : <<"role", n, m>> \in ResourceFacts(r) <=> \E x \in ToSet(r.roles) : r.name = n /\ x.name = m
  BY ResourceFactsAre
<1> QED
  BY <1>1, <1>2, <1>3, <1>4

LEMMA PermissionNamesInFacts ==
  ASSUME NEW ir, Orderly(ir)
  PROVE  \A n, m : <<"permission", n, m>> \in Facts(ir) <=>
           n \in NameSet(ir.resources) /\ m \in NameSet(Res(ir, n).permissions)
<1> SUFFICES ASSUME NEW n, NEW m
             PROVE  <<"permission", n, m>> \in Facts(ir) <=>
                      n \in NameSet(ir.resources) /\ m \in NameSet(Res(ir, n).permissions)
  OBVIOUS
<1> DEFINE R == ToSet(ir.resources)
<1>1. /\ \A r \in R : r.name \in NameSet(ir.resources) /\ Res(ir, r.name) = r
      /\ n \in NameSet(ir.resources) => Res(ir, n) \in R /\ Res(ir, n).name = n
  BY NameSetIs, ByNameIs, ByNameOf DEF Orderly, Res
<1>2. \A r \in R : /\ \A x \in ToSet(r.permissions) :
                        x.name \in NameSet(r.permissions) /\ ByName(r.permissions, x.name) = x
                   /\ m \in NameSet(r.permissions) =>
                        ByName(r.permissions, m) \in ToSet(r.permissions) /\ ByName(r.permissions, m).name = m
  BY NameSetIs, ByNameIs, ByNameOf DEF Orderly
<1>3. <<"permission", n, m>> \in Facts(ir) <=> \E r \in R : <<"permission", n, m>> \in ResourceFacts(r)
  BY FactsAre
<1> HIDE DEF R
<1>4. \A r \in R : <<"permission", n, m>> \in ResourceFacts(r) <=> \E x \in ToSet(r.permissions) : r.name = n /\ x.name = m
  BY ResourceFactsAre
<1> QED
  BY <1>1, <1>2, <1>3, <1>4

LEMMA PairsInFacts ==
  ASSUME NEW ir, Orderly(ir)
  PROVE  \A n, m : <<"parent", n, m>> \in Facts(ir) <=>
           n \in NameSet(ir.resources) /\ m \in ParentPairs(Res(ir, n))
<1> SUFFICES ASSUME NEW n, NEW m
             PROVE  <<"parent", n, m>> \in Facts(ir) <=>
                      n \in NameSet(ir.resources) /\ m \in ParentPairs(Res(ir, n))
  OBVIOUS
<1> DEFINE R == ToSet(ir.resources)
<1>1. /\ \A r \in R : r.name \in NameSet(ir.resources) /\ Res(ir, r.name) = r
      /\ n \in NameSet(ir.resources) => Res(ir, n) \in R /\ Res(ir, n).name = n
  BY NameSetIs, ByNameIs, ByNameOf DEF Orderly, Res
<1>3. <<"parent", n, m>> \in Facts(ir) <=> \E r \in R : <<"parent", n, m>> \in ResourceFacts(r)
  BY FactsAre
<1> HIDE DEF R
<1>4. \A r \in R : <<"parent", n, m>> \in ResourceFacts(r) <=> r.name = n /\ m \in ParentPairs(r)
  BY ResourceFactsAre
<1> QED
  BY <1>1, <1>3, <1>4

LEMMA AssignableInFacts ==
  ASSUME NEW ir, Orderly(ir)
  PROVE  \A n, m, k : <<"subject", n, m, k>> \in Facts(ir) <=>
           n \in NameSet(ir.resources) /\ m \in NameSet(Res(ir, n).roles) /\ k \in Assignable(Res(ir, n), m)
<1> SUFFICES ASSUME NEW n, NEW m, NEW k
             PROVE  <<"subject", n, m, k>> \in Facts(ir) <=>
                      n \in NameSet(ir.resources) /\ m \in NameSet(Res(ir, n).roles) /\ k \in Assignable(Res(ir, n), m)
  OBVIOUS
<1> DEFINE R == ToSet(ir.resources)
<1>1. /\ \A r \in R : r.name \in NameSet(ir.resources) /\ Res(ir, r.name) = r
      /\ n \in NameSet(ir.resources) => Res(ir, n) \in R /\ Res(ir, n).name = n
  BY NameSetIs, ByNameIs, ByNameOf DEF Orderly, Res
<1>2. \A r \in R : /\ \A x \in ToSet(r.roles) :
                        x.name \in NameSet(r.roles) /\ ByName(r.roles, x.name) = x
                   /\ m \in NameSet(r.roles) =>
                        ByName(r.roles, m) \in ToSet(r.roles) /\ ByName(r.roles, m).name = m
  BY NameSetIs, ByNameIs, ByNameOf DEF Orderly
<1>3. <<"subject", n, m, k>> \in Facts(ir) <=> \E r \in R : <<"subject", n, m, k>> \in ResourceFacts(r)
  BY FactsAre
<1> HIDE DEF R
<1>4. \A r \in R : <<"subject", n, m, k>> \in ResourceFacts(r) <=> \E x \in ToSet(r.roles) : r.name = n /\ x.name = m /\ k \in SubjectKeys(x.assignableBy)
  BY ResourceFactsAre
<1> QED
  BY <1>1, <1>2, <1>3, <1>4 DEF Assignable

LEMMA GrantingInFacts ==
  ASSUME NEW ir, Orderly(ir)
  PROVE  \A n, m, k : <<"grant", n, m, k>> \in Facts(ir) <=>
           n \in NameSet(ir.resources) /\ m \in NameSet(Res(ir, n).permissions) /\ k \in Granting(Res(ir, n), m)
<1> SUFFICES ASSUME NEW n, NEW m, NEW k
             PROVE  <<"grant", n, m, k>> \in Facts(ir) <=>
                      n \in NameSet(ir.resources) /\ m \in NameSet(Res(ir, n).permissions) /\ k \in Granting(Res(ir, n), m)
  OBVIOUS
<1> DEFINE R == ToSet(ir.resources)
<1>1. /\ \A r \in R : r.name \in NameSet(ir.resources) /\ Res(ir, r.name) = r
      /\ n \in NameSet(ir.resources) => Res(ir, n) \in R /\ Res(ir, n).name = n
  BY NameSetIs, ByNameIs, ByNameOf DEF Orderly, Res
<1>2. \A r \in R : /\ \A x \in ToSet(r.permissions) :
                        x.name \in NameSet(r.permissions) /\ ByName(r.permissions, x.name) = x
                   /\ m \in NameSet(r.permissions) =>
                        ByName(r.permissions, m) \in ToSet(r.permissions) /\ ByName(r.permissions, m).name = m
  BY NameSetIs, ByNameIs, ByNameOf DEF Orderly
<1>3. <<"grant", n, m, k>> \in Facts(ir) <=> \E r \in R : <<"grant", n, m, k>> \in ResourceFacts(r)
  BY FactsAre
<1> HIDE DEF R
<1>4. \A r \in R : <<"grant", n, m, k>> \in ResourceFacts(r) <=> \E x \in ToSet(r.permissions) : r.name = n /\ x.name = m /\ k \in ToSet(x.grantedByRoles)
  BY ResourceFactsAre
<1> QED
  BY <1>1, <1>2, <1>3, <1>4 DEF Granting

LEMMA InheritingInFacts ==
  ASSUME NEW ir, Orderly(ir)
  PROVE  \A n, m, k : <<"inherit", n, m, k>> \in Facts(ir) <=>
           n \in NameSet(ir.resources) /\ m \in NameSet(Res(ir, n).permissions) /\ k \in Inheriting(Res(ir, n), m)
<1> SUFFICES ASSUME NEW n, NEW m, NEW k
             PROVE  <<"inherit", n, m, k>> \in Facts(ir) <=>
                      n \in NameSet(ir.resources) /\ m \in NameSet(Res(ir, n).permissions) /\ k \in Inheriting(Res(ir, n), m)
  OBVIOUS
<1> DEFINE R == ToSet(ir.resources)
<1>1. /\ \A r \in R : r.name \in NameSet(ir.resources) /\ Res(ir, r.name) = r
      /\ n \in NameSet(ir.resources) => Res(ir, n) \in R /\ Res(ir, n).name = n
  BY NameSetIs, ByNameIs, ByNameOf DEF Orderly, Res
<1>2. \A r \in R : /\ \A x \in ToSet(r.permissions) :
                        x.name \in NameSet(r.permissions) /\ ByName(r.permissions, x.name) = x
                   /\ m \in NameSet(r.permissions) =>
                        ByName(r.permissions, m) \in ToSet(r.permissions) /\ ByName(r.permissions, m).name = m
  BY NameSetIs, ByNameIs, ByNameOf DEF Orderly
<1>3. <<"inherit", n, m, k>> \in Facts(ir) <=> \E r \in R : <<"inherit", n, m, k>> \in ResourceFacts(r)
  BY FactsAre
<1> HIDE DEF R
<1>4. \A r \in R : <<"inherit", n, m, k>> \in ResourceFacts(r) <=> \E x \in ToSet(r.permissions) : r.name = n /\ x.name = m /\ k \in ToSet(x.inheritFromParents)
  BY ResourceFactsAre
<1> QED
  BY <1>1, <1>2, <1>3, <1>4 DEF Inheriting

-----------------------------------------------------------------------------
(* The changes, and what they tell. *)
LEMMA ChangesAre ==
  ASSUME NEW from, NEW to, NEW c
  PROVE  c \in DiffModels(from, to) <=>
           \/ \E t \in TypeNames(to) \ TypeNames(from) : c = [kind |-> "TYPE_ADDED", type |-> t]
           \/ \E t \in TypeNames(from) \ TypeNames(to) : c = [kind |-> "TYPE_REMOVED", type |-> t]
           \/ \E n \in Shared(from, to) :
                \/ c \in RoleChanges(n, Res(from, n), Res(to, n))
                \/ c \in PermissionChanges(n, Res(from, n), Res(to, n))
                \/ c \in ParentChanges(n, Res(from, n), Res(to, n))
BY DEF DiffModels, Shared, Res

LEMMA RoleChangesAre ==
  ASSUME NEW n, NEW a, NEW b, NEW c
  PROVE  c \in RoleChanges(n, a, b) <=>
           \/ \E r \in NameSet(b.roles) \ NameSet(a.roles) : c = [kind |-> "ROLE_ADDED", type |-> n, role |-> r]
           \/ \E r \in NameSet(a.roles) \ NameSet(b.roles) : c = [kind |-> "ROLE_REMOVED", type |-> n, role |-> r]
           \/ \E r \in NameSet(a.roles) \cap NameSet(b.roles) :
                /\ Assignable(a, r) # Assignable(b, r)
                /\ c = [kind |-> "ROLE_ASSIGNABLE_CHANGED", type |-> n, role |-> r,
                        added |-> Assignable(b, r) \ Assignable(a, r),
                        removed |-> Assignable(a, r) \ Assignable(b, r)]
BY DEF RoleChanges

LEMMA PermissionChangesAre ==
  ASSUME NEW n, NEW a, NEW b, NEW c
  PROVE  c \in PermissionChanges(n, a, b) <=>
           \/ \E p \in NameSet(b.permissions) \ NameSet(a.permissions) :
                c = [kind |-> "PERMISSION_ADDED", type |-> n, permission |-> p]
           \/ \E p \in NameSet(a.permissions) \ NameSet(b.permissions) :
                c = [kind |-> "PERMISSION_REMOVED", type |-> n, permission |-> p]
           \/ \E p \in NameSet(a.permissions) \cap NameSet(b.permissions) :
                /\ Granting(a, p) # Granting(b, p)
                /\ c = [kind |-> "GRANT_CHANGED", type |-> n, permission |-> p,
                        added |-> Granting(b, p) \ Granting(a, p),
                        removed |-> Granting(a, p) \ Granting(b, p)]
           \/ \E p \in NameSet(a.permissions) \cap NameSet(b.permissions) :
                /\ Inheriting(a, p) # Inheriting(b, p)
                /\ c = [kind |-> "PERMISSION_INHERIT_CHANGED", type |-> n, permission |-> p,
                        added |-> Inheriting(b, p) \ Inheriting(a, p),
                        removed |-> Inheriting(a, p) \ Inheriting(b, p)]
BY DEF PermissionChanges

LEMMA ParentChangesAre ==
  ASSUME NEW n, NEW a, NEW b, NEW c
  PROVE  c \in ParentChanges(n, a, b) <=>
           \/ \E p \in ParentPairs(b) \ ParentPairs(a) : c = [kind |-> "PARENT_ADDED", type |-> n, pair |-> p]
           \/ \E p \in ParentPairs(a) \ ParentPairs(b) : c = [kind |-> "PARENT_REMOVED", type |-> n, pair |-> p]
BY DEF ParentChanges

(* What one model has of a type and another has not, or both have. *)
TypesOnly(a, b) == TypeNames(a) \ TypeNames(b)
RolesOnly(a, b, n) == NameSet(Res(a, n).roles) \ NameSet(Res(b, n).roles)
RolesBoth(a, b, n) == NameSet(Res(a, n).roles) \cap NameSet(Res(b, n).roles)
PermissionsOnly(a, b, n) == NameSet(Res(a, n).permissions) \ NameSet(Res(b, n).permissions)
PermissionsBoth(a, b, n) == NameSet(Res(a, n).permissions) \cap NameSet(Res(b, n).permissions)
PairsOnly(a, b, n) == ParentPairs(Res(a, n)) \ ParentPairs(Res(b, n))
AssignableOnly(a, b, n, x) == Assignable(Res(a, n), x) \ Assignable(Res(b, n), x)
GrantingOnly(a, b, n, x) == Granting(Res(a, n), x) \ Granting(Res(b, n), x)
InheritingOnly(a, b, n, x) == Inheriting(Res(a, n), x) \ Inheriting(Res(b, n), x)

(* A fact that came with a model, told by one of the changes. *)
Came(f, from, to) ==
  \/ \E t \in TypesOnly(to, from) : f = <<"type", t>>
  \/ \E n \in Shared(from, to) : \E x \in RolesOnly(to, from, n) : f = <<"role", n, x>>
  \/ \E n \in Shared(from, to) : \E x \in PermissionsOnly(to, from, n) : f = <<"permission", n, x>>
  \/ \E n \in Shared(from, to) : \E x \in PairsOnly(to, from, n) : f = <<"parent", n, x>>
  \/ \E n \in Shared(from, to) : \E x \in RolesBoth(from, to, n) :
       \E k \in AssignableOnly(to, from, n, x) : f = <<"subject", n, x, k>>
  \/ \E n \in Shared(from, to) : \E x \in PermissionsBoth(from, to, n) :
       \E k \in GrantingOnly(to, from, n, x) : f = <<"grant", n, x, k>>
  \/ \E n \in Shared(from, to) : \E x \in PermissionsBoth(from, to, n) :
       \E k \in InheritingOnly(to, from, n, x) : f = <<"inherit", n, x, k>>

OfKind(changes, kind) == {c \in changes : c.kind = kind}

(* Changes of each kind: one for each thing that came or went. *)
LEMMA TypesOfKind ==
  ASSUME NEW from, NEW to
  PROVE  LET d == DiffModels(from, to)
         IN /\ \A c \in OfKind(d, "TYPE_ADDED") : c.type \in TypesOnly(to, from)
            /\ \A t \in TypesOnly(to, from) : \E c \in OfKind(d, "TYPE_ADDED") : c.type = t
            /\ \A c \in OfKind(d, "TYPE_REMOVED") : c.type \in TypesOnly(from, to)
            /\ \A t \in TypesOnly(from, to) : \E c \in OfKind(d, "TYPE_REMOVED") : c.type = t
<1>1. \A t \in TypesOnly(to, from) : [kind |-> "TYPE_ADDED", type |-> t] \in OfKind(DiffModels(from, to), "TYPE_ADDED")
  BY ChangesAre DEF OfKind, TypesOnly
<1>2. \A t \in TypesOnly(from, to) : [kind |-> "TYPE_REMOVED", type |-> t] \in OfKind(DiffModels(from, to), "TYPE_REMOVED")
  BY ChangesAre DEF OfKind, TypesOnly
<1>3. /\ \A c \in OfKind(DiffModels(from, to), "TYPE_ADDED") : c.type \in TypesOnly(to, from)
      /\ \A c \in OfKind(DiffModels(from, to), "TYPE_REMOVED") : c.type \in TypesOnly(from, to)
  BY ChangesAre, RoleChangesAre, PermissionChangesAre, ParentChangesAre DEF OfKind, TypesOnly
<1> QED
  BY <1>1, <1>2, <1>3

LEMMA RolesOfKind ==
  ASSUME NEW from, NEW to
  PROVE  LET d == DiffModels(from, to)
             both == Shared(from, to)
         IN /\ \A c \in OfKind(d, "ROLE_ADDED") : c.type \in both /\ c.role \in RolesOnly(to, from, c.type)
            /\ \A n \in both : \A x \in RolesOnly(to, from, n) :
                 \E c \in OfKind(d, "ROLE_ADDED") : c.type = n /\ c.role = x
            /\ \A c \in OfKind(d, "ROLE_REMOVED") : c.type \in both /\ c.role \in RolesOnly(from, to, c.type)
            /\ \A n \in both : \A x \in RolesOnly(from, to, n) :
                 \E c \in OfKind(d, "ROLE_REMOVED") : c.type = n /\ c.role = x
<1>1. \A n \in Shared(from, to) : \A x \in RolesOnly(to, from, n) :
        [kind |-> "ROLE_ADDED", type |-> n, role |-> x] \in OfKind(DiffModels(from, to), "ROLE_ADDED")
  BY ChangesAre, RoleChangesAre DEF OfKind, RolesOnly
<1>2. \A n \in Shared(from, to) : \A x \in RolesOnly(from, to, n) :
        [kind |-> "ROLE_REMOVED", type |-> n, role |-> x] \in OfKind(DiffModels(from, to), "ROLE_REMOVED")
  BY ChangesAre, RoleChangesAre DEF OfKind, RolesOnly
<1>3. /\ \A c \in OfKind(DiffModels(from, to), "ROLE_ADDED") : c.type \in Shared(from, to) /\ c.role \in RolesOnly(to, from, c.type)
      /\ \A c \in OfKind(DiffModels(from, to), "ROLE_REMOVED") : c.type \in Shared(from, to) /\ c.role \in RolesOnly(from, to, c.type)
  BY ChangesAre, RoleChangesAre, PermissionChangesAre, ParentChangesAre DEF OfKind, RolesOnly
<1> QED
  BY <1>1, <1>2, <1>3

LEMMA PermissionsOfKind ==
  ASSUME NEW from, NEW to
  PROVE  LET d == DiffModels(from, to)
             both == Shared(from, to)
         IN /\ \A c \in OfKind(d, "PERMISSION_ADDED") : c.type \in both /\ c.permission \in PermissionsOnly(to, from, c.type)
            /\ \A n \in both : \A x \in PermissionsOnly(to, from, n) :
                 \E c \in OfKind(d, "PERMISSION_ADDED") : c.type = n /\ c.permission = x
            /\ \A c \in OfKind(d, "PERMISSION_REMOVED") : c.type \in both /\ c.permission \in PermissionsOnly(from, to, c.type)
            /\ \A n \in both : \A x \in PermissionsOnly(from, to, n) :
                 \E c \in OfKind(d, "PERMISSION_REMOVED") : c.type = n /\ c.permission = x
<1>1. \A n \in Shared(from, to) : \A x \in PermissionsOnly(to, from, n) :
        [kind |-> "PERMISSION_ADDED", type |-> n, permission |-> x] \in OfKind(DiffModels(from, to), "PERMISSION_ADDED")
  BY ChangesAre, PermissionChangesAre DEF OfKind, PermissionsOnly
<1>2. \A n \in Shared(from, to) : \A x \in PermissionsOnly(from, to, n) :
        [kind |-> "PERMISSION_REMOVED", type |-> n, permission |-> x] \in OfKind(DiffModels(from, to), "PERMISSION_REMOVED")
  BY ChangesAre, PermissionChangesAre DEF OfKind, PermissionsOnly
<1>3. /\ \A c \in OfKind(DiffModels(from, to), "PERMISSION_ADDED") : c.type \in Shared(from, to) /\ c.permission \in PermissionsOnly(to, from, c.type)
      /\ \A c \in OfKind(DiffModels(from, to), "PERMISSION_REMOVED") : c.type \in Shared(from, to) /\ c.permission \in PermissionsOnly(from, to, c.type)
  BY ChangesAre, RoleChangesAre, PermissionChangesAre, ParentChangesAre DEF OfKind, PermissionsOnly
<1> QED
  BY <1>1, <1>2, <1>3

LEMMA ParentsOfKind ==
  ASSUME NEW from, NEW to
  PROVE  LET d == DiffModels(from, to)
             both == Shared(from, to)
         IN /\ \A c \in OfKind(d, "PARENT_ADDED") : c.type \in both /\ c.pair \in PairsOnly(to, from, c.type)
            /\ \A n \in both : \A x \in PairsOnly(to, from, n) :
                 \E c \in OfKind(d, "PARENT_ADDED") : c.type = n /\ c.pair = x
            /\ \A c \in OfKind(d, "PARENT_REMOVED") : c.type \in both /\ c.pair \in PairsOnly(from, to, c.type)
            /\ \A n \in both : \A x \in PairsOnly(from, to, n) :
                 \E c \in OfKind(d, "PARENT_REMOVED") : c.type = n /\ c.pair = x
<1>1. \A n \in Shared(from, to) : \A x \in PairsOnly(to, from, n) :
        [kind |-> "PARENT_ADDED", type |-> n, pair |-> x] \in OfKind(DiffModels(from, to), "PARENT_ADDED")
  BY ChangesAre, ParentChangesAre DEF OfKind, PairsOnly
<1>2. \A n \in Shared(from, to) : \A x \in PairsOnly(from, to, n) :
        [kind |-> "PARENT_REMOVED", type |-> n, pair |-> x] \in OfKind(DiffModels(from, to), "PARENT_REMOVED")
  BY ChangesAre, ParentChangesAre DEF OfKind, PairsOnly
<1>3. /\ \A c \in OfKind(DiffModels(from, to), "PARENT_ADDED") : c.type \in Shared(from, to) /\ c.pair \in PairsOnly(to, from, c.type)
      /\ \A c \in OfKind(DiffModels(from, to), "PARENT_REMOVED") : c.type \in Shared(from, to) /\ c.pair \in PairsOnly(from, to, c.type)
  BY ChangesAre, RoleChangesAre, PermissionChangesAre, ParentChangesAre DEF OfKind, PairsOnly
<1> QED
  BY <1>1, <1>2, <1>3

LEMMA AssignablesOfKind ==
  ASSUME NEW from, NEW to
  PROVE  LET d == DiffModels(from, to)
             both == Shared(from, to)
         IN /\ \A c \in OfKind(d, "ROLE_ASSIGNABLE_CHANGED") :
                 /\ c.type \in both /\ c.role \in RolesBoth(from, to, c.type)
                 /\ c.added = AssignableOnly(to, from, c.type, c.role)
                 /\ c.removed = AssignableOnly(from, to, c.type, c.role)
            /\ \A n \in both : \A x \in RolesBoth(from, to, n) :
                 AssignableOnly(to, from, n, x) # {} \/ AssignableOnly(from, to, n, x) # {} =>
                   \E c \in OfKind(d, "ROLE_ASSIGNABLE_CHANGED") : c.type = n /\ c.role = x
<1>1. ASSUME NEW n \in Shared(from, to), NEW x \in RolesBoth(from, to, n),
             AssignableOnly(to, from, n, x) # {} \/ AssignableOnly(from, to, n, x) # {}
      PROVE  \E c \in OfKind(DiffModels(from, to), "ROLE_ASSIGNABLE_CHANGED") : c.type = n /\ c.role = x
  <2> DEFINE c == [kind |-> "ROLE_ASSIGNABLE_CHANGED", type |-> n, role |-> x,
                   added |-> AssignableOnly(to, from, n, x), removed |-> AssignableOnly(from, to, n, x)]
  <2>1. c \in RoleChanges(n, Res(from, n), Res(to, n))
    BY <1>1, RoleChangesAre DEF RolesBoth, AssignableOnly
  <2>2. c \in OfKind(DiffModels(from, to), "ROLE_ASSIGNABLE_CHANGED")
    BY <2>1, ChangesAre DEF OfKind
  <2> QED
    BY <2>2
<1>2. \A c \in OfKind(DiffModels(from, to), "ROLE_ASSIGNABLE_CHANGED") :
        /\ c.type \in Shared(from, to) /\ c.role \in RolesBoth(from, to, c.type)
        /\ c.added = AssignableOnly(to, from, c.type, c.role)
        /\ c.removed = AssignableOnly(from, to, c.type, c.role)
  BY ChangesAre, RoleChangesAre, PermissionChangesAre, ParentChangesAre DEF OfKind, RolesBoth, AssignableOnly
<1> QED
  BY <1>1, <1>2

LEMMA GrantsOfKind ==
  ASSUME NEW from, NEW to
  PROVE  LET d == DiffModels(from, to)
             both == Shared(from, to)
         IN /\ \A c \in OfKind(d, "GRANT_CHANGED") :
                 /\ c.type \in both /\ c.permission \in PermissionsBoth(from, to, c.type)
                 /\ c.added = GrantingOnly(to, from, c.type, c.permission)
                 /\ c.removed = GrantingOnly(from, to, c.type, c.permission)
            /\ \A n \in both : \A x \in PermissionsBoth(from, to, n) :
                 GrantingOnly(to, from, n, x) # {} \/ GrantingOnly(from, to, n, x) # {} =>
                   \E c \in OfKind(d, "GRANT_CHANGED") : c.type = n /\ c.permission = x
<1>1. ASSUME NEW n \in Shared(from, to), NEW x \in PermissionsBoth(from, to, n),
             GrantingOnly(to, from, n, x) # {} \/ GrantingOnly(from, to, n, x) # {}
      PROVE  \E c \in OfKind(DiffModels(from, to), "GRANT_CHANGED") : c.type = n /\ c.permission = x
  <2> DEFINE c == [kind |-> "GRANT_CHANGED", type |-> n, permission |-> x,
                   added |-> GrantingOnly(to, from, n, x), removed |-> GrantingOnly(from, to, n, x)]
  <2>1. c \in PermissionChanges(n, Res(from, n), Res(to, n))
    BY <1>1, PermissionChangesAre DEF PermissionsBoth, GrantingOnly
  <2>2. c \in OfKind(DiffModels(from, to), "GRANT_CHANGED")
    BY <2>1, ChangesAre DEF OfKind
  <2> QED
    BY <2>2
<1>2. \A c \in OfKind(DiffModels(from, to), "GRANT_CHANGED") :
        /\ c.type \in Shared(from, to) /\ c.permission \in PermissionsBoth(from, to, c.type)
        /\ c.added = GrantingOnly(to, from, c.type, c.permission)
        /\ c.removed = GrantingOnly(from, to, c.type, c.permission)
  BY ChangesAre, RoleChangesAre, PermissionChangesAre, ParentChangesAre DEF OfKind, PermissionsBoth, GrantingOnly
<1> QED
  BY <1>1, <1>2

LEMMA InheritsOfKind ==
  ASSUME NEW from, NEW to
  PROVE  LET d == DiffModels(from, to)
             both == Shared(from, to)
         IN /\ \A c \in OfKind(d, "PERMISSION_INHERIT_CHANGED") :
                 /\ c.type \in both /\ c.permission \in PermissionsBoth(from, to, c.type)
                 /\ c.added = InheritingOnly(to, from, c.type, c.permission)
                 /\ c.removed = InheritingOnly(from, to, c.type, c.permission)
            /\ \A n \in both : \A x \in PermissionsBoth(from, to, n) :
                 InheritingOnly(to, from, n, x) # {} \/ InheritingOnly(from, to, n, x) # {} =>
                   \E c \in OfKind(d, "PERMISSION_INHERIT_CHANGED") : c.type = n /\ c.permission = x
<1>1. ASSUME NEW n \in Shared(from, to), NEW x \in PermissionsBoth(from, to, n),
             InheritingOnly(to, from, n, x) # {} \/ InheritingOnly(from, to, n, x) # {}
      PROVE  \E c \in OfKind(DiffModels(from, to), "PERMISSION_INHERIT_CHANGED") : c.type = n /\ c.permission = x
  <2> DEFINE c == [kind |-> "PERMISSION_INHERIT_CHANGED", type |-> n, permission |-> x,
                   added |-> InheritingOnly(to, from, n, x), removed |-> InheritingOnly(from, to, n, x)]
  <2>1. c \in PermissionChanges(n, Res(from, n), Res(to, n))
    BY <1>1, PermissionChangesAre DEF PermissionsBoth, InheritingOnly
  <2>2. c \in OfKind(DiffModels(from, to), "PERMISSION_INHERIT_CHANGED")
    BY <2>1, ChangesAre DEF OfKind
  <2> QED
    BY <2>2
<1>2. \A c \in OfKind(DiffModels(from, to), "PERMISSION_INHERIT_CHANGED") :
        /\ c.type \in Shared(from, to) /\ c.permission \in PermissionsBoth(from, to, c.type)
        /\ c.added = InheritingOnly(to, from, c.type, c.permission)
        /\ c.removed = InheritingOnly(from, to, c.type, c.permission)
  BY ChangesAre, RoleChangesAre, PermissionChangesAre, ParentChangesAre DEF OfKind, PermissionsBoth, InheritingOnly
<1> QED
  BY <1>1, <1>2

(* What is told as added, or as removed, came. *)
LEMMA AddedCame ==
  ASSUME NEW from, NEW to, NEW f
  PROVE  f \in Told(DiffModels(from, to), TRUE) <=> Came(f, from, to)
<1> DEFINE d == DiffModels(from, to)
           both == Shared(from, to)
           L1 == \E c \in OfKind(d, "TYPE_ADDED") : f = <<"type", c.type>>
           R1 == \E t \in TypesOnly(to, from) : f = <<"type", t>>
           L2 == \E c \in OfKind(d, "ROLE_ADDED") : f = <<"role", c.type, c.role>>
           R2 == \E n \in both : \E x \in RolesOnly(to, from, n) : f = <<"role", n, x>>
           L3 == \E c \in OfKind(d, "PERMISSION_ADDED") : f = <<"permission", c.type, c.permission>>
           R3 == \E n \in both : \E x \in PermissionsOnly(to, from, n) : f = <<"permission", n, x>>
           L4 == \E c \in OfKind(d, "PARENT_ADDED") : f = <<"parent", c.type, c.pair>>
           R4 == \E n \in both : \E x \in PairsOnly(to, from, n) : f = <<"parent", n, x>>
           L5 == \E c \in OfKind(d, "ROLE_ASSIGNABLE_CHANGED") : \E k \in c.added : f = <<"subject", c.type, c.role, k>>
           R5 == \E n \in both : \E x \in RolesBoth(from, to, n) :
                   \E k \in AssignableOnly(to, from, n, x) : f = <<"subject", n, x, k>>
           L6 == \E c \in OfKind(d, "GRANT_CHANGED") : \E k \in c.added : f = <<"grant", c.type, c.permission, k>>
           R6 == \E n \in both : \E x \in PermissionsBoth(from, to, n) :
                   \E k \in GrantingOnly(to, from, n, x) : f = <<"grant", n, x, k>>
           L7 == \E c \in OfKind(d, "PERMISSION_INHERIT_CHANGED") : \E k \in c.added : f = <<"inherit", c.type, c.permission, k>>
           R7 == \E n \in both : \E x \in PermissionsBoth(from, to, n) :
                   \E k \in InheritingOnly(to, from, n, x) : f = <<"inherit", n, x, k>>
<1>1. L1 <=> R1
  BY TypesOfKind
<1>2. L2 <=> R2
  BY RolesOfKind
<1>3. L3 <=> R3
  BY PermissionsOfKind
<1>4. L4 <=> R4
  BY ParentsOfKind
<1>5. L5 <=> R5
  BY AssignablesOfKind
<1>6. L6 <=> R6
  BY GrantsOfKind
<1>7. L7 <=> R7
  BY InheritsOfKind
<1>8. f \in Told(DiffModels(from, to), TRUE) <=> L1 \/ L2 \/ L3 \/ L4 \/ L5 \/ L6 \/ L7
  BY DEF Told, OfKind
<1>9. Came(f, from, to) <=> R1 \/ R2 \/ R3 \/ R4 \/ R5 \/ R6 \/ R7
  BY DEF Came
<1> HIDE DEF d, L1, L2, L3, L4, L5, L6, L7, R1, R2, R3, R4, R5, R6, R7
<1> QED
  BY <1>1, <1>2, <1>3, <1>4, <1>5, <1>6, <1>7, <1>8, <1>9, Zenon

LEMMA RemovedCame ==
  ASSUME NEW from, NEW to, NEW f
  PROVE  f \in Told(DiffModels(from, to), FALSE) <=> Came(f, to, from)
<1> DEFINE d == DiffModels(from, to)
           both == Shared(from, to)
           L1 == \E c \in OfKind(d, "TYPE_REMOVED") : f = <<"type", c.type>>
           R1 == \E t \in TypesOnly(from, to) : f = <<"type", t>>
           L2 == \E c \in OfKind(d, "ROLE_REMOVED") : f = <<"role", c.type, c.role>>
           R2 == \E n \in both : \E x \in RolesOnly(from, to, n) : f = <<"role", n, x>>
           L3 == \E c \in OfKind(d, "PERMISSION_REMOVED") : f = <<"permission", c.type, c.permission>>
           R3 == \E n \in both : \E x \in PermissionsOnly(from, to, n) : f = <<"permission", n, x>>
           L4 == \E c \in OfKind(d, "PARENT_REMOVED") : f = <<"parent", c.type, c.pair>>
           R4 == \E n \in both : \E x \in PairsOnly(from, to, n) : f = <<"parent", n, x>>
           L5 == \E c \in OfKind(d, "ROLE_ASSIGNABLE_CHANGED") : \E k \in c.removed : f = <<"subject", c.type, c.role, k>>
           R5 == \E n \in both : \E x \in RolesBoth(from, to, n) :
                   \E k \in AssignableOnly(from, to, n, x) : f = <<"subject", n, x, k>>
           L6 == \E c \in OfKind(d, "GRANT_CHANGED") : \E k \in c.removed : f = <<"grant", c.type, c.permission, k>>
           R6 == \E n \in both : \E x \in PermissionsBoth(from, to, n) :
                   \E k \in GrantingOnly(from, to, n, x) : f = <<"grant", n, x, k>>
           L7 == \E c \in OfKind(d, "PERMISSION_INHERIT_CHANGED") : \E k \in c.removed : f = <<"inherit", c.type, c.permission, k>>
           R7 == \E n \in both : \E x \in PermissionsBoth(from, to, n) :
                   \E k \in InheritingOnly(from, to, n, x) : f = <<"inherit", n, x, k>>
<1>1. L1 <=> R1
  BY TypesOfKind
<1>2. L2 <=> R2
  BY RolesOfKind
<1>3. L3 <=> R3
  BY PermissionsOfKind
<1>4. L4 <=> R4
  BY ParentsOfKind
<1>5. L5 <=> R5
  BY AssignablesOfKind
<1>6. L6 <=> R6
  BY GrantsOfKind
<1>7. L7 <=> R7
  BY InheritsOfKind
<1>8. f \in Told(DiffModels(from, to), FALSE) <=> L1 \/ L2 \/ L3 \/ L4 \/ L5 \/ L6 \/ L7
  BY DEF Told, OfKind
<1>9. Came(f, to, from) <=> R1 \/ R2 \/ R3 \/ R4 \/ R5 \/ R6 \/ R7
  <2>1. /\ Shared(from, to) = Shared(to, from)
        /\ \A n : RolesBoth(from, to, n) = RolesBoth(to, from, n)
        /\ \A n : PermissionsBoth(from, to, n) = PermissionsBoth(to, from, n)
    BY DEF Shared, RolesBoth, PermissionsBoth
  <2> QED
    BY <2>1 DEF Came
<1> HIDE DEF d, L1, L2, L3, L4, L5, L6, L7, R1, R2, R3, R4, R5, R6, R7
<1> QED
  BY <1>1, <1>2, <1>3, <1>4, <1>5, <1>6, <1>7, <1>8, <1>9, Zenon

(* What a model has and the other has not, and did not come with what it
   belongs to, came. *)
LEMMA OnlyInCame ==
  ASSUME NEW from, NEW to, Orderly(from), Orderly(to), KindKept(from, to), NEW f
  PROVE  f \in OnlyIn(to, from) <=> Came(f, from, to)
<1> DEFINE both == Shared(from, to)
<1>1. \A n \in NameSet(to.resources) : <<"type", n>> \in Facts(from) <=> n \in both
  BY TypeFacts DEF TypeNames, KindKept, Shared
<1>2. \A n, m, k :
        /\ Owner(<<"role", n, m>>) = <<"type", n>>
        /\ Owner(<<"permission", n, m>>) = <<"type", n>>
        /\ Owner(<<"parent", n, m>>) = <<"type", n>>
        /\ Owner(<<"subject", n, m, k>>) = <<"role", n, m>>
        /\ Owner(<<"grant", n, m, k>>) = <<"permission", n, m>>
        /\ Owner(<<"inherit", n, m, k>>) = <<"permission", n, m>>
  BY DEF Owner
<1>3. f \in Facts(to) => \/ \E t : f = <<"type", t>>
                         \/ \E n, m : f \in {<<"role", n, m>>, <<"permission", n, m>>, <<"parent", n, m>>}
                         \/ \E n, m, k : f \in {<<"subject", n, m, k>>, <<"grant", n, m, k>>, <<"inherit", n, m, k>>}
  BY FactsAre, ResourceFactsAre
<1>4. ASSUME NEW t, f = <<"type", t>> PROVE f \in OnlyIn(to, from) <=> Came(f, from, to)
  <2>1. f \in OnlyIn(to, from) <=> t \in TypesOnly(to, from)
    BY <1>4, TypeFacts DEF OnlyIn, TypesOnly
  <2> QED
    BY <1>4, <2>1 DEF Came
<1>5. ASSUME NEW n, NEW m, f = <<"role", n, m>> PROVE f \in OnlyIn(to, from) <=> Came(f, from, to)
  <2>1. f \in OnlyIn(to, from) <=> f \in Facts(to) /\ f \notin Facts(from) /\ <<"type", n>> \in Facts(from)
    BY <1>2, <1>5 DEF OnlyIn
  <2>2. f \in OnlyIn(to, from) <=> n \in both /\ m \in RolesOnly(to, from, n)
    BY <1>1, <1>5, <2>1, RoleNamesInFacts DEF Shared, RolesOnly
  <2> QED
    BY <1>5, <2>2 DEF Came
<1>6. ASSUME NEW n, NEW m, f = <<"permission", n, m>> PROVE f \in OnlyIn(to, from) <=> Came(f, from, to)
  <2>1. f \in OnlyIn(to, from) <=> f \in Facts(to) /\ f \notin Facts(from) /\ <<"type", n>> \in Facts(from)
    BY <1>2, <1>6 DEF OnlyIn
  <2>2. f \in OnlyIn(to, from) <=> n \in both /\ m \in PermissionsOnly(to, from, n)
    BY <1>1, <1>6, <2>1, PermissionNamesInFacts DEF Shared, PermissionsOnly
  <2> QED
    BY <1>6, <2>2 DEF Came
<1>7. ASSUME NEW n, NEW m, f = <<"parent", n, m>> PROVE f \in OnlyIn(to, from) <=> Came(f, from, to)
  <2>1. f \in OnlyIn(to, from) <=> f \in Facts(to) /\ f \notin Facts(from) /\ <<"type", n>> \in Facts(from)
    BY <1>2, <1>7 DEF OnlyIn
  <2>2. f \in OnlyIn(to, from) <=> n \in both /\ m \in PairsOnly(to, from, n)
    BY <1>1, <1>7, <2>1, PairsInFacts DEF Shared, PairsOnly
  <2> QED
    BY <1>7, <2>2 DEF Came
<1>8. ASSUME NEW n, NEW m, NEW k, f = <<"subject", n, m, k>> PROVE f \in OnlyIn(to, from) <=> Came(f, from, to)
  <2>1. f \in OnlyIn(to, from) <=> f \in Facts(to) /\ f \notin Facts(from) /\ <<"role", n, m>> \in Facts(from)
    BY <1>2, <1>8 DEF OnlyIn
  <2>2. f \in OnlyIn(to, from) <=> n \in both /\ m \in RolesBoth(from, to, n) /\ k \in AssignableOnly(to, from, n, m)
    BY <1>1, <1>8, <2>1, AssignableInFacts, RoleNamesInFacts DEF Shared, RolesBoth, AssignableOnly
  <2> QED
    BY <1>8, <2>2 DEF Came
<1>9. ASSUME NEW n, NEW m, NEW k, f = <<"grant", n, m, k>> PROVE f \in OnlyIn(to, from) <=> Came(f, from, to)
  <2>1. f \in OnlyIn(to, from) <=> f \in Facts(to) /\ f \notin Facts(from) /\ <<"permission", n, m>> \in Facts(from)
    BY <1>2, <1>9 DEF OnlyIn
  <2>2. f \in OnlyIn(to, from) <=> n \in both /\ m \in PermissionsBoth(from, to, n) /\ k \in GrantingOnly(to, from, n, m)
    BY <1>1, <1>9, <2>1, GrantingInFacts, PermissionNamesInFacts DEF Shared, PermissionsBoth, GrantingOnly
  <2> QED
    BY <1>9, <2>2 DEF Came
<1>10. ASSUME NEW n, NEW m, NEW k, f = <<"inherit", n, m, k>> PROVE f \in OnlyIn(to, from) <=> Came(f, from, to)
  <2>1. f \in OnlyIn(to, from) <=> f \in Facts(to) /\ f \notin Facts(from) /\ <<"permission", n, m>> \in Facts(from)
    BY <1>2, <1>10 DEF OnlyIn
  <2>2. f \in OnlyIn(to, from) <=> n \in both /\ m \in PermissionsBoth(from, to, n) /\ k \in InheritingOnly(to, from, n, m)
    BY <1>1, <1>10, <2>1, InheritingInFacts, PermissionNamesInFacts DEF Shared, PermissionsBoth, InheritingOnly
  <2> QED
    BY <1>10, <2>2 DEF Came
<1>11. Came(f, from, to) => \/ \E t : f = <<"type", t>>
                            \/ \E n, m : f \in {<<"role", n, m>>, <<"permission", n, m>>, <<"parent", n, m>>}
                            \/ \E n, m, k : f \in {<<"subject", n, m, k>>, <<"grant", n, m, k>>, <<"inherit", n, m, k>>}
  BY DEF Came
<1>12. f \in OnlyIn(to, from) => f \in Facts(to)
  BY DEF OnlyIn
<1> QED
  BY <1>3, <1>4, <1>5, <1>6, <1>7, <1>8, <1>9, <1>10, <1>11, <1>12

-----------------------------------------------------------------------------
DiffInv ==
  /\ comparison.from \in Stored /\ comparison.to \in Stored
  /\ comparison.at = "told" => comparison.changes = DiffModels(comparison.from, comparison.to)

LEMMA StoredOrderly ==
  ASSUME NEW ir \in Stored
  PROVE  Orderly(ir)
BY StoredAssumption, ValidNames, ValidRelations DEF Orderly

LEMMA DiffInvTells == DiffInv => DiffTellsEveryChange
<1> DEFINE from == comparison.from
           to == comparison.to
<1> SUFFICES ASSUME DiffInv, comparison.at = "told", KindKept(from, to)
             PROVE  /\ Told(comparison.changes, TRUE) = OnlyIn(to, from)
                    /\ Told(comparison.changes, FALSE) = OnlyIn(from, to)
  BY DEF DiffTellsEveryChange
<1>1. /\ Orderly(from) /\ Orderly(to) /\ KindKept(to, from)
      /\ comparison.changes = DiffModels(from, to)
  BY StoredOrderly DEF DiffInv, KindKept
<1> HIDE DEF from, to
<1>2. \A f : f \in Told(comparison.changes, TRUE) <=> f \in OnlyIn(to, from)
  BY <1>1, AddedCame, OnlyInCame
<1>3. \A f : f \in Told(comparison.changes, FALSE) <=> f \in OnlyIn(from, to)
  BY <1>1, RemovedCame, OnlyInCame
<1>4. /\ Told(comparison.changes, TRUE) \subseteq OnlyIn(to, from) /\ OnlyIn(to, from) \subseteq Told(comparison.changes, TRUE)
      /\ Told(comparison.changes, FALSE) \subseteq OnlyIn(from, to) /\ OnlyIn(from, to) \subseteq Told(comparison.changes, FALSE)
  BY <1>2, <1>3
<1> QED
  BY <1>4

(* The diff of two published versions tells every difference between them,
   once and on the right side, and nothing else, whatever the models. *)
THEOREM DiffIsComplete == DiffSpec => []DiffTellsEveryChange
<1>1. DiffInit => DiffInv
  BY DEF DiffInit, DiffInv
<1>2. DiffInv /\ [CompareVersions]_comparison => DiffInv'
  <2>1. ASSUME DiffInv, CompareVersions PROVE DiffInv'
    BY <2>1 DEF DiffInv, CompareVersions
  <2>2. ASSUME DiffInv, UNCHANGED comparison PROVE DiffInv'
    BY <2>2 DEF DiffInv
  <2> QED
    BY <2>1, <2>2
<1> QED
  BY <1>1, <1>2, DiffInvTells, PTL DEF DiffSpec

-----------------------------------------------------------------------------
(* The DSL of a model, as sets. *)
LEMMA FunctionIsList ==
  ASSUME NEW n \in Nat, NEW X, NEW m \in [1..n -> X]
  PROVE  m \in Seq(X) /\ \A x : x \in ToSet(m) <=> \E i \in 1..n : x = m[i]
<1>1. m \in Seq(X) /\ DOMAIN m = 1..n
  OBVIOUS
<1> QED
  BY <1>1 DEF ToSet

LEMMA ConcatSet ==
  ASSUME NEW X, NEW s \in Seq(X), NEW t \in Seq(X)
  PROVE  s \o t \in Seq(X) /\ ToSet(s \o t) = ToSet(s) \cup ToSet(t)
<1> DEFINE u == s \o t
<1>1. /\ Len(s) \in Nat /\ Len(t) \in Nat /\ DOMAIN s = 1..Len(s) /\ DOMAIN t = 1..Len(t)
      /\ DOMAIN u = 1..(Len(s) + Len(t)) /\ u \in Seq(X)
      /\ \A i \in 1..Len(s) : u[i] = s[i]
      /\ \A i \in 1..Len(t) : u[Len(s) + i] = t[i]
  OBVIOUS
<1> HIDE DEF u
<1>2. \A i \in 1..Len(t) : Len(s) + i \in DOMAIN u
  BY <1>1
<1>3. ToSet(u) \subseteq ToSet(s) \cup ToSet(t)
  <2> SUFFICES ASSUME NEW k \in DOMAIN u PROVE u[k] \in ToSet(s) \cup ToSet(t)
    BY DEF ToSet
  <2>1. CASE k <= Len(s)
    BY <1>1, <2>1 DEF ToSet
  <2>2. CASE k > Len(s)
    <3>1. k - Len(s) \in 1..Len(t) /\ Len(s) + (k - Len(s)) = k
      BY <1>1, <2>2
    <3> QED
      BY <1>1, <3>1 DEF ToSet
  <2> QED
    BY <1>1, <2>1, <2>2
<1>4. ToSet(s) \subseteq ToSet(u)
  BY <1>1 DEF ToSet
<1>5. ToSet(t) \subseteq ToSet(u)
  BY <1>1, <1>2 DEF ToSet
<1> QED
  BY <1>1, <1>3, <1>4, <1>5 DEF u

LEMMA Concat3Set ==
  ASSUME NEW X, NEW s \in Seq(X), NEW t \in Seq(X), NEW u \in Seq(X)
  PROVE  ToSet((s \o t) \o u) = (ToSet(s) \cup ToSet(t)) \cup ToSet(u)
<1> DEFINE st == s \o t
<1>1. st \in Seq(X) /\ ToSet(st) = ToSet(s) \cup ToSet(t)
  BY ConcatSet
<1> HIDE DEF st
<1>2. ToSet(st \o u) = ToSet(st) \cup ToSet(u)
  BY <1>1, ConcatSet
<1> QED
  BY <1>1, <1>2 DEF st

UserType == [name |-> "user", relations |-> <<>>]

LEMMA EmittedTypes ==
  ASSUME NEW ir \in ModelIRs
  PROVE  \A t : t \in ToSet(EmitDsl(ir)) <=>
           \/ t = UserType
           \/ \E g \in ToSet(ir.groups) : t = GroupTypeOf(g)
           \/ \E r \in ToSet(ir.resources) : t = ResourceTypeOf(r)
<1> DEFINE U == <<UserType>>
           G == [i \in DOMAIN ir.groups |-> GroupTypeOf(ir.groups[i])]
           R == [i \in DOMAIN ir.resources |-> ResourceTypeOf(ir.resources[i])]
           X == {UserType} \cup {GroupTypeOf(g) : g \in ToSet(ir.groups)}
                \cup {ResourceTypeOf(r) : r \in ToSet(ir.resources)}
<1>1. /\ Len(ir.groups) \in Nat /\ DOMAIN ir.groups = 1..Len(ir.groups)
      /\ Len(ir.resources) \in Nat /\ DOMAIN ir.resources = 1..Len(ir.resources)
  BY IrRecords
<1>2. /\ \A i \in 1..Len(ir.groups) : ir.groups[i] \in ToSet(ir.groups)
      /\ \A i \in 1..Len(ir.resources) : ir.resources[i] \in ToSet(ir.resources)
  BY <1>1 DEF ToSet
<1>3. G \in [1..Len(ir.groups) -> X] /\ R \in [1..Len(ir.resources) -> X]
  BY <1>1, <1>2
<1>4. /\ \A t : t \in ToSet(G) <=> \E g \in ToSet(ir.groups) : t = GroupTypeOf(g)
      /\ \A t : t \in ToSet(R) <=> \E r \in ToSet(ir.resources) : t = ResourceTypeOf(r)
  BY <1>1 DEF ToSet
<1>5. U \in Seq(X) /\ \A t : t \in ToSet(U) <=> t = UserType
  BY DEF ToSet
<1>6. G \in Seq(X) /\ R \in Seq(X)
  BY <1>1, <1>3, FunctionIsList
<1>7. EmitDsl(ir) = (U \o G) \o R
  BY DEF EmitDsl, UserType
<1> HIDE DEF U, G, R, X
<1>8. ToSet(EmitDsl(ir)) = (ToSet(U) \cup ToSet(G)) \cup ToSet(R)
  BY <1>5, <1>6, <1>7, Concat3Set
<1> QED
  BY <1>4, <1>5, <1>8

ParentRelation(p) == DirectRelation(p.relationName, ParentSubjects(p.parentTypes))
RoleRelation(role) == DirectRelation(role.name, SubjectsOf(role.assignableBy))

LEMMA EmittedRelations ==
  ASSUME NEW r \in ResourceTypes
  PROVE  \A rel : rel \in ToSet(ResourceTypeOf(r).relations) <=>
           \/ \E p \in ToSet(r.parents) : rel = ParentRelation(p)
           \/ \E role \in ToSet(r.roles) : rel = RoleRelation(role)
           \/ \E p \in ToSet(r.permissions) : rel = PermissionRelation(p)
<1> DEFINE P == [i \in DOMAIN r.parents |-> DirectRelation(r.parents[i].relationName,
                                                           ParentSubjects(r.parents[i].parentTypes))]
           R == [i \in DOMAIN r.roles |-> DirectRelation(r.roles[i].name, SubjectsOf(r.roles[i].assignableBy))]
           E == [i \in DOMAIN r.permissions |-> PermissionRelation(r.permissions[i])]
           X == {ParentRelation(p) : p \in ToSet(r.parents)} \cup {RoleRelation(x) : x \in ToSet(r.roles)}
                \cup {PermissionRelation(p) : p \in ToSet(r.permissions)}
<1>1. /\ Len(r.parents) \in Nat /\ DOMAIN r.parents = 1..Len(r.parents)
      /\ Len(r.roles) \in Nat /\ DOMAIN r.roles = 1..Len(r.roles)
      /\ Len(r.permissions) \in Nat /\ DOMAIN r.permissions = 1..Len(r.permissions)
  BY ResourceRecords
<1>2. /\ \A i \in 1..Len(r.parents) : r.parents[i] \in ToSet(r.parents)
      /\ \A i \in 1..Len(r.roles) : r.roles[i] \in ToSet(r.roles)
      /\ \A i \in 1..Len(r.permissions) : r.permissions[i] \in ToSet(r.permissions)
  BY <1>1 DEF ToSet
<1>3. /\ P \in [1..Len(r.parents) -> X] /\ R \in [1..Len(r.roles) -> X] /\ E \in [1..Len(r.permissions) -> X]
  BY <1>1, <1>2 DEF ParentRelation, RoleRelation
<1>4. /\ \A x : x \in ToSet(P) <=> \E p \in ToSet(r.parents) : x = ParentRelation(p)
      /\ \A x : x \in ToSet(R) <=> \E role \in ToSet(r.roles) : x = RoleRelation(role)
      /\ \A x : x \in ToSet(E) <=> \E p \in ToSet(r.permissions) : x = PermissionRelation(p)
  BY <1>1 DEF ToSet, ParentRelation, RoleRelation
<1>5. P \in Seq(X) /\ R \in Seq(X) /\ E \in Seq(X)
  BY <1>1, <1>3, FunctionIsList
<1>6. ResourceTypeOf(r).relations = (P \o R) \o E
  BY DEF ResourceTypeOf
<1> HIDE DEF P, R, E, X
<1>7. ToSet(ResourceTypeOf(r).relations) = (ToSet(P) \cup ToSet(R)) \cup ToSet(E)
  BY <1>5, <1>6, Concat3Set
<1> QED
  BY <1>4, <1>7

LEMMA EmittedSubjects ==
  ASSUME NEW refs
  PROVE  \A s : s \in ToSet(SubjectsOf(refs)) <=> \E ref \in ToSet(refs) : s = SubjectOf(ref)
BY DEF ToSet, SubjectsOf

-----------------------------------------------------------------------------
(* A tuple is taken exactly when a reference of the relation is for it. *)
LEMMA RefRecords ==
  ASSUME NEW ir \in ModelIRs
  PROVE  /\ \A g \in ToSet(ir.groups) : ToSet(g.memberTypes) \subseteq SubjectRefs
         /\ \A r \in ToSet(ir.resources) : \A role \in ToSet(r.roles) : ToSet(role.assignableBy) \subseteq SubjectRefs
<1>1. \A g \in GroupTypes : g.memberTypes \in Seq(SubjectRefs)
  BY DEF GroupTypes
<1>2. \A role \in Roles : role.assignableBy \in Seq(SubjectRefs)
  BY DEF Roles
<1>3. \A refs \in Seq(SubjectRefs) : ToSet(refs) \subseteq SubjectRefs
  BY DEF ToSet
<1> QED
  BY <1>1, <1>2, <1>3, IrRecords, ResourceRecords

LEMMA SubjectMatches ==
  ASSUME NEW ref \in SubjectRefs, NEW s, NEW c
  PROVE  SubjectMatchesRef(ref, s) /\ ref.condition = c <=>
           [type |-> s.type, relation |-> s.relation, condition |-> c] = SubjectOf(ref)
BY DEF SubjectRefs, SubjectMatchesRef, SubjectOf

(* The references of a relation of a type, where it is a role of a resource
   type or the members of a group; none otherwise. *)
LEMMA AssignableOf ==
  ASSUME NEW ir \in ModelIRs, ModelErrors(ir) = {}, NEW type, NEW relation
  PROVE  /\ \A r \in ToSet(ir.resources) : r.name = type =>
              AssignableSubjects(ir, type, relation) =
                {ToSet(role.assignableBy) : role \in {x \in ToSet(r.roles) : x.name = relation}}
         /\ \A g \in ToSet(ir.groups) : g.name = type =>
              AssignableSubjects(ir, type, relation) =
                IF relation = "member" THEN {ToSet(g.memberTypes)} ELSE {}
         /\ type \notin NameSet(ir.groups) \cup NameSet(ir.resources) =>
              AssignableSubjects(ir, type, relation) = {}
<1>1. ASSUME NEW r \in ToSet(ir.resources), r.name = type
      PROVE  AssignableSubjects(ir, type, relation) =
               {ToSet(role.assignableBy) : role \in {x \in ToSet(r.roles) : x.name = relation}}
  <2>1. type \in NameSet(ir.resources) /\ (CHOOSE x \in ToSet(ir.resources) : x.name = type) = r
    BY <1>1, ValidNames, NameSetIs DEF Unique
  <2>2. AssignableSubjects(ir, type, relation) =
          IF relation \in NameSet(r.roles)
          THEN {ToSet((CHOOSE x \in ToSet(r.roles) : x.name = relation).assignableBy)} ELSE {}
    BY <2>1 DEF AssignableSubjects
  <2>3. CASE relation \in NameSet(r.roles)
    <3>1. PICK x \in ToSet(r.roles) : x.name = relation
      BY <2>3 DEF NameSet, ToSet
    <3>2. \A y \in ToSet(r.roles) : y.name = relation => y = x
      BY <3>1, ValidRelations DEF Unique
    <3>3. (CHOOSE y \in ToSet(r.roles) : y.name = relation) = x
      BY <3>1, <3>2
    <3>4. {y \in ToSet(r.roles) : y.name = relation} = {x}
      BY <3>1, <3>2
    <3> QED
      BY <2>2, <2>3, <3>3, <3>4
  <2>4. CASE relation \notin NameSet(r.roles)
    BY <2>2, <2>4, NameSetIs
  <2> QED
    BY <2>3, <2>4
<1>2. ASSUME NEW g \in ToSet(ir.groups), g.name = type
      PROVE  AssignableSubjects(ir, type, relation) = IF relation = "member" THEN {ToSet(g.memberTypes)} ELSE {}
  <2>1. /\ type \in NameSet(ir.groups) /\ type \notin NameSet(ir.resources)
        /\ (CHOOSE x \in ToSet(ir.groups) : x.name = type) = g
    BY <1>2, ValidNames, NameSetIs DEF Unique
  <2> QED
    BY <2>1 DEF AssignableSubjects
<1>3. type \notin NameSet(ir.groups) \cup NameSet(ir.resources) => AssignableSubjects(ir, type, relation) = {}
  BY DEF AssignableSubjects
<1> QED
  BY <1>1, <1>2, <1>3

Fits(ir, req) == \E ref \in Candidates(ir, req) : ref.condition = req.condition
IsParentRelation(ir, req) ==
  \E r \in ToSet(ir.resources) : r.name = req.resource.type /\ \E p \in ToSet(r.parents) : p.relationName = req.relation

(* What OpenFGA has under a name that is not a parent relation. *)
LEMMA RelationsOfResource ==
  ASSUME NEW ir \in ModelIRs, ModelErrors(ir) = {}, NEW r \in ToSet(ir.resources), NEW relation,
         \A p \in ToSet(r.parents) : p.relationName # relation
  PROVE  LET t == ResourceTypeOf(r)
         IN /\ t.name = r.name
            /\ \A role \in ToSet(r.roles) : role.name = relation =>
                 /\ relation \in NameSet(t.relations)
                 /\ ToSet(RelationOf(t, relation).subjects) = ToSet(SubjectsOf(role.assignableBy))
            /\ (\A role \in ToSet(r.roles) : role.name # relation) /\ relation \in NameSet(t.relations) =>
                 ToSet(RelationOf(t, relation).subjects) = {}
<1> DEFINE t == ResourceTypeOf(r)
<1>1. t.name = r.name
  BY DEF ResourceTypeOf
<1>2. \A rel : rel \in ToSet(t.relations) <=>
           \/ \E p \in ToSet(r.parents) : rel = ParentRelation(p)
           \/ \E role \in ToSet(r.roles) : rel = RoleRelation(role)
           \/ \E p \in ToSet(r.permissions) : rel = PermissionRelation(p)
  BY IrRecords, EmittedRelations
<1> HIDE DEF t
<1>3. /\ \A p \in ToSet(r.parents) : ParentRelation(p).name = p.relationName
      /\ \A x \in ToSet(r.roles) : RoleRelation(x).name = x.name /\ RoleRelation(x).subjects = SubjectsOf(x.assignableBy)
      /\ \A p \in ToSet(r.permissions) : PermissionRelation(p).name = CanName[p.name] /\ PermissionRelation(p).subjects = <<>>
  BY DEF ParentRelation, RoleRelation, PermissionRelation, DirectRelation
<1>4. ASSUME NEW role \in ToSet(r.roles), role.name = relation
      PROVE  /\ relation \in NameSet(t.relations)
             /\ ToSet(RelationOf(t, relation).subjects) = ToSet(SubjectsOf(role.assignableBy))
  <2>1. RoleRelation(role) \in ToSet(t.relations) /\ RoleRelation(role).name = relation
    BY <1>2, <1>3, <1>4
  <2>2. ASSUME NEW rel \in ToSet(t.relations), rel.name = relation PROVE rel = RoleRelation(role)
    <3>1. CASE \E p \in ToSet(r.parents) : rel = ParentRelation(p)
      BY <1>3, <2>2, <3>1
    <3>2. CASE \E x \in ToSet(r.roles) : rel = RoleRelation(x)
      <4>1. PICK x \in ToSet(r.roles) : rel = RoleRelation(x)
        BY <3>2
      <4>2. x.name = role.name
        BY <1>3, <1>4, <2>2, <4>1
      <4> QED
        BY <4>1, <4>2, ValidRelations DEF Unique
    <3>3. CASE \E p \in ToSet(r.permissions) : rel = PermissionRelation(p)
      <4>1. PICK p \in ToSet(r.permissions) : rel = PermissionRelation(p)
        BY <3>3
      <4>2. CanName[p.name] = role.name
        BY <1>3, <1>4, <2>2, <4>1
      <4> QED
        BY <4>2, ValidRelations
    <3> QED
      BY <1>2, <3>1, <3>2, <3>3
  <2>3. RelationOf(t, relation) = RoleRelation(role)
    BY <2>1, <2>2 DEF RelationOf
  <2> QED
    BY <1>3, <2>1, <2>3, NameSetIs
<1>5. ASSUME \A role \in ToSet(r.roles) : role.name # relation, relation \in NameSet(t.relations)
      PROVE  ToSet(RelationOf(t, relation).subjects) = {}
  <2>1. \E rel \in ToSet(t.relations) : rel.name = relation
    BY <1>5 DEF NameSet, ToSet
  <2>2. RelationOf(t, relation) \in ToSet(t.relations) /\ RelationOf(t, relation).name = relation
    BY <2>1 DEF RelationOf
  <2>3. PICK p \in ToSet(r.permissions) : RelationOf(t, relation) = PermissionRelation(p)
    <3>1. ASSUME NEW x \in ToSet(r.parents), RelationOf(t, relation) = ParentRelation(x) PROVE FALSE
      BY <1>3, <2>2, <3>1
    <3>2. ASSUME NEW x \in ToSet(r.roles), RelationOf(t, relation) = RoleRelation(x) PROVE FALSE
      BY <1>3, <1>5, <2>2, <3>2
    <3> QED
      BY <1>2, <2>2, <3>1, <3>2
  <2>4. RelationOf(t, relation).subjects = <<>>
    BY <1>3, <2>3
  <2> QED
    BY <2>4 DEF ToSet
<1> QED
  BY <1>1, <1>4, <1>5 DEF t

LEMMA RelationOfGroup ==
  ASSUME NEW g, NEW relation
  PROVE  LET t == GroupTypeOf(g)
         IN /\ t.name = g.name
            /\ relation \in NameSet(t.relations) <=> relation = "member"
            /\ RelationOf(t, "member").subjects = SubjectsOf(g.memberTypes)
<1> DEFINE t == GroupTypeOf(g)
           m == DirectRelation("member", SubjectsOf(g.memberTypes))
<1>1. t.name = g.name /\ t.relations = <<m>> /\ m.name = "member" /\ m.subjects = SubjectsOf(g.memberTypes)
  BY DEF GroupTypeOf, DirectRelation
<1> HIDE DEF m, t
<1>2. ToSet(t.relations) = {m} /\ NameSet(t.relations) = {"member"}
  BY <1>1 DEF ToSet, NameSet
<1>3. RelationOf(t, "member") = m
  BY <1>1, <1>2 DEF RelationOf
<1> QED
  BY <1>1, <1>2, <1>3 DEF t

(* The references of a valid model. *)
LEMMA NoSubjectErrors ==
  ASSUME NEW ir, NEW refs, SubjectErrors(ir, refs) = {}
  PROVE  /\ refs # <<>>
         /\ \A ref \in ToSet(refs) : /\ ref.kind = "group" => ref.group \in NameSet(ir.groups)
                                     /\ ref.condition \in {"none"} \cup ToSet(ir.conditions)
BY DEF SubjectErrors, When

LEMMA ValidRefs ==
  ASSUME NEW ir \in ModelIRs, ModelErrors(ir) = {}
  PROVE  /\ \A g \in ToSet(ir.groups) : SubjectErrors(ir, g.memberTypes) = {}
         /\ \A r \in ToSet(ir.resources) : \A role \in ToSet(r.roles) : SubjectErrors(ir, role.assignableBy) = {}
         /\ ToSet(ir.conditions) \cap BadName = {} /\ ~Repeats(ir.conditions)
<1>1. \A g \in ToSet(ir.groups) : SubjectErrors(ir, g.memberTypes) \subseteq ModelErrors(ir)
  BY DEF ModelErrors
<1>2. ASSUME NEW r \in ToSet(ir.resources), NEW role \in ToSet(r.roles)
      PROVE  SubjectErrors(ir, role.assignableBy) = {}
  <2>1. ResourceErrors(ir, r) \subseteq ModelErrors(ir)
    BY DEF ModelErrors
  <2>2. RoleErrors(ir, role) \subseteq ResourceErrors(ir, r)
    BY DEF ResourceErrors
  <2>3. SubjectErrors(ir, role.assignableBy) \subseteq RoleErrors(ir, role)
    BY DEF RoleErrors
  <2> QED
    BY <2>1, <2>2, <2>3
<1>3. ToSet(ir.conditions) \cap BadName = {} /\ ~Repeats(ir.conditions)
  BY DEF ModelErrors, When
<1> QED
  BY <1>1, <1>2, <1>3

SubjectWith(req) ==
  [type |-> req.subject.type, relation |-> req.subject.relation, condition |-> req.condition]

LEMMA FitsMeans ==
  ASSUME NEW ir \in ModelIRs, ModelErrors(ir) = {}, NEW req
  PROVE  LET A == UNION AssignableSubjects(ir, req.resource.type, req.relation)
         IN /\ A \subseteq SubjectRefs
            /\ \A ref \in A : ref.condition \in {"none"} \cup ToSet(ir.conditions)
            /\ Fits(ir, req) <=> \E ref \in A : SubjectWith(req) = SubjectOf(ref)
<1> DEFINE A == UNION AssignableSubjects(ir, req.resource.type, req.relation)
<1>1. ASSUME NEW ref \in A PROVE ref \in SubjectRefs /\ ref.condition \in {"none"} \cup ToSet(ir.conditions)
  <2>1. PICK refs \in AssignableSubjects(ir, req.resource.type, req.relation) : ref \in refs
    BY <1>1
  <2>2. req.resource.type \in NameSet(ir.groups) \cup NameSet(ir.resources)
    BY <2>1, AssignableOf
  <2>3. CASE req.resource.type \in NameSet(ir.resources)
    <3>1. PICK r \in ToSet(ir.resources) : r.name = req.resource.type
      BY <2>3 DEF NameSet, ToSet
    <3>2. PICK role \in ToSet(r.roles) : refs = ToSet(role.assignableBy)
      BY <2>1, <3>1, AssignableOf
    <3> QED
      BY <2>1, <3>1, <3>2, RefRecords, ValidRefs, NoSubjectErrors
  <2>4. CASE req.resource.type \in NameSet(ir.groups)
    <3>1. PICK g \in ToSet(ir.groups) : g.name = req.resource.type
      BY <2>4 DEF NameSet, ToSet
    <3>2. refs = ToSet(g.memberTypes)
      BY <2>1, <3>1, AssignableOf
    <3> QED
      BY <2>1, <3>1, <3>2, RefRecords, ValidRefs, NoSubjectErrors
  <2> QED
    BY <2>2, <2>3, <2>4
<1>2. Fits(ir, req) <=> \E ref \in A : SubjectMatchesRef(ref, req.subject) /\ ref.condition = req.condition
  BY DEF Fits, Candidates
<1> HIDE DEF A
<1>3. \A ref \in A : SubjectMatchesRef(ref, req.subject) /\ ref.condition = req.condition <=>
                       SubjectWith(req) = SubjectOf(ref)
  BY <1>1, SubjectMatches DEF SubjectWith
<1>4. Fits(ir, req) <=> \E ref \in A : SubjectWith(req) = SubjectOf(ref)
  BY <1>2, <1>3
<1> QED
  BY <1>1, <1>4 DEF A

(* The type of a valid model that has this name. *)
LEMMA TypeNamed ==
  ASSUME NEW ir \in ModelIRs, ModelErrors(ir) = {}, NEW t \in ToSet(EmitDsl(ir))
  PROVE  /\ \A r \in ToSet(ir.resources) : t.name = r.name => t = ResourceTypeOf(r)
         /\ \A g \in ToSet(ir.groups) : t.name = g.name => t = GroupTypeOf(g)
         /\ t.name \notin NameSet(ir.groups) \cup NameSet(ir.resources) => t = UserType
<1>1. /\ \A r \in ToSet(ir.resources) : r.name \in NameSet(ir.resources) /\ ResourceTypeOf(r).name = r.name
      /\ \A g \in ToSet(ir.groups) : g.name \in NameSet(ir.groups) /\ GroupTypeOf(g).name = g.name
      /\ UserType.name = "user"
  BY NameSetIs DEF ResourceTypeOf, GroupTypeOf, UserType
<1>2. /\ Unique(ToSet(ir.groups)) /\ Unique(ToSet(ir.resources))
      /\ NameSet(ir.groups) \cap NameSet(ir.resources) = {}
      /\ "user" \notin NameSet(ir.groups) \cup NameSet(ir.resources)
  BY ValidNames
<1>3. CASE t = UserType
  BY <1>1, <1>2, <1>3
<1>4. ASSUME NEW r \in ToSet(ir.resources), t = ResourceTypeOf(r)
      PROVE  t.name = r.name /\ \A q \in ToSet(ir.resources) : t.name = q.name => t = ResourceTypeOf(q)
  BY <1>1, <1>2, <1>4 DEF Unique
<1>5. ASSUME NEW g \in ToSet(ir.groups), t = GroupTypeOf(g)
      PROVE  t.name = g.name /\ \A q \in ToSet(ir.groups) : t.name = q.name => t = GroupTypeOf(q)
  BY <1>1, <1>2, <1>5 DEF Unique
<1>6. CASE \E r \in ToSet(ir.resources) : t = ResourceTypeOf(r)
  BY <1>1, <1>2, <1>4, <1>6
<1>7. CASE \E g \in ToSet(ir.groups) : t = GroupTypeOf(g)
  BY <1>1, <1>2, <1>5, <1>7
<1> QED
  BY <1>3, <1>6, <1>7, EmittedTypes

LEMMA TakenFits ==
  ASSUME NEW ir \in ModelIRs, ModelErrors(ir) = {}, NEW req, ~IsParentRelation(ir, req)
  PROVE  ModelTakes(EmitDsl(ir), req) <=> Fits(ir, req)
<1> DEFINE type == req.resource.type
           A == UNION AssignableSubjects(ir, type, req.relation)
           s == SubjectWith(req)
           Takes(t) == req.relation \in NameSet(t.relations) /\ s \in ToSet(RelationOf(t, req.relation).subjects)
<1>1. ModelTakes(EmitDsl(ir), req) <=> \E t \in ToSet(EmitDsl(ir)) : t.name = type /\ Takes(t)
  BY DEF ModelTakes, SubjectWith
<1>2. Fits(ir, req) <=> \E ref \in A : s = SubjectOf(ref)
  BY FitsMeans
<1>3. CASE \E r \in ToSet(ir.resources) : r.name = type
  <2>1. PICK r \in ToSet(ir.resources) : r.name = type
    BY <1>3
  <2> DEFINE u == ResourceTypeOf(r)
  <2>2. u \in ToSet(EmitDsl(ir)) /\ u.name = type /\ \A t \in ToSet(EmitDsl(ir)) : t.name = type => t = u
    <3>1. u.name = type
      BY <2>1 DEF ResourceTypeOf
    <3>2. u \in ToSet(EmitDsl(ir))
      BY EmittedTypes
    <3> QED
      BY <2>1, <3>1, <3>2, TypeNamed
  <2>3. \A p \in ToSet(r.parents) : p.relationName # req.relation
    BY <2>1 DEF IsParentRelation
  <2>4. CASE \E role \in ToSet(r.roles) : role.name = req.relation
    <3>1. PICK role \in ToSet(r.roles) : role.name = req.relation
      BY <2>4
    <3>2. {x \in ToSet(r.roles) : x.name = req.relation} = {role}
      BY <2>1, <3>1, ValidRelations DEF Unique
    <3>3. A = ToSet(role.assignableBy)
      BY <2>1, <3>2, AssignableOf
    <3>4. Takes(u) <=> s \in ToSet(SubjectsOf(role.assignableBy))
      BY <2>1, <2>3, <3>1, RelationsOfResource
    <3>5. Takes(u) <=> \E ref \in A : s = SubjectOf(ref)
      BY <3>3, <3>4, EmittedSubjects
    <3> HIDE DEF u, Takes, A, s
    <3> QED
      BY <1>1, <1>2, <2>2, <3>5
  <2>5. CASE \A role \in ToSet(r.roles) : role.name # req.relation
    <3>1. ~Takes(u)
      BY <2>1, <2>3, <2>5, RelationsOfResource
    <3>2. AssignableSubjects(ir, type, req.relation) = {}
      BY <2>1, <2>5, AssignableOf
    <3>3. A = {}
      BY <3>2
    <3> HIDE DEF u, Takes, A, s
    <3> QED
      BY <1>1, <1>2, <2>2, <3>1, <3>3
  <2> QED
    BY <2>4, <2>5
<1>4. CASE \E g \in ToSet(ir.groups) : g.name = type
  <2>1. PICK g \in ToSet(ir.groups) : g.name = type
    BY <1>4
  <2> DEFINE u == GroupTypeOf(g)
  <2>2. u \in ToSet(EmitDsl(ir)) /\ u.name = type /\ \A t \in ToSet(EmitDsl(ir)) : t.name = type => t = u
    BY <2>1, EmittedTypes, TypeNamed DEF GroupTypeOf
  <2>3. CASE req.relation = "member"
    <3>1. A = ToSet(g.memberTypes)
      BY <2>1, <2>3, AssignableOf
    <3>2. Takes(u) <=> s \in ToSet(SubjectsOf(g.memberTypes))
      BY <2>3, RelationOfGroup
    <3>3. Takes(u) <=> \E ref \in A : s = SubjectOf(ref)
      BY <3>1, <3>2, EmittedSubjects
    <3> HIDE DEF u, Takes, A, s
    <3> QED
      BY <1>1, <1>2, <2>2, <3>3
  <2>4. CASE req.relation # "member"
    <3>1. ~Takes(u)
      BY <2>4, RelationOfGroup
    <3>2. AssignableSubjects(ir, type, req.relation) = {}
      BY <2>1, <2>4, AssignableOf
    <3>3. A = {}
      BY <3>2
    <3> HIDE DEF u, Takes, A, s
    <3> QED
      BY <1>1, <1>2, <2>2, <3>1, <3>3
  <2> QED
    BY <2>3, <2>4
<1>5. CASE type \notin NameSet(ir.groups) \cup NameSet(ir.resources)
  <2>1. \A t \in ToSet(EmitDsl(ir)) : t.name = type => t = UserType
    BY <1>5, TypeNamed
  <2>2. ~Takes(UserType)
    BY DEF UserType, NameSet
  <2>3. AssignableSubjects(ir, type, req.relation) = {}
    BY <1>5, AssignableOf
  <2>4. A = {}
    BY <2>3
  <2> HIDE DEF Takes, A, s
  <2> QED
    BY <1>1, <1>2, <2>1, <2>2, <2>4
<1>6. type \in NameSet(ir.groups) \cup NameSet(ir.resources) =>
        (\E g \in ToSet(ir.groups) : g.name = type) \/ (\E r \in ToSet(ir.resources) : r.name = type)
  BY DEF NameSet, ToSet
<1> QED
  BY <1>3, <1>4, <1>5, <1>6

LEMMA FitsNoParent ==
  ASSUME NEW ir \in ModelIRs, ModelErrors(ir) = {}, NEW req, Fits(ir, req)
  PROVE  ~IsParentRelation(ir, req)
<1> SUFFICES ASSUME NEW r \in ToSet(ir.resources), r.name = req.resource.type,
                    NEW p \in ToSet(r.parents), p.relationName = req.relation
             PROVE  FALSE
  BY DEF IsParentRelation
<1>1. \A role \in ToSet(r.roles) : role.name # req.relation
  BY ValidRelations
<1>2. AssignableSubjects(ir, req.resource.type, req.relation) = {}
  BY <1>1, AssignableOf
<1> QED
  BY <1>2 DEF Fits, Candidates

(* The check says ok exactly to a well named grant that fits. *)
LEMMA OkFits ==
  ASSUME NEW ir \in ModelIRs, ModelErrors(ir) = {}, ir \in GrantIrs, NEW req
  PROVE  /\ ValidateGrant(ir, req) = "ok" => Fits(ir, req) /\ ValidateRevoke(ir, req) = "ok"
         /\ WellNamed(req) /\ Fits(ir, req) => ValidateGrant(ir, req) = "ok"
<1>1. Fits(ir, req) => /\ Candidates(ir, req) # {} /\ IsAssignableRelation(ir, req.resource.type, req.relation)
                       /\ req.condition \in {"none"} \cup ToSet(ir.conditions)
  <2>1. Fits(ir, req) => Candidates(ir, req) # {} /\ IsAssignableRelation(ir, req.resource.type, req.relation)
    BY DEF Fits, Candidates, IsAssignableRelation
  <2>2. Fits(ir, req) => req.condition \in {"none"} \cup ToSet(ir.conditions)
    BY FitsMeans DEF Fits, Candidates
  <2> QED
    BY <2>1, <2>2
<1>2. Structural(ir, req) = "ok" /\ ConditionRule(ir, req) = "ok" => Fits(ir, req)
  BY DEF ConditionRule, Fits
<1>3. ValidateGrant(ir, req) = "ok" => Structural(ir, req) = "ok" /\ ConditionRule(ir, req) = "ok"
  BY DEF ValidateGrant
<1>4. ASSUME WellNamed(req), Fits(ir, req) PROVE ValidateGrant(ir, req) = "ok"
  <2>1. Structural(ir, req) = "ok"
    BY <1>1, <1>4 DEF Structural
  <2>2. req.condition \in NoIdent => req.condition = "none"
    BY <1>1, <1>4, ValidRefs, GrantAssumption
  <2>3. ConditionRule(ir, req) = "ok"
    BY <1>1, <1>4, <2>2 DEF ConditionRule, Fits
  <2> QED
    BY <2>1, <2>3 DEF ValidateGrant
<1> QED
  BY <1>2, <1>3, <1>4 DEF ValidateRevoke

-----------------------------------------------------------------------------
GrantCode(g) ==
  IF ~Decodes(g.op, g.doc) THEN "malformed_request"
  ELSE IF g.op = "grant" THEN ValidateGrant(g.ir, GrantRequestOf(g.doc))
  ELSE ValidateRevoke(g.ir, GrantRequestOf(g.doc))

GrantingInv ==
  /\ granting.ir \in GrantIrs /\ granting.op \in {"grant", "revoke"}
  /\ granting.at \in {"asked", "refused", "stored", "backstop"}
  /\ granting.at = "refused" => GrantCode(granting) # "ok"
  /\ granting.at \in {"stored", "backstop"} => GrantCode(granting) = "ok"
  /\ granting.at = "backstop" =>
       ~OpenfgaTakes(granting.op, EmitDsl(granting.ir), GrantRequestOf(granting.doc))

LEMMA GrantIsWritable == GrantingInv => ValidGrantIsWritable
<1> DEFINE ir == granting.ir
           req == GrantRequestOf(granting.doc)
<1> SUFFICES ASSUME GrantingInv
             PROVE  ValidGrantIsWritable
  OBVIOUS
<1>1. ir \in ModelIRs /\ ModelErrors(ir) = {} /\ ir \in GrantIrs
  BY GrantAssumption DEF GrantingInv
<1> HIDE DEF ir, req
<1>2. /\ ValidateGrant(ir, req) = "ok" => Fits(ir, req) /\ ValidateRevoke(ir, req) = "ok"
      /\ WellNamed(req) /\ Fits(ir, req) => ValidateGrant(ir, req) = "ok"
      /\ Fits(ir, req) => ~IsParentRelation(ir, req)
      /\ ~IsParentRelation(ir, req) => (ModelTakes(EmitDsl(ir), req) <=> Fits(ir, req))
  BY <1>1, OkFits, FitsNoParent, TakenFits
<1>3. granting.at = "backstop" => ~SizeFits(req) \/ (granting.op = "grant" /\ ~ContextFits(req))
  <2> SUFFICES ASSUME granting.at = "backstop", SizeFits(req)
               PROVE  granting.op = "grant" /\ ~ContextFits(req)
    OBVIOUS
  <2>1. granting.op = "grant" /\ ~(ModelTakes(EmitDsl(ir), req) /\ ContextFits(req))
    BY DEF GrantingInv, OpenfgaTakes, ir, req
  <2>2. ValidateGrant(ir, req) = "ok"
    BY <2>1 DEF GrantingInv, GrantCode, ir, req
  <2> QED
    BY <1>2, <2>1, <2>2
<1>4. ASSUME granting.at = "refused", granting.op = "grant", Decodes("grant", granting.doc), WellNamed(req)
      PROVE  ~ModelTakes(EmitDsl(ir), req) \/ IsParentRelation(ir, req)
  <2>1. ValidateGrant(ir, req) # "ok"
    BY <1>4 DEF GrantingInv, GrantCode, ir, req
  <2> QED
    BY <1>2, <1>4, <2>1
<1>5. granting.at = "stored" => ValidateRevoke(ir, req) = "ok"
  <2> SUFFICES ASSUME granting.at = "stored" PROVE ValidateRevoke(ir, req) = "ok"
    OBVIOUS
  <2>1. ValidateGrant(ir, req) = "ok" \/ ValidateRevoke(ir, req) = "ok"
    BY DEF GrantingInv, GrantCode, ir, req
  <2> QED
    BY <1>2, <2>1
<1>6. IsParentRelation(ir, req) => \E r \in ToSet(ir.resources) : r.name = req.resource.type
                                     /\ req.relation \in {r.parents[i].relationName : i \in DOMAIN r.parents}
  BY DEF IsParentRelation, ToSet
<1> QED
  BY <1>3, <1>4, <1>5, <1>6 DEF ValidGrantIsWritable, ir, req

(* A grant passes the check exactly when the DSL of the same model takes its
   tuple, whatever the model and the request: OpenFGA refuses it only for its
   context or the length of an id. *)
THEOREM GrantsAreWritable == GrantingSpec => []ValidGrantIsWritable
<1>1. GrantingInit => GrantingInv
  BY DEF GrantingInit, GrantingInv
<1>2. GrantingInv /\ [AnswerGrant]_granting => GrantingInv'
  <2>1. ASSUME GrantingInv, AnswerGrant PROVE GrantingInv'
    <3> DEFINE code == GrantCode(granting)
               at == IF code # "ok" THEN "refused"
                     ELSE IF OpenfgaTakes(granting.op, EmitDsl(granting.ir), GrantRequestOf(granting.doc))
                     THEN "stored" ELSE "backstop"
    <3>1. granting' = [granting EXCEPT !.code = code, !.at = at]
      BY <2>1 DEF AnswerGrant, GrantCode
    <3> QED
      BY <2>1, <3>1 DEF GrantingInv, GrantCode
  <2>2. ASSUME GrantingInv, UNCHANGED granting PROVE GrantingInv'
    BY <2>2 DEF GrantingInv, GrantCode
  <2> QED
    BY <2>1, <2>2
<1> QED
  BY <1>1, <1>2, GrantIsWritable, PTL DEF GrantingSpec

-----------------------------------------------------------------------------
(* What can be entered is the least set of relations that everything opens
   that is open from it. *)
LEMMA EnteredIsLeast ==
  ASSUME NEW types, IsFiniteSet(Pairs(types))
  PROVE  /\ Entered(types) \in SUBSET Pairs(types)
         /\ OpenedFrom(types, Entered(types)) = Entered(types)
         /\ \A C \in SUBSET Pairs(types) : OpenedFrom(types, C) \subseteq C => Entered(types) \subseteq C
<1> DEFINE U == Pairs(types)
           N == Cardinality(U)
           step == [K \in SUBSET U |-> OpenedFrom(types, K)]
           g == CHOOSE g : g = [n \in 0..Cardinality(Pairs(types)) |->
                                  IF n = 0 THEN {} ELSE OpenedFrom(types, g[n - 1])]
<1>1. Entered(types) = g[N]
  BY DEF Entered
<1>2. g = CHOOSE h : h = [n \in 0..N |-> IF n = 0 THEN {} ELSE OpenedFrom(types, h[n - 1])]
  OBVIOUS
<1> HIDE DEF g
<1>3. N \in Nat
  BY FS_CardinalityType
<1>4. \A K \in SUBSET U : OpenedFrom(types, K) \in SUBSET U
  BY DEF OpenedFrom, Pairs
<1>5. step \in [SUBSET U -> SUBSET U] /\ \A K \in SUBSET U : step[K] = OpenedFrom(types, K)
  BY <1>4
<1>6. \A B, C : B \subseteq C => OpenedFrom(types, B) \subseteq OpenedFrom(types, C)
  <2> SUFFICES ASSUME NEW B, NEW C, B \subseteq C, NEW t \in ToSet(types), NEW rel \in ToSet(t.relations),
                      Opens(t, rel, B)
               PROVE  Opens(t, rel, C)
    BY DEF OpenedFrom
  <2> QED
    BY DEF Opens
<1> HIDE DEF step, U, N
<1>7. PICK f \in [0..N -> SUBSET U] : Rounds(f, {}, step, N)
  BY <1>3, <1>5, RoundsExist
<1>8. f = [n \in 0..N |-> IF n = 0 THEN {} ELSE OpenedFrom(types, f[n - 1])]
  <2> DEFINE h == [n \in 0..N |-> IF n = 0 THEN {} ELSE OpenedFrom(types, f[n - 1])]
  <2>1. \A n \in 0..N : f[n] = IF n = 0 THEN {} ELSE OpenedFrom(types, f[n - 1])
    <3> SUFFICES ASSUME NEW n \in 0..N, n # 0 PROVE f[n] = OpenedFrom(types, f[n - 1])
      BY <1>7 DEF Rounds
    <3>1. n \in 1..N /\ n - 1 \in 0..N
      BY <1>3
    <3> QED
      BY <1>5, <1>7, <3>1 DEF Rounds
  <2>2. \A n \in 0..N : h[n] = f[n]
    BY <2>1
  <2>3. DOMAIN f = 0..N /\ DOMAIN h = 0..N /\ f = [n \in 0..N |-> f[n]] /\ h = [n \in 0..N |-> h[n]]
    OBVIOUS
  <2> HIDE DEF h
  <2>4. f = h
    BY <2>2, <2>3
  <2> QED
    BY <2>4 DEF h
<1>9. g = [n \in 0..N |-> IF n = 0 THEN {} ELSE OpenedFrom(types, g[n - 1])]
  BY <1>2, <1>8
<1>10. \A n \in 0..N : g[n] \in SUBSET U /\ g[n] = IF n = 0 THEN {} ELSE step[g[n - 1]]
  <2> DEFINE e(n) == IF n = 0 THEN {} ELSE OpenedFrom(types, g[n - 1])
             P(m) == m <= N => g[m] \in SUBSET U
             A == {m \in Nat : P(m)}
  <2>1. g = [n \in 0..N |-> e(n)]
    BY <1>9
  <2> HIDE DEF e
  <2>2. \A n \in 0..N : g[n] = e(n)
    BY <2>1
  <2>3. P(0)
    BY <1>3, <2>2 DEF e
  <2>4. ASSUME NEW m \in Nat, P(m) PROVE P(m + 1)
    <3> SUFFICES ASSUME m + 1 <= N PROVE g[m + 1] \in SUBSET U
      OBVIOUS
    <3>1. m + 1 \in 0..N /\ m + 1 # 0 /\ (m + 1) - 1 = m /\ m <= N
      BY <1>3
    <3>2. g[m + 1] = OpenedFrom(types, g[m])
      BY <2>2, <3>1 DEF e
    <3> QED
      BY <1>4, <2>4, <3>1, <3>2
  <2> HIDE DEF P
  <2>5. A = Nat
    <3>1. A \in SUBSET Nat /\ 0 \in A /\ \A n \in A : n + 1 \in A
      BY <2>3, <2>4
    <3> QED
      BY <3>1, NatSetInduction
  <2>6. \A n \in 0..N : g[n] \in SUBSET U
    <3>1. \A n \in 0..N : n \in Nat /\ P(n)
      BY <1>3, <2>5
    <3> QED
      BY <3>1 DEF P
  <2>7. ASSUME NEW n \in 0..N PROVE g[n] = IF n = 0 THEN {} ELSE step[g[n - 1]]
    <3>1. n # 0 => n - 1 \in 0..N
      BY <1>3
    <3> QED
      BY <1>5, <2>2, <2>6, <3>1 DEF e
  <2> QED
    BY <2>6, <2>7
<1>11. g \in [0..N -> SUBSET U]
  <2>1. DOMAIN g = 0..N
    <3> DEFINE e(n) == IF n = 0 THEN {} ELSE OpenedFrom(types, g[n - 1])
    <3>1. g = [n \in 0..N |-> e(n)]
      BY <1>9
    <3> HIDE DEF e
    <3> QED
      BY <3>1
  <2>2. g = [n \in 0..N |-> g[n]]
    <3> DEFINE e(n) == IF n = 0 THEN {} ELSE OpenedFrom(types, g[n - 1])
    <3>1. g = [n \in 0..N |-> e(n)]
      BY <1>9
    <3> HIDE DEF e
    <3> QED
      BY <3>1
  <2> QED
    BY <1>10, <2>2
<1>12. Rounds(g, {}, step, N)
  <2>1. 0 \in 0..N /\ \A n \in 1..N : n \in 0..N /\ n # 0
    BY <1>3
  <2> QED
    BY <1>10, <2>1 DEF Rounds
<1>13. Monotone(step, U)
  BY <1>5, <1>6 DEF Monotone
<1>14. IsFiniteSet(U) /\ Cardinality(U) <= N
  BY <1>3 DEF U, N
<1>15. /\ g[N] \in SUBSET U /\ step[g[N]] = g[N]
       /\ \A C \in SUBSET U : step[C] \subseteq C => g[N] \subseteq C
  <2> DEFINE start == {}
  <2>1. start \in SUBSET U /\ start \subseteq step[start] /\ Rounds(g, start, step, N)
    BY <1>12
  <2>2. \A C : start \subseteq C
    OBVIOUS
  <2> HIDE DEF start
  <2>3. /\ g[N] \in SUBSET U /\ step[g[N]] = g[N]
        /\ \A C \in SUBSET U : start \subseteq C /\ step[C] \subseteq C => g[N] \subseteq C
    <3>1. Settling(g, U, start, step, N)
      BY <1>3, <1>5, <1>11, <1>13, <1>14, <2>1 DEF Settling
    <3> QED
      BY ONLY <3>1, RoundsReachLeast
  <2> QED
    BY <2>2, <2>3
<1> QED
  BY <1>1, <1>5, <1>15 DEF U

(* The groups that have users in them, at last. *)
Reached(ir) == {g \in ToSet(ir.groups) : HasUsers(ir, g)}

LEMMA ReachedIsLeast ==
  ASSUME NEW ir \in ModelIRs
  PROVE  /\ WithUsers(ir) \subseteq Reached(ir) /\ Holding(ir, Reached(ir)) \subseteq Reached(ir)
         /\ \A C \in SUBSET ToSet(ir.groups) :
              WithUsers(ir) \subseteq C /\ Holding(ir, C) \subseteq C => Reached(ir) \subseteq C
<1> DEFINE U == ToSet(ir.groups)
           N == Len(ir.groups)
           start == WithUsers(ir)
           step == [K \in SUBSET U |-> K \cup Holding(ir, K)]
           g == CHOOSE g : g = [n \in 0..Len(ir.groups) |->
                                  IF n = 0 THEN WithUsers(ir) ELSE g[n - 1] \cup Holding(ir, g[n - 1])]
<1>1. \A x : HasUsers(ir, x) <=> x \in g[N]
  BY DEF HasUsers
<1>2. g = CHOOSE h : h = [n \in 0..N |-> IF n = 0 THEN start ELSE h[n - 1] \cup Holding(ir, h[n - 1])]
  OBVIOUS
<1> HIDE DEF g
<1>3. N \in Nat /\ IsFiniteSet(U) /\ Cardinality(U) <= N
  BY IrRecords, ListIsFinite
<1>4. \A K \in SUBSET U : K \cup Holding(ir, K) \in SUBSET U
  BY DEF Holding
<1>4a. start \in SUBSET U
  BY DEF WithUsers
<1>5. step \in [SUBSET U -> SUBSET U] /\ \A K \in SUBSET U : step[K] = K \cup Holding(ir, K)
  BY <1>4
<1>6. \A B, C : B \subseteq C => Holding(ir, B) \subseteq Holding(ir, C)
  BY DEF Holding
<1> HIDE DEF step, U, N, start
<1>7. PICK f \in [0..N -> SUBSET U] : Rounds(f, start, step, N)
  BY <1>3, <1>4a, <1>5, RoundsExist
<1>8. f = [n \in 0..N |-> IF n = 0 THEN start ELSE f[n - 1] \cup Holding(ir, f[n - 1])]
  <2> DEFINE h == [n \in 0..N |-> IF n = 0 THEN start ELSE f[n - 1] \cup Holding(ir, f[n - 1])]
  <2>1. \A n \in 0..N : f[n] = IF n = 0 THEN start ELSE f[n - 1] \cup Holding(ir, f[n - 1])
    <3> SUFFICES ASSUME NEW n \in 0..N, n # 0 PROVE f[n] = f[n - 1] \cup Holding(ir, f[n - 1])
      BY <1>7 DEF Rounds
    <3>1. n \in 1..N /\ n - 1 \in 0..N
      BY <1>3
    <3> QED
      BY <1>5, <1>7, <3>1 DEF Rounds
  <2>2. \A n \in 0..N : h[n] = f[n]
    BY <2>1
  <2>3. DOMAIN f = 0..N /\ DOMAIN h = 0..N /\ f = [n \in 0..N |-> f[n]] /\ h = [n \in 0..N |-> h[n]]
    OBVIOUS
  <2> HIDE DEF h
  <2>4. f = h
    BY <2>2, <2>3
  <2> QED
    BY <2>4 DEF h
<1>9. g = [n \in 0..N |-> IF n = 0 THEN start ELSE g[n - 1] \cup Holding(ir, g[n - 1])]
  BY <1>2, <1>8
<1> DEFINE e(n) == IF n = 0 THEN start ELSE g[n - 1] \cup Holding(ir, g[n - 1])
<1>10. g = [n \in 0..N |-> e(n)]
  BY <1>9
<1>11. DOMAIN g = 0..N /\ (\A n \in 0..N : g[n] = e(n)) /\ g = [n \in 0..N |-> g[n]]
  <2> HIDE DEF e
  <2> QED
    BY <1>10
<1> HIDE DEF e
<1>12. \A n \in 0..N : g[n] \in SUBSET U
  <2> DEFINE P(m) == m <= N => g[m] \in SUBSET U
             A == {m \in Nat : P(m)}
  <2>1. P(0)
    BY <1>3, <1>4a, <1>11 DEF e
  <2>2. ASSUME NEW m \in Nat, P(m) PROVE P(m + 1)
    <3> SUFFICES ASSUME m + 1 <= N PROVE g[m + 1] \in SUBSET U
      OBVIOUS
    <3>1. m + 1 \in 0..N /\ m + 1 # 0 /\ (m + 1) - 1 = m /\ m <= N
      BY <1>3
    <3>2. g[m + 1] = g[m] \cup Holding(ir, g[m])
      BY <1>11, <3>1 DEF e
    <3> QED
      BY <1>4, <2>2, <3>1, <3>2
  <2> HIDE DEF P
  <2>3. A = Nat
    <3>1. A \in SUBSET Nat /\ 0 \in A /\ \A n \in A : n + 1 \in A
      BY <2>1, <2>2
    <3> QED
      BY <3>1, NatSetInduction
  <2>4. \A n \in 0..N : n \in Nat /\ P(n)
    BY <1>3, <2>3
  <2> QED
    BY <2>4 DEF P
<1>13. g \in [0..N -> SUBSET U]
  BY <1>11, <1>12
<1>14. Rounds(g, start, step, N)
  <2>1. 0 \in 0..N /\ \A n \in 1..N : n \in 0..N /\ n - 1 \in 0..N /\ n # 0
    BY <1>3
  <2> QED
    BY <1>5, <1>11, <1>12, <2>1 DEF Rounds, e
<1>15. Settling(g, U, start, step, N)
  BY <1>3, <1>4a, <1>5, <1>6, <1>13, <1>14 DEF Settling, Monotone
<1>16. /\ g[N] \in SUBSET U /\ start \subseteq g[N] /\ step[g[N]] = g[N]
       /\ \A C \in SUBSET U : start \subseteq C /\ step[C] \subseteq C => g[N] \subseteq C
  BY ONLY <1>15, RoundsReachLeast
<1>17. Reached(ir) = g[N]
  BY <1>1, <1>16 DEF Reached, U
<1> QED
  BY <1>5, <1>16, <1>17 DEF U, start

-----------------------------------------------------------------------------
(* The compiled types have the names of the model, each once. *)
LEMMA DistinctNoRepeats ==
  ASSUME NEW s, DOMAIN s \subseteq Nat, Distinct(s)
  PROVE  ~Repeats(s)
<1> SUFFICES ASSUME NEW i \in DOMAIN s, NEW j \in DOMAIN s, i < j, s[i] = s[j] PROVE FALSE
  BY DEF Repeats
<1>1. i = j /\ i \in Nat
  BY DEF Distinct
<1> QED
  BY <1>1

LEMMA ConcatStaysDistinct ==
  ASSUME NEW X, NEW s \in Seq(X), NEW t \in Seq(X), Distinct(s), Distinct(t), ToSet(s) \cap ToSet(t) = {}
  PROVE  Distinct(s \o t)
<1> DEFINE u == s \o t
<1>1. /\ Len(s) \in Nat /\ Len(t) \in Nat /\ DOMAIN s = 1..Len(s) /\ DOMAIN t = 1..Len(t)
      /\ DOMAIN u = 1..(Len(s) + Len(t))
      /\ \A i \in 1..Len(s) : u[i] = s[i]
      /\ \A i \in 1..Len(t) : u[Len(s) + i] = t[i]
  OBVIOUS
<1> HIDE DEF u
<1>2. /\ \A i, j \in 1..Len(s) : s[i] = s[j] => i = j
      /\ \A i, j \in 1..Len(t) : t[i] = t[j] => i = j
      /\ \A i \in 1..Len(s), j \in 1..Len(t) : s[i] # t[j]
  <2>1. ASSUME NEW i \in 1..Len(s), NEW j \in 1..Len(t), s[i] = t[j] PROVE FALSE
    <3>1. s[i] \in ToSet(s) /\ t[j] \in ToSet(t)
      BY <1>1 DEF ToSet
    <3> QED
      BY <2>1, <3>1
  <2>2. /\ \A i, j \in 1..Len(s) : s[i] = s[j] => i = j
        /\ \A i, j \in 1..Len(t) : t[i] = t[j] => i = j
    BY <1>1 DEF Distinct
  <2> QED
    BY <2>1, <2>2
<1>3. \A k \in DOMAIN u :
        \/ k \in 1..Len(s) /\ u[k] = s[k]
        \/ k - Len(s) \in 1..Len(t) /\ u[k] = t[k - Len(s)]
  <2> SUFFICES ASSUME NEW k \in DOMAIN u, k \notin 1..Len(s)
               PROVE  k - Len(s) \in 1..Len(t) /\ u[k] = t[k - Len(s)]
    BY <1>1
  <2>1. k - Len(s) \in 1..Len(t) /\ Len(s) + (k - Len(s)) = k
    BY <1>1
  <2> QED
    BY <1>1, <2>1
<1>4. ASSUME NEW i \in DOMAIN u, NEW j \in DOMAIN u, u[i] = u[j] PROVE i = j
  <2>0. i \in Int /\ j \in Int
    BY <1>1
  <2>1. CASE i \in 1..Len(s) /\ u[i] = s[i] /\ j \in 1..Len(s) /\ u[j] = s[j]
    BY <1>2, <1>4, <2>1
  <2>2. CASE i - Len(s) \in 1..Len(t) /\ u[i] = t[i - Len(s)] /\ j - Len(s) \in 1..Len(t) /\ u[j] = t[j - Len(s)]
    <3>1. i - Len(s) = j - Len(s)
      BY <1>2, <1>4, <2>2
    <3> QED
      BY <1>1, <2>0, <3>1
  <2>3. CASE i \in 1..Len(s) /\ u[i] = s[i] /\ j - Len(s) \in 1..Len(t) /\ u[j] = t[j - Len(s)]
    BY <1>2, <1>4, <2>3
  <2>4. CASE j \in 1..Len(s) /\ u[j] = s[j] /\ i - Len(s) \in 1..Len(t) /\ u[i] = t[i - Len(s)]
    BY <1>2, <1>4, <2>4
  <2> QED
    BY <1>3, <2>1, <2>2, <2>3, <2>4
<1> QED
  BY <1>4 DEF Distinct, u

NamesIn(X, Y) == \A x \in X : x.name \in Y

LEMMA NamedConcat ==
  ASSUME NEW X, NEW Y, NEW s \in Seq(X), NEW t \in Seq(X), NamesIn(X, Y)
  PROVE  Named(s \o t) = Named(s) \o Named(t)
<1> DEFINE u == s \o t
           l == Named(u)
           r == Named(s) \o Named(t)
<1>1. /\ Len(s) \in Nat /\ Len(t) \in Nat /\ DOMAIN s = 1..Len(s) /\ DOMAIN t = 1..Len(t)
      /\ DOMAIN u = 1..(Len(s) + Len(t)) /\ u \in Seq(X)
      /\ \A i \in 1..(Len(s) + Len(t)) : u[i] = IF i <= Len(s) THEN s[i] ELSE t[i - Len(s)]
  OBVIOUS
<1> HIDE DEF u
<1>2. /\ Named(s) \in Seq(Y) /\ Len(Named(s)) = Len(s) /\ \A i \in 1..Len(s) : Named(s)[i] = s[i].name
      /\ Named(t) \in Seq(Y) /\ Len(Named(t)) = Len(t) /\ \A i \in 1..Len(t) : Named(t)[i] = t[i].name
      /\ l \in Seq(Y) /\ DOMAIN l = 1..(Len(s) + Len(t))
      /\ \A i \in 1..(Len(s) + Len(t)) : l[i] = u[i].name
  <2>1. \A i \in 1..Len(s) : s[i] \in X
    BY <1>1
  <2>2. \A i \in 1..Len(t) : t[i] \in X
    BY <1>1
  <2>3. \A i \in 1..(Len(s) + Len(t)) : u[i] \in X
    BY <1>1
  <2>4. Named(s) \in [1..Len(s) -> Y] /\ Named(t) \in [1..Len(t) -> Y] /\ l \in [1..(Len(s) + Len(t)) -> Y]
    BY <1>1, <2>1, <2>2, <2>3 DEF Named, NamesIn
  <2>5. Named(s) \in Seq(Y) /\ Named(t) \in Seq(Y) /\ l \in Seq(Y)
    <3> HIDE DEF l
    <3>1. Named(s) \in Seq(Y)
      BY ONLY <1>1, <2>4, FunctionIsList
    <3>2. Named(t) \in Seq(Y)
      BY ONLY <1>1, <2>4, FunctionIsList
    <3>3. Len(s) + Len(t) \in Nat
      BY <1>1
    <3>4. l \in Seq(Y)
      BY ONLY <2>4, <3>3, FunctionIsList
    <3> QED
      BY <3>1, <3>2, <3>4
  <2> QED
    BY <1>1, <2>4, <2>5 DEF Named
<1>3. /\ r \in Seq(Y) /\ DOMAIN r = 1..(Len(s) + Len(t))
      /\ \A i \in 1..(Len(s) + Len(t)) : r[i] = IF i <= Len(s) THEN Named(s)[i] ELSE Named(t)[i - Len(s)]
  <2> DEFINE a == Named(s)
             b == Named(t)
  <2>1. a \in Seq(Y) /\ b \in Seq(Y) /\ Len(a) = Len(s) /\ Len(b) = Len(t)
    BY <1>2
  <2> HIDE DEF a, b
  <2>2. /\ a \o b \in Seq(Y) /\ DOMAIN (a \o b) = 1..(Len(a) + Len(b))
        /\ \A i \in 1..(Len(a) + Len(b)) : (a \o b)[i] = IF i <= Len(a) THEN a[i] ELSE b[i - Len(a)]
    BY <2>1
  <2> QED
    BY <2>1, <2>2 DEF a, b
<1> HIDE DEF l, r
<1>4. ASSUME NEW i \in 1..(Len(s) + Len(t)) PROVE l[i] = r[i]
  <2>1. CASE i <= Len(s)
    <3>1. i \in 1..Len(s)
      BY <1>1, <2>1
    <3> QED
      BY <1>1, <1>2, <1>3, <2>1, <3>1
  <2>2. CASE ~(i <= Len(s))
    <3>1. i - Len(s) \in 1..Len(t)
      BY <1>1, <2>2
    <3> QED
      BY <1>1, <1>2, <1>3, <2>2, <3>1
  <2> QED
    BY <2>1, <2>2
<1>5. l = r
  <2>1. l = [i \in 1..(Len(s) + Len(t)) |-> l[i]] /\ r = [i \in 1..(Len(s) + Len(t)) |-> r[i]]
    BY <1>2, <1>3
  <2> QED
    BY <1>4, <2>1
<1> QED
  BY <1>5 DEF l, r, u

RelationNames(r) == [i \in DOMAIN r.parents |-> r.parents[i].relationName]
CanNames(r) == [i \in DOMAIN r.permissions |-> CanName[r.permissions[i].name]]

LEMMA ValidLists ==
  ASSUME NEW ir \in ModelIRs, ModelErrors(ir) = {}, NEW r \in ToSet(ir.resources)
  PROVE  /\ RelationNames(r) \in Seq(STRING) /\ CanNames(r) \in Seq(STRING) /\ Named(r.roles) \in Seq(STRING)
         /\ Distinct(RelationNames(r)) /\ Distinct(Named(r.roles) \o CanNames(r))
         /\ ToSet(Named(r.roles) \o CanNames(r)) \cap ToSet(RelationNames(r)) = {}
         /\ ToSet(RelationNames(r)) \cap BadName = {} /\ NameSet(r.roles) \cap BadName = {}
<1>1. r \in ResourceTypes /\ ParentErrors(ir, r) = {} /\ RelationErrors(r) = {}
  <2>1. r \in ResourceTypes
    BY IrRecords
  <2>2. ResourceErrors(ir, r) \subseteq ModelErrors(ir)
    BY DEF ModelErrors
  <2>3. ParentErrors(ir, r) \subseteq ResourceErrors(ir, r) /\ RelationErrors(r) \subseteq ResourceErrors(ir, r)
    BY DEF ResourceErrors
  <2> QED
    BY <2>1, <2>2, <2>3
<1> DEFINE own == Named(r.roles) \o CanNames(r)
<1>2. /\ ~Repeats(RelationNames(r)) /\ ~Repeats(own) /\ ToSet(own) \cap ToSet(RelationNames(r)) = {}
      /\ ToSet(RelationNames(r)) \cap BadName = {}
  BY <1>1 DEF ParentErrors, RelationErrors, When, RelationNames, CanNames
<1>3. /\ r.parents \in Seq(ParentRefs) /\ r.roles \in Seq(Roles) /\ r.permissions \in Seq(Permissions)
  BY <1>1, ResourceRecords
<1>4. /\ Named(r.roles) \in Seq(STRING) /\ ToSet(Named(r.roles)) = NameSet(r.roles)
  BY <1>3, AllNamed, NamedIs
<1>5. CanNames(r) \in Seq(STRING)
  <2>1. /\ Len(r.permissions) \in Nat /\ DOMAIN r.permissions = 1..Len(r.permissions)
        /\ \A i \in 1..Len(r.permissions) : r.permissions[i].name \in DOMAIN CanName
    BY <1>3, AllNamed
  <2>2. \A i \in 1..Len(r.permissions) : CanName[r.permissions[i].name] \in STRING
    BY <2>1, ModelContractAssumption
  <2> QED
    BY <2>1, <2>2 DEF CanNames
<1>6. RelationNames(r) \in Seq(STRING)
  <2>1. /\ Len(r.parents) \in Nat /\ DOMAIN r.parents = 1..Len(r.parents)
        /\ \A i \in 1..Len(r.parents) : r.parents[i] \in ParentRefs
    BY <1>3
  <2>2. \A p \in ParentRefs : p.relationName \in STRING
    BY DEF ParentRefs
  <2> QED
    BY <2>1, <2>2 DEF RelationNames
<1>7. own \in Seq(STRING)
  BY <1>4, <1>5
<1>8. Distinct(own) /\ Distinct(RelationNames(r))
  <2> HIDE DEF own
  <2> QED
    BY <1>2, <1>6, <1>7, RepeatsMeans
<1>9. NameSet(r.roles) \cap BadName = {}
  <2>1. ResourceErrors(ir, r) = {}
    BY DEF ModelErrors
  <2>2. ASSUME NEW role \in ToSet(r.roles) PROVE role.name \notin BadName
    <3>1. RoleErrors(ir, role) \subseteq ResourceErrors(ir, r)
      BY DEF ResourceErrors
    <3>2. RoleErrors(ir, role) = {}
      BY <2>1, <3>1
    <3> QED
      BY <3>2 DEF RoleErrors, When
  <2> QED
    BY <2>2 DEF NameSet, ToSet
<1> QED
  BY <1>2, <1>4, <1>5, <1>6, <1>8, <1>9

(* Each relation of a compiled type has a name of its own, an allowed one. *)
LEMMA RelationNamesStand ==
  ASSUME NEW ir \in ModelIRs, ModelErrors(ir) = {}, NEW r \in ToSet(ir.resources)
  PROVE  /\ ~Repeats(Named(ResourceTypeOf(r).relations))
         /\ NameSet(ResourceTypeOf(r).relations) \cap Malformed = {}
<1> DEFINE P == [i \in DOMAIN r.parents |-> DirectRelation(r.parents[i].relationName,
                                                           ParentSubjects(r.parents[i].parentTypes))]
           R == [i \in DOMAIN r.roles |-> DirectRelation(r.roles[i].name, SubjectsOf(r.roles[i].assignableBy))]
           E == [i \in DOMAIN r.permissions |-> PermissionRelation(r.permissions[i])]
           X == {ParentRelation(p) : p \in ToSet(r.parents)} \cup {RoleRelation(x) : x \in ToSet(r.roles)}
                \cup {PermissionRelation(p) : p \in ToSet(r.permissions)}
<1>1. r \in ResourceTypes /\ ToSet(r.parents) \subseteq ParentRefs /\ ToSet(r.roles) \subseteq Roles
      /\ ToSet(r.permissions) \subseteq Permissions
  BY IrRecords, ResourceRecords
<1>2. /\ Len(r.parents) \in Nat /\ DOMAIN r.parents = 1..Len(r.parents)
      /\ Len(r.roles) \in Nat /\ DOMAIN r.roles = 1..Len(r.roles)
      /\ Len(r.permissions) \in Nat /\ DOMAIN r.permissions = 1..Len(r.permissions)
  BY <1>1, ResourceRecords
<1>3. /\ \A i \in 1..Len(r.parents) : r.parents[i] \in ToSet(r.parents)
      /\ \A i \in 1..Len(r.roles) : r.roles[i] \in ToSet(r.roles)
      /\ \A i \in 1..Len(r.permissions) : r.permissions[i] \in ToSet(r.permissions)
  BY <1>2 DEF ToSet
<1>4. /\ \A p : ParentRelation(p).name = p.relationName
      /\ \A x : RoleRelation(x).name = x.name
      /\ \A p : PermissionRelation(p).name = CanName[p.name]
  BY DEF ParentRelation, RoleRelation, PermissionRelation, DirectRelation
<1>5. /\ P \in [1..Len(r.parents) -> X] /\ R \in [1..Len(r.roles) -> X] /\ E \in [1..Len(r.permissions) -> X]
  BY <1>2, <1>3 DEF ParentRelation, RoleRelation
<1>6. /\ \A i \in 1..Len(r.parents) : P[i].name = r.parents[i].relationName
      /\ \A i \in 1..Len(r.roles) : R[i].name = r.roles[i].name
      /\ \A i \in 1..Len(r.permissions) : E[i].name = CanName[r.permissions[i].name]
  BY <1>2, <1>4 DEF ParentRelation, RoleRelation
<1>7. P \in Seq(X) /\ R \in Seq(X) /\ E \in Seq(X)
  BY <1>2, <1>5, FunctionIsList
<1>8. Named(P) = RelationNames(r) /\ Named(R) = Named(r.roles) /\ Named(E) = CanNames(r)
  <2>1. DOMAIN P = 1..Len(r.parents) /\ DOMAIN R = 1..Len(r.roles) /\ DOMAIN E = 1..Len(r.permissions)
    BY <1>2
  <2> HIDE DEF P, R, E
  <2> QED
    BY <1>2, <1>6, <2>1 DEF Named, RelationNames, CanNames
<1>9. ResourceTypeOf(r).relations = (P \o R) \o E
  BY DEF ResourceTypeOf
<1>10. \A x \in X : x.name \in STRING
  <2>1. \A p \in ParentRefs : p.relationName \in STRING
    BY DEF ParentRefs
  <2>2. \A p \in Permissions : CanName[p.name] \in STRING
    BY AllNamed, ModelContractAssumption
  <2> QED
    BY <1>1, <1>4, <2>1, <2>2, AllNamed
<1>10a. NamesIn(X, STRING)
  BY <1>10 DEF NamesIn
<1> HIDE DEF P, R, E, X
<1>11. Named((P \o R) \o E) = (Named(P) \o Named(R)) \o Named(E)
  <2> DEFINE PR == P \o R
  <2>1. PR \in Seq(X)
    BY <1>7
  <2>2. Named(PR) = Named(P) \o Named(R)
    BY <1>7, <1>10a, NamedConcat
  <2> HIDE DEF PR
  <2>3. Named(PR \o E) = Named(PR) \o Named(E)
    BY <1>7, <1>10a, <2>1, NamedConcat
  <2> QED
    BY <2>2, <2>3 DEF PR
<1> DEFINE names == RelationNames(r) \o (Named(r.roles) \o CanNames(r))
<1>12. Named(ResourceTypeOf(r).relations) = names
  <2>1. (RelationNames(r) \o Named(r.roles)) \o CanNames(r) = names
    BY ValidLists, ConcatAssociative
  <2> QED
    BY <1>8, <1>9, <1>11, <2>1
<1>13. names \in Seq(STRING) /\ Distinct(names)
  <2> DEFINE own == Named(r.roles) \o CanNames(r)
  <2>1. /\ RelationNames(r) \in Seq(STRING) /\ own \in Seq(STRING) /\ Distinct(RelationNames(r)) /\ Distinct(own)
        /\ ToSet(RelationNames(r)) \cap ToSet(own) = {}
    BY ValidLists
  <2> HIDE DEF own
  <2>2. RelationNames(r) \o own \in Seq(STRING) /\ Distinct(RelationNames(r) \o own)
    BY <2>1, ConcatStaysDistinct
  <2> QED
    BY <2>2 DEF own
<1>14. ~Repeats(names)
  <2>1. DOMAIN names \subseteq Nat
    BY <1>13
  <2> HIDE DEF names
  <2> QED
    BY <1>13, <2>1, DistinctNoRepeats
<1>15. \A rel \in ToSet(ResourceTypeOf(r).relations) : rel.name \notin Malformed
  <2>1. \A p \in ToSet(r.parents) : p.relationName \in ToSet(RelationNames(r))
    BY DEF ToSet, RelationNames
  <2>2. \A x \in ToSet(r.roles) : x.name \in NameSet(r.roles)
    BY NameSetIs
  <2>3. ASSUME NEW p \in ToSet(r.permissions) PROVE CanName[p.name] \notin Malformed
    <3>1. PermissionErrors(ir, r, p) \subseteq ResourceErrors(ir, r) /\ ResourceErrors(ir, r) = {}
      BY DEF ModelErrors, ResourceErrors
    <3>2. When(p.name \in BadName, "BAD_NAME") \subseteq PermissionErrors(ir, r, p)
      BY DEF PermissionErrors
    <3>3. p.name \notin BadName
      BY <3>1, <3>2 DEF When
    <3>4. p.name \in DOMAIN CanName
      BY <1>1, AllNamed
    <3> QED
      BY <3>3, <3>4, ModelContractAssumption
  <2>4. /\ ToSet(RelationNames(r)) \cap Malformed = {} /\ NameSet(r.roles) \cap Malformed = {}
    BY ValidLists, ModelContractAssumption
  <2>5. \A rel : rel \in ToSet(ResourceTypeOf(r).relations) <=>
           \/ \E p \in ToSet(r.parents) : rel = ParentRelation(p)
           \/ \E role \in ToSet(r.roles) : rel = RoleRelation(role)
           \/ \E p \in ToSet(r.permissions) : rel = PermissionRelation(p)
    BY <1>1, EmittedRelations
  <2> SUFFICES ASSUME NEW rel, rel \in ToSet(ResourceTypeOf(r).relations) PROVE rel.name \notin Malformed
    OBVIOUS
  <2>6. ASSUME NEW p \in ToSet(r.parents), rel = ParentRelation(p) PROVE rel.name \notin Malformed
    <3>1. rel.name = p.relationName
      BY <1>4, <2>6
    <3> QED
      BY <2>1, <2>4, <3>1
  <2>7. ASSUME NEW role \in ToSet(r.roles), rel = RoleRelation(role) PROVE rel.name \notin Malformed
    <3>1. rel.name = role.name
      BY <1>4, <2>7
    <3> QED
      BY <2>2, <2>4, <3>1
  <2>8. ASSUME NEW p \in ToSet(r.permissions), rel = PermissionRelation(p) PROVE rel.name \notin Malformed
    <3>1. rel.name = CanName[p.name]
      BY <1>4, <2>8
    <3> QED
      BY <2>3, <3>1
  <2> QED
    BY <2>5, <2>6, <2>7, <2>8
<1>16. NameSet(ResourceTypeOf(r).relations) \cap Malformed = {}
  BY <1>15 DEF NameSet, ToSet
<1> QED
  BY <1>12, <1>14, <1>16

LEMMA OneElement ==
  ASSUME NEW X, NEW x \in X
  PROVE  <<x>> \in Seq(X) /\ ToSet(<<x>>) = {x} /\ Distinct(<<x>>)
<1> DEFINE s == <<x>>
<1>1. s \in Seq(X) /\ Len(s) = 1 /\ DOMAIN s = {1} /\ s[1] = x
  OBVIOUS
<1> HIDE DEF s
<1>2. ToSet(s) = {x} /\ Distinct(s)
  BY <1>1 DEF ToSet, Distinct
<1> QED
  BY <1>1, <1>2 DEF s

(* So is each type. *)
LEMMA TypeNamesStand ==
  ASSUME NEW ir \in ModelIRs, ModelErrors(ir) = {}
  PROVE  /\ ~Repeats(Named(EmitDsl(ir)))
         /\ NameSet(EmitDsl(ir)) = ({"user"} \cup NameSet(ir.groups)) \cup NameSet(ir.resources)
         /\ NameSet(EmitDsl(ir)) \cap Malformed = {}
<1> DEFINE Names == STRING \cup {"user"}
           U == <<UserType>>
           G == [i \in DOMAIN ir.groups |-> GroupTypeOf(ir.groups[i])]
           R == [i \in DOMAIN ir.resources |-> ResourceTypeOf(ir.resources[i])]
           X == {UserType} \cup {GroupTypeOf(g) : g \in ToSet(ir.groups)}
                \cup {ResourceTypeOf(r) : r \in ToSet(ir.resources)}
<1>1. /\ Len(ir.groups) \in Nat /\ DOMAIN ir.groups = 1..Len(ir.groups)
      /\ Len(ir.resources) \in Nat /\ DOMAIN ir.resources = 1..Len(ir.resources)
      /\ ToSet(ir.groups) \subseteq GroupTypes /\ ToSet(ir.resources) \subseteq ResourceTypes
  BY IrRecords
<1>2. /\ \A i \in 1..Len(ir.groups) : ir.groups[i] \in ToSet(ir.groups)
      /\ \A i \in 1..Len(ir.resources) : ir.resources[i] \in ToSet(ir.resources)
  BY <1>1 DEF ToSet
<1>3. G \in [1..Len(ir.groups) -> X] /\ R \in [1..Len(ir.resources) -> X]
  BY <1>1, <1>2
<1>4. /\ \A g : GroupTypeOf(g).name = g.name
      /\ \A r : ResourceTypeOf(r).name = r.name
      /\ UserType.name = "user"
  BY DEF GroupTypeOf, ResourceTypeOf, UserType
<1>5. /\ \A i \in 1..Len(ir.groups) : G[i].name = ir.groups[i].name
      /\ \A i \in 1..Len(ir.resources) : R[i].name = ir.resources[i].name
  BY <1>1, <1>4
<1>6. U \in Seq(X) /\ G \in Seq(X) /\ R \in Seq(X)
  BY <1>1, <1>3, FunctionIsList
<1>7. Named(U) = <<"user">> /\ Named(G) = Named(ir.groups) /\ Named(R) = Named(ir.resources)
  <2>1. DOMAIN G = 1..Len(ir.groups) /\ DOMAIN R = 1..Len(ir.resources)
    BY <1>1
  <2>2. Named(U) = <<"user">>
    BY <1>4 DEF Named
  <2> HIDE DEF G, R
  <2> QED
    BY <1>1, <1>5, <2>1, <2>2 DEF Named
<1>8. EmitDsl(ir) = (U \o G) \o R
  BY DEF EmitDsl, UserType
<1>9. \A x \in X : x.name \in Names
  <2> SUFFICES ASSUME NEW x \in X PROVE x.name \in Names
    OBVIOUS
  <2>1. ASSUME x = UserType PROVE x.name \in Names
    <3>1. UserType.name = "user" /\ "user" \in Names
      BY <1>4
    <3> QED
      BY <2>1, <3>1
  <2>2. ASSUME NEW g \in ToSet(ir.groups), x = GroupTypeOf(g) PROVE x.name \in Names
    <3>1. g.name \in Names /\ GroupTypeOf(g).name = g.name
      BY <1>1, <1>4, AllNamed
    <3> QED
      BY <2>2, <3>1
  <2>3. ASSUME NEW r \in ToSet(ir.resources), x = ResourceTypeOf(r) PROVE x.name \in Names
    <3>1. r.name \in Names /\ ResourceTypeOf(r).name = r.name
      BY <1>1, <1>4, AllNamed
    <3> QED
      BY <2>3, <3>1
  <2>4. \/ x = UserType
        \/ \E g \in ToSet(ir.groups) : x = GroupTypeOf(g)
        \/ \E r \in ToSet(ir.resources) : x = ResourceTypeOf(r)
    OBVIOUS
  <2> QED
    BY <2>1, <2>2, <2>3, <2>4
<1>9a. NamesIn(X, Names)
  BY <1>9 DEF NamesIn
<1> HIDE DEF U, G, R, X, Names
<1>10. Named((U \o G) \o R) = (Named(U) \o Named(G)) \o Named(R)
  <2> DEFINE UG == U \o G
  <2>1. UG \in Seq(X)
    BY <1>6
  <2>2. Named(UG) = Named(U) \o Named(G)
    BY <1>6, <1>9a, NamedConcat
  <2> HIDE DEF UG
  <2>3. Named(UG \o R) = Named(UG) \o Named(R)
    BY <1>6, <1>9a, <2>1, NamedConcat
  <2> QED
    BY <2>2, <2>3 DEF UG
<1> DEFINE own == Named(ir.groups) \o Named(ir.resources)
           u == <<"user">>
           names == u \o own
<1>11. TypeErrors(ir) = {}
  BY DEF ModelErrors
<1>12. ~Repeats(own) /\ "user" \notin ToSet(own) /\ ToSet(own) \cap BadName = {}
  BY <1>11 DEF TypeErrors, When
<1>13. /\ Named(ir.groups) \in Seq(Names) /\ Named(ir.resources) \in Seq(Names)
       /\ ToSet(Named(ir.groups)) = NameSet(ir.groups)
       /\ ToSet(Named(ir.resources)) = NameSet(ir.resources)
  <2>1. /\ Named(ir.groups) \in Seq(STRING) /\ Named(ir.resources) \in Seq(STRING)
        /\ ToSet(Named(ir.groups)) = NameSet(ir.groups)
        /\ ToSet(Named(ir.resources)) = NameSet(ir.resources)
    BY IrRecords, AllNamed, NamedIs
  <2> QED
    BY <2>1 DEF Names
<1>14. own \in Seq(Names) /\ ToSet(own) = NameSet(ir.groups) \cup NameSet(ir.resources)
  BY <1>13, ConcatSet
<1>15. u \in Seq(Names) /\ ToSet(u) = {"user"} /\ Distinct(u)
  <2>1. "user" \in Names
    BY DEF Names
  <2> QED
    BY <2>1, OneElement, Zenon
<1>16. Named(EmitDsl(ir)) = names
  <2>1. (u \o Named(ir.groups)) \o Named(ir.resources) = names
    BY <1>13, <1>15, ConcatAssociative
  <2> QED
    BY <1>7, <1>8, <1>10, <2>1
<1>17. names \in Seq(Names) /\ Distinct(names) /\ ToSet(names) = ToSet(u) \cup ToSet(own)
  <2> HIDE DEF own, u
  <2>1. Distinct(own)
    BY <1>12, <1>14, RepeatsMeans
  <2> QED
    BY <1>12, <1>14, <1>15, <2>1, ConcatStaysDistinct, ConcatSet
<1>18. ~Repeats(names)
  <2>1. DOMAIN names \subseteq Nat
    BY <1>17
  <2> HIDE DEF names
  <2> QED
    BY <1>17, <2>1, DistinctNoRepeats
<1>19. NameSet(EmitDsl(ir)) = ToSet(names)
  <2>1. NameSet(EmitDsl(ir)) = ToSet(Named(EmitDsl(ir)))
    BY DEF NameSet, ToSet, Named
  <2> QED
    BY <1>16, <2>1
<1>20. "user" \notin Malformed /\ ToSet(own) \cap Malformed = {}
  BY <1>12, ModelContractAssumption
<1> QED
  BY <1>12, <1>14, <1>15, <1>16, <1>17, <1>18, <1>19, <1>20

(* What the compiled relations of a valid model refer to is there. *)
LEMMA ListIsThere ==
  ASSUME NEW X, NEW s \in Seq(X), s # <<>>
  PROVE  1 \in DOMAIN s /\ s[1] \in ToSet(s)
<1>1. Len(s) \in Nat /\ DOMAIN s = 1..Len(s)
  OBVIOUS
<1>2. Len(s) # 0
  BY EmptySeq
<1>3. 1 \in DOMAIN s
  BY <1>1, <1>2
<1> QED
  BY <1>3 DEF ToSet

LEMMA SubjectsStand ==
  ASSUME NEW ir \in ModelIRs, ModelErrors(ir) = {}, NEW refs \in Seq(SubjectRefs), SubjectErrors(ir, refs) = {}
  PROVE  /\ SubjectsOf(refs) # <<>>
         /\ \A s \in ToSet(SubjectsOf(refs)) : SubjectStands(EmitDsl(ir), ir.conditions, s)
<1>1. /\ refs # <<>>
      /\ \A ref \in ToSet(refs) : /\ ref.kind = "group" => ref.group \in NameSet(ir.groups)
                                  /\ ref.condition \in {"none"} \cup ToSet(ir.conditions)
  BY NoSubjectErrors
<1>2. SubjectsOf(refs) # <<>>
  <2> DEFINE m == SubjectsOf(refs)
  <2>1. 1 \in DOMAIN refs
    BY <1>1, ListIsThere
  <2>2. DOMAIN m = DOMAIN refs
    BY DEF SubjectsOf
  <2>3. DOMAIN <<>> = {}
    OBVIOUS
  <2> HIDE DEF m
  <2>4. m # <<>>
    BY <2>1, <2>2, <2>3
  <2> QED
    BY <2>4 DEF m
<1>3. ASSUME NEW ref \in ToSet(refs) PROVE SubjectStands(EmitDsl(ir), ir.conditions, SubjectOf(ref))
  <2> DEFINE s == SubjectOf(ref)
  <2>1. s.condition = ref.condition /\ s.condition \in {"none"} \cup ToSet(ir.conditions)
    BY <1>1 DEF SubjectOf
  <2>2. CASE ref.kind = "user"
    <3>1. s.type = "user" /\ s.relation = "none"
      BY <2>2 DEF SubjectOf
    <3>2. "user" \in NameSet(EmitDsl(ir))
      BY TypeNamesStand
    <3> HIDE DEF s
    <3>3. SubjectStands(EmitDsl(ir), ir.conditions, s)
      BY <2>1, <3>1, <3>2 DEF SubjectStands
    <3> QED
      BY <3>3 DEF s
  <2>3. CASE ref.kind # "user"
    <3>1. ref.kind = "group"
      <4>1. ref \in SubjectRefs
        BY DEF ToSet
      <4> QED
        BY <2>3, <4>1 DEF SubjectRefs
    <3>2. s.type = ref.group /\ s.relation = "member"
      BY <2>3 DEF SubjectOf
    <3>3. PICK g \in ToSet(ir.groups) : g.name = ref.group
      BY <1>1, <3>1 DEF NameSet, ToSet
    <3>4. GroupTypeOf(g) \in ToSet(EmitDsl(ir)) /\ GroupTypeOf(g).name = ref.group
      BY <3>3, EmittedTypes DEF GroupTypeOf
    <3>5. "member" \in NameSet(GroupTypeOf(g).relations)
      BY RelationOfGroup
    <3>6. Defined(EmitDsl(ir), ref.group, "member")
      BY <3>4, <3>5 DEF Defined
    <3>7. ref.group \in NameSet(EmitDsl(ir))
      BY <3>4, NameSetIs
    <3> HIDE DEF s
    <3>8. SubjectStands(EmitDsl(ir), ir.conditions, s)
      BY <2>1, <3>2, <3>6, <3>7 DEF SubjectStands
    <3> QED
      BY <3>8 DEF s
  <2> QED
    BY <2>2, <2>3
<1> QED
  BY <1>2, <1>3, EmittedSubjects

LEMMA DirectStands ==
  ASSUME NEW types, NEW conditions, NEW t, NEW name, NEW subjects, subjects # <<>>,
         \A s \in ToSet(subjects) : SubjectStands(types, conditions, s)
  PROVE  RelationStands(types, conditions, t, DirectRelation(name, subjects))
<1> DEFINE rel == DirectRelation(name, subjects)
<1>1. rel.subjects = subjects /\ rel.union = <<>>
  BY DEF DirectRelation
<1>2. ToSet(<<>>) = {}
  BY DEF ToSet
<1> HIDE DEF rel
<1>3. RelationStands(types, conditions, t, rel)
  BY <1>1, <1>2 DEF RelationStands
<1> QED
  BY <1>3 DEF rel

LEMMA GroupStands ==
  ASSUME NEW ir \in ModelIRs, ModelErrors(ir) = {}, NEW g \in ToSet(ir.groups)
  PROVE  /\ ~Repeats(Named(GroupTypeOf(g).relations))
         /\ NameSet(GroupTypeOf(g).relations) \cap Malformed = {}
         /\ \A rel \in ToSet(GroupTypeOf(g).relations) :
              RelationStands(EmitDsl(ir), ir.conditions, GroupTypeOf(g), rel)
<1> DEFINE t == GroupTypeOf(g)
           rel == DirectRelation("member", SubjectsOf(g.memberTypes))
<1>1. g.memberTypes \in Seq(SubjectRefs) /\ SubjectErrors(ir, g.memberTypes) = {}
  <2>1. g \in GroupTypes
    BY IrRecords
  <2> QED
    BY <2>1, ValidRefs DEF GroupTypes
<1>2. t.relations = <<rel>> /\ rel.name = "member"
  BY DEF GroupTypeOf, DirectRelation
<1>3. RelationStands(EmitDsl(ir), ir.conditions, t, rel)
  BY <1>1, SubjectsStand, DirectStands
<1> HIDE DEF t, rel
<1>4. DOMAIN <<rel>> = {1} /\ <<rel>>[1] = rel
  OBVIOUS
<1>5. ToSet(t.relations) = {rel} /\ NameSet(t.relations) = {"member"} /\ Named(t.relations) = [i \in {1} |-> "member"]
  BY <1>2, <1>4 DEF ToSet, NameSet, Named
<1>6. ~Repeats(Named(t.relations))
  BY <1>5 DEF Repeats
<1>7. "member" \notin Malformed
  BY ModelContractAssumption
<1> QED
  BY <1>3, <1>5, <1>6, <1>7 DEF t

LEMMA ParentsValid ==
  ASSUME NEW ir \in ModelIRs, ModelErrors(ir) = {}, NEW r \in ToSet(ir.resources), NEW q \in ToSet(r.parents)
  PROVE  /\ q \in ParentRefs /\ q.parentTypes # <<>> /\ ToSet(q.parentTypes) \subseteq NameSet(ir.resources)
         /\ TypesBehind(r, q.relationName) = ToSet(q.parentTypes)
         /\ RelationOf(ResourceTypeOf(r), q.relationName) = ParentRelation(q)
<1>1. ResourceErrors(ir, r) = {}
  BY DEF ModelErrors
<1>2. ParentErrors(ir, r) = {}
  BY <1>1 DEF ResourceErrors
<1>3. r \in ResourceTypes /\ q \in ParentRefs
  BY IrRecords, ResourceRecords
<1>4. PICK i \in DOMAIN r.parents : r.parents[i] = q
  BY DEF ToSet
<1>5. q.parentTypes # <<>> /\ ToSet(q.parentTypes) \subseteq NameSet(ir.resources)
  <2> DEFINE broken == \/ q.parentTypes = <<>> \/ ~(ToSet(q.parentTypes) \subseteq NameSet(ir.resources))
             e(k) == When(Repeats(r.parents[k].parentTypes), "DUP_PARENT_RELATION")
                     \cup When(r.parents[k].parentTypes = <<>>
                                 \/ ~(ToSet(r.parents[k].parentTypes) \subseteq NameSet(ir.resources)),
                               "UNKNOWN_PARENT")
  <2>a. When(broken, "UNKNOWN_PARENT") \subseteq e(i)
    BY <1>4
  <2>b. UNION {e(k) : k \in DOMAIN r.parents} \subseteq ParentErrors(ir, r)
    BY DEF ParentErrors
  <2> HIDE DEF broken, e
  <2>1. When(broken, "UNKNOWN_PARENT") \subseteq ParentErrors(ir, r)
    BY <2>a, <2>b
  <2>2. ~broken
    BY <1>2, <2>1 DEF When
  <2> QED
    BY <2>2 DEF broken
<1>6. \A k, j \in DOMAIN r.parents : r.parents[k].relationName = r.parents[j].relationName => k = j
  BY ValidRelations
<1>7. TypesBehind(r, q.relationName) = ToSet(q.parentTypes)
  <2>0. DOMAIN r.parents \subseteq Nat
    BY <1>3, ResourceRecords
  <2> DEFINE Q(k) == /\ r.parents[k].relationName = q.relationName
                     /\ \A j \in DOMAIN r.parents : r.parents[j].relationName = q.relationName => k <= j
             c == CHOOSE k \in DOMAIN r.parents : Q(k)
  <2>1. Q(i)
    BY <1>4, <1>6, <2>0
  <2>2. \A k \in DOMAIN r.parents : Q(k) => k = i
    BY <1>4, <1>6
  <2>3. TypesBehind(r, q.relationName) = ToSet(r.parents[c].parentTypes)
    BY DEF TypesBehind
  <2> HIDE DEF Q
  <2>4. c = i
    BY <2>1, <2>2
  <2> QED
    BY <1>4, <2>3, <2>4
<1>8. RelationOf(ResourceTypeOf(r), q.relationName) = ParentRelation(q)
  <2> DEFINE L == ToSet(ResourceTypeOf(r).relations)
  <2>1. ParentRelation(q) \in L
    BY <1>3, EmittedRelations
  <2>2. /\ \A p : ParentRelation(p).name = p.relationName
        /\ \A x : RoleRelation(x).name = x.name
        /\ \A p : PermissionRelation(p).name = CanName[p.name]
    BY DEF ParentRelation, RoleRelation, PermissionRelation, DirectRelation
  <2>3. ASSUME NEW rel \in L, rel.name = q.relationName PROVE rel = ParentRelation(q)
    <3>1. /\ \A role \in ToSet(r.roles) : role.name # q.relationName
          /\ \A e \in ToSet(r.permissions) : CanName[e.name] # q.relationName
      BY ValidRelations
    <3>2. \/ \E p \in ToSet(r.parents) : rel = ParentRelation(p)
          \/ \E role \in ToSet(r.roles) : rel = RoleRelation(role)
          \/ \E p \in ToSet(r.permissions) : rel = PermissionRelation(p)
      BY <1>3, EmittedRelations
    <3> HIDE DEF L
    <3>3. PICK p \in ToSet(r.parents) : rel = ParentRelation(p)
      BY <2>2, <2>3, <3>1, <3>2
    <3>4. p.relationName = q.relationName
      BY <2>2, <2>3, <3>3
    <3>5. PICK j \in DOMAIN r.parents : r.parents[j] = p
      BY DEF ToSet
    <3>6. p = q
      BY <1>4, <1>6, <3>4, <3>5
    <3> QED
      BY <3>3, <3>6
  <2>4. ParentRelation(q).name = q.relationName
    BY <2>2
  <2> HIDE DEF L
  <2>5. (CHOOSE rel \in L : rel.name = q.relationName) = ParentRelation(q)
    BY <2>1, <2>3, <2>4
  <2> QED
    BY <2>5 DEF L, RelationOf
<1> QED
  BY <1>3, <1>5, <1>7, <1>8

LEMMA ResourceNamed ==
  ASSUME NEW ir \in ModelIRs, ModelErrors(ir) = {}, NEW b \in ToSet(ir.resources)
  PROVE  PermissionsOf(ir, b.name) = NameSet(b.permissions)
<1> DEFINE G == Named(ir.groups)
           R == Named(ir.resources)
<1>1. TypeErrors(ir) = {}
  BY DEF ModelErrors
<1>2. ~Repeats(G \o R)
  BY <1>1 DEF TypeErrors, When
<1>3. G \in Seq(STRING) /\ R \in Seq(STRING) /\ DOMAIN R = DOMAIN ir.resources
      /\ \A i \in DOMAIN ir.resources : R[i] = ir.resources[i].name
  BY IrRecords, AllNamed, NamedIs DEF Named
<1> HIDE DEF G, R
<1>4. G \o R \in Seq(STRING)
  BY <1>3
<1>5. Distinct(G \o R)
  <2> DEFINE own == G \o R
  <2> HIDE DEF own
  <2>1. own \in Seq(STRING) /\ ~Repeats(own)
    BY <1>2, <1>4 DEF own
  <2>2. Distinct(own)
    BY <2>1, RepeatsMeans
  <2> QED
    BY <2>2 DEF own
<1>6. Distinct(R)
  BY <1>3, <1>5, ConcatDistinct
<1>7. \A k, j \in DOMAIN ir.resources : ir.resources[k].name = ir.resources[j].name => k = j
  BY <1>3, <1>6 DEF Distinct
<1>8. PICK i \in DOMAIN ir.resources : ir.resources[i] = b
  BY DEF ToSet
<1> DEFINE Q(k) == /\ ir.resources[k].name = b.name
                   /\ \A j \in DOMAIN ir.resources : ir.resources[j].name = b.name => j <= k
           c == CHOOSE k \in DOMAIN ir.resources : Q(k)
<1>9. DOMAIN ir.resources \subseteq Nat
  BY IrRecords
<1>10. Q(i)
  BY <1>7, <1>8, <1>9
<1>11. \A k \in DOMAIN ir.resources : Q(k) => k = i
  BY <1>7, <1>8
<1>12. PermissionsOf(ir, b.name) = NameSet(ir.resources[c].permissions)
  BY DEF PermissionsOf
<1> HIDE DEF Q
<1>13. c = i
  BY <1>10, <1>11
<1> QED
  BY <1>8, <1>12, <1>13

(* The permission is one of every type behind the parent. *)
Inheritable(ir, r, p, rel) ==
  \E q \in ToSet(r.parents) :
    /\ q.relationName = rel
    /\ \A n \in ToSet(q.parentTypes) :
         \E b \in ToSet(ir.resources) : b.name = n /\ p.name \in NameSet(b.permissions)

LEMMA PermissionsValid ==
  ASSUME NEW ir \in ModelIRs, ModelErrors(ir) = {}, NEW r \in ToSet(ir.resources), NEW p \in ToSet(r.permissions)
  PROVE  /\ p \in Permissions /\ p.grantedByRoles # <<>>
         /\ ToSet(p.grantedByRoles) \subseteq NameSet(r.roles)
         /\ \A rel \in ToSet(p.inheritFromParents) : Inheritable(ir, r, p, rel)
<1>1. ResourceErrors(ir, r) = {}
  BY DEF ModelErrors
<1>2. PermissionErrors(ir, r, p) = {}
  BY <1>1 DEF ResourceErrors
<1>3. p \in Permissions
  BY IrRecords, ResourceRecords
<1> DEFINE relations == {r.parents[i].relationName : i \in DOMAIN r.parents}
<1>4. /\ p.grantedByRoles # <<>>
      /\ ToSet(p.grantedByRoles) \subseteq NameSet(r.roles)
      /\ ToSet(p.inheritFromParents) \subseteq relations
      /\ \A rel \in ToSet(p.inheritFromParents) \cap relations :
           \A t \in TypesBehind(r, rel) \cap NameSet(ir.resources) : p.name \in PermissionsOf(ir, t)
  BY <1>2 DEF PermissionErrors, When
<1>5. ASSUME NEW rel \in ToSet(p.inheritFromParents)
      PROVE  Inheritable(ir, r, p, rel)
  <2>1. PICK i \in DOMAIN r.parents : r.parents[i].relationName = rel
    BY <1>4
  <2> DEFINE q == r.parents[i]
  <2>2. q \in ToSet(r.parents) /\ q.relationName = rel
    BY <2>1 DEF ToSet
  <2> HIDE DEF q
  <2>3. ToSet(q.parentTypes) \subseteq NameSet(ir.resources) /\ TypesBehind(r, rel) = ToSet(q.parentTypes)
    BY <2>2, ParentsValid
  <2>4. ASSUME NEW n \in ToSet(q.parentTypes)
        PROVE  \E b \in ToSet(ir.resources) : b.name = n /\ p.name \in NameSet(b.permissions)
    <3>1. p.name \in PermissionsOf(ir, n)
      BY <1>4, <2>1, <2>3
    <3>2. PICK b \in ToSet(ir.resources) : b.name = n
      BY <2>3 DEF NameSet, ToSet
    <3> QED
      BY <3>1, <3>2, ResourceNamed
  <2> QED
    BY <2>2, <2>4 DEF Inheritable
<1> QED
  BY <1>3, <1>4, <1>5

LEMMA HasRelation ==
  ASSUME NEW ir \in ModelIRs, NEW r \in ToSet(ir.resources)
  PROVE  /\ ResourceTypeOf(r) \in ToSet(EmitDsl(ir)) /\ ResourceTypeOf(r).name = r.name
         /\ \A q \in ToSet(r.parents) : q.relationName \in NameSet(ResourceTypeOf(r).relations)
         /\ \A n \in NameSet(r.roles) : n \in NameSet(ResourceTypeOf(r).relations)
         /\ \A n \in NameSet(r.permissions) : CanName[n] \in NameSet(ResourceTypeOf(r).relations)
<1> DEFINE L == ResourceTypeOf(r).relations
<1>1. \A x : x \in ToSet(L) => x.name \in NameSet(L)
  BY NameSetIs
<1>2. r \in ResourceTypes
  BY IrRecords
<1>3. /\ \A p \in ToSet(r.parents) : ParentRelation(p) \in ToSet(L)
      /\ \A x \in ToSet(r.roles) : RoleRelation(x) \in ToSet(L)
      /\ \A p \in ToSet(r.permissions) : PermissionRelation(p) \in ToSet(L)
  BY <1>2, EmittedRelations
<1>4. /\ \A p : ParentRelation(p).name = p.relationName
      /\ \A x : RoleRelation(x).name = x.name
      /\ \A p : PermissionRelation(p).name = CanName[p.name]
  BY DEF ParentRelation, RoleRelation, PermissionRelation, DirectRelation
<1>5. ResourceTypeOf(r) \in ToSet(EmitDsl(ir)) /\ ResourceTypeOf(r).name = r.name
  BY EmittedTypes DEF ResourceTypeOf
<1> HIDE DEF L
<1>6. \A q \in ToSet(r.parents) : q.relationName \in NameSet(L)
  BY <1>1, <1>3, <1>4
<1>7. ASSUME NEW n \in NameSet(r.roles) PROVE n \in NameSet(L)
  <2>1. PICK x \in ToSet(r.roles) : x.name = n
    BY DEF NameSet, ToSet
  <2> QED
    BY <1>1, <1>3, <1>4, <2>1
<1>8. ASSUME NEW n \in NameSet(r.permissions) PROVE CanName[n] \in NameSet(L)
  <2>1. PICK x \in ToSet(r.permissions) : x.name = n
    BY DEF NameSet, ToSet
  <2>2. PermissionRelation(x).name = CanName[n]
    BY <1>4, <2>1
  <2> QED
    BY <1>1, <1>3, <2>2
<1> QED
  BY <1>5, <1>6, <1>7, <1>8 DEF L

(* The operands of a permission's union. *)
LEMMA EmittedOperands ==
  ASSUME NEW p \in Permissions
  PROVE  /\ \A op : op \in ToSet(PermissionRelation(p).union) <=>
              \/ \E n \in ToSet(p.grantedByRoles) : op = [relation |-> n, from |-> "none"]
              \/ \E n \in ToSet(p.inheritFromParents) : op = [relation |-> CanName[p.name], from |-> n]
         /\ p.grantedByRoles # <<>> => PermissionRelation(p).union # <<>>
<1> DEFINE A == [i \in DOMAIN p.grantedByRoles |-> [relation |-> p.grantedByRoles[i], from |-> "none"]]
           B == [i \in DOMAIN p.inheritFromParents |-> [relation |-> CanName[p.name], from |-> p.inheritFromParents[i]]]
           X == {[relation |-> n, from |-> "none"] : n \in ToSet(p.grantedByRoles)}
                \cup {[relation |-> CanName[p.name], from |-> n] : n \in ToSet(p.inheritFromParents)}
<1>1. /\ p.grantedByRoles \in Seq(STRING) /\ p.inheritFromParents \in Seq(STRING)
      /\ Len(p.grantedByRoles) \in Nat /\ DOMAIN p.grantedByRoles = 1..Len(p.grantedByRoles)
      /\ Len(p.inheritFromParents) \in Nat /\ DOMAIN p.inheritFromParents = 1..Len(p.inheritFromParents)
  BY DEF Permissions
<1>2. /\ \A i \in 1..Len(p.grantedByRoles) : p.grantedByRoles[i] \in ToSet(p.grantedByRoles)
      /\ \A i \in 1..Len(p.inheritFromParents) : p.inheritFromParents[i] \in ToSet(p.inheritFromParents)
  BY <1>1 DEF ToSet
<1>3. A \in [1..Len(p.grantedByRoles) -> X] /\ B \in [1..Len(p.inheritFromParents) -> X]
  BY <1>1, <1>2
<1>4. /\ \A op : op \in ToSet(A) <=> \E n \in ToSet(p.grantedByRoles) : op = [relation |-> n, from |-> "none"]
      /\ \A op : op \in ToSet(B) <=> \E n \in ToSet(p.inheritFromParents) : op = [relation |-> CanName[p.name], from |-> n]
  <2>1. DOMAIN A = DOMAIN p.grantedByRoles /\ DOMAIN B = DOMAIN p.inheritFromParents
    OBVIOUS
  <2> QED
    BY DEF ToSet
<1>5. PermissionRelation(p).union = A \o B
  BY DEF PermissionRelation
<1>6. Len(A) = Len(p.grantedByRoles)
  BY <1>1
<1> HIDE DEF A, B, X
<1>7. A \in Seq(X) /\ B \in Seq(X)
  BY <1>1, <1>3, FunctionIsList
<1>8. ToSet(A \o B) = ToSet(A) \cup ToSet(B)
  BY <1>7, ConcatSet
<1>9. ASSUME p.grantedByRoles # <<>> PROVE A \o B # <<>>
  <2>1. Len(p.grantedByRoles) # 0
    BY <1>1, <1>9, EmptySeq
  <2>2. Len(A \o B) = Len(A) + Len(B) /\ Len(A) \in Nat /\ Len(B) \in Nat
    BY <1>7
  <2>3. Len(A \o B) # 0
    BY <1>6, <2>1, <2>2
  <2> QED
    BY <2>3, EmptySeq
<1> QED
  BY <1>4, <1>5, <1>8, <1>9

LEMMA ParentSubjectsStand ==
  ASSUME NEW ir \in ModelIRs, ModelErrors(ir) = {}, NEW r \in ToSet(ir.resources), NEW q \in ToSet(r.parents)
  PROVE  /\ ParentSubjects(q.parentTypes) # <<>>
         /\ \A s : s \in ToSet(ParentSubjects(q.parentTypes)) <=>
              \E n \in ToSet(q.parentTypes) : s = [type |-> n, relation |-> "none", condition |-> "none"]
         /\ \A s \in ToSet(ParentSubjects(q.parentTypes)) : SubjectStands(EmitDsl(ir), ir.conditions, s)
<1> DEFINE m == ParentSubjects(q.parentTypes)
           e(n) == [type |-> n, relation |-> "none", condition |-> "none"]
<1>1. q \in ParentRefs /\ q.parentTypes # <<>> /\ ToSet(q.parentTypes) \subseteq NameSet(ir.resources)
  BY ParentsValid
<1>2. q.parentTypes \in Seq(STRING)
  BY <1>1 DEF ParentRefs
<1>3. 1 \in DOMAIN q.parentTypes
  BY <1>1, <1>2, ListIsThere
<1>4. DOMAIN m = DOMAIN q.parentTypes /\ \A i \in DOMAIN m : m[i] = e(q.parentTypes[i])
  BY DEF ParentSubjects
<1>5. DOMAIN <<>> = {}
  OBVIOUS
<1>6. \A n : e(n).type = n /\ e(n).relation = "none" /\ e(n).condition = "none"
  OBVIOUS
<1> HIDE DEF m, e
<1>7. m # <<>>
  BY <1>3, <1>4, <1>5
<1>8. \A s : s \in ToSet(m) <=> \E n \in ToSet(q.parentTypes) : s = e(n)
  BY <1>4 DEF ToSet
<1>9. ASSUME NEW n \in ToSet(q.parentTypes) PROVE SubjectStands(EmitDsl(ir), ir.conditions, e(n))
  <2>1. n \in NameSet(EmitDsl(ir))
    BY <1>1, TypeNamesStand
  <2> QED
    BY <1>6, <2>1 DEF SubjectStands
<1>10. \A s \in ToSet(m) : SubjectStands(EmitDsl(ir), ir.conditions, s)
  BY <1>8, <1>9
<1> QED
  BY <1>7, <1>8, <1>10 DEF m, e

LEMMA ResourceStands ==
  ASSUME NEW ir \in ModelIRs, ModelErrors(ir) = {}, NEW r \in ToSet(ir.resources),
         NEW rel \in ToSet(ResourceTypeOf(r).relations)
  PROVE  RelationStands(EmitDsl(ir), ir.conditions, ResourceTypeOf(r), rel)
<1> DEFINE t == ResourceTypeOf(r)
           types == EmitDsl(ir)
<1>1. r \in ResourceTypes
  BY IrRecords
<1>2. \/ \E p \in ToSet(r.parents) : rel = ParentRelation(p)
      \/ \E role \in ToSet(r.roles) : rel = RoleRelation(role)
      \/ \E p \in ToSet(r.permissions) : rel = PermissionRelation(p)
  BY <1>1, EmittedRelations
<1>3. ASSUME NEW q \in ToSet(r.parents), rel = ParentRelation(q)
      PROVE  RelationStands(types, ir.conditions, t, rel)
  <2> HIDE DEF t, types
  <2>1. /\ ParentSubjects(q.parentTypes) # <<>>
        /\ \A s \in ToSet(ParentSubjects(q.parentTypes)) : SubjectStands(types, ir.conditions, s)
    BY ParentSubjectsStand DEF types
  <2> QED
    BY <1>3, <2>1, DirectStands DEF ParentRelation
<1>4. ASSUME NEW role \in ToSet(r.roles), rel = RoleRelation(role)
      PROVE  RelationStands(types, ir.conditions, t, rel)
  <2>1. role.assignableBy \in Seq(SubjectRefs) /\ SubjectErrors(ir, role.assignableBy) = {}
    <3>1. role \in Roles
      BY <1>1, ResourceRecords
    <3> QED
      BY <3>1, ValidRefs DEF Roles
  <2> HIDE DEF t, types
  <2>2. /\ SubjectsOf(role.assignableBy) # <<>>
        /\ \A s \in ToSet(SubjectsOf(role.assignableBy)) : SubjectStands(types, ir.conditions, s)
    BY <2>1, SubjectsStand DEF types
  <2> QED
    BY <1>4, <2>2, DirectStands DEF RoleRelation
<1>5. ASSUME NEW p \in ToSet(r.permissions), rel = PermissionRelation(p)
      PROVE  RelationStands(types, ir.conditions, t, rel)
  <2>1. /\ p \in Permissions /\ p.grantedByRoles # <<>>
        /\ ToSet(p.grantedByRoles) \subseteq NameSet(r.roles)
        /\ \A rl \in ToSet(p.inheritFromParents) : Inheritable(ir, r, p, rl)
    BY PermissionsValid
  <2>2. rel.subjects = <<>> /\ ToSet(<<>>) = {} /\ rel.union # <<>>
    <3>1. rel.subjects = <<>> /\ ToSet(<<>>) = {}
      BY <1>5 DEF PermissionRelation, ToSet
    <3>2. rel.union # <<>>
      BY <1>5, <2>1, EmittedOperands
    <3> QED
      BY <3>1, <3>2
  <2>3. \A op : op \in ToSet(rel.union) <=>
              \/ \E n \in ToSet(p.grantedByRoles) : op = [relation |-> n, from |-> "none"]
              \/ \E n \in ToSet(p.inheritFromParents) : op = [relation |-> CanName[p.name], from |-> n]
    BY <1>5, <2>1, EmittedOperands
  <2>4. /\ \A n \in NameSet(r.roles) : n \in NameSet(t.relations)
        /\ \A n \in NameSet(r.permissions) : CanName[n] \in NameSet(t.relations)
        /\ \A q \in ToSet(r.parents) : q.relationName \in NameSet(t.relations)
    BY HasRelation
  <2>5. p.name \in NameSet(r.permissions)
    BY NameSetIs
  <2>6. ASSUME NEW op, NEW n \in ToSet(p.grantedByRoles), op = [relation |-> n, from |-> "none"]
        PROVE  OperandStands(types, t, op)
    <3>1. op.from = "none" /\ op.relation = n
      BY <2>6
    <3>2. n \in NameSet(t.relations)
      BY <2>1, <2>4
    <3> HIDE DEF t, types
    <3> QED
      BY <3>1, <3>2 DEF OperandStands
  <2>7. ASSUME NEW op, NEW n \in ToSet(p.inheritFromParents), op = [relation |-> CanName[p.name], from |-> n]
        PROVE  OperandStands(types, t, op)
    <3>1. op.from = n /\ op.relation = CanName[p.name]
      BY <2>7
    <3>2. CanName[p.name] \in NameSet(t.relations)
      BY <2>4, <2>5
    <3>3. PICK q \in ToSet(r.parents) :
               /\ q.relationName = n
               /\ \A m \in ToSet(q.parentTypes) :
                    \E b \in ToSet(ir.resources) : b.name = m /\ p.name \in NameSet(b.permissions)
      BY <2>1 DEF Inheritable
    <3>4. n \in NameSet(t.relations)
      BY <2>4, <3>3
    <3>5. RelationOf(t, n) = ParentRelation(q)
      BY <3>3, ParentsValid
    <3>6. ParentRelation(q).union = <<>> /\ ParentRelation(q).subjects = ParentSubjects(q.parentTypes)
      BY DEF ParentRelation, DirectRelation
    <3>7. ASSUME NEW s \in ToSet(ParentSubjects(q.parentTypes))
          PROVE  s.relation = "none" /\ Defined(types, s.type, CanName[p.name])
      <4>1. PICK m \in ToSet(q.parentTypes) : s = [type |-> m, relation |-> "none", condition |-> "none"]
        BY ParentSubjectsStand
      <4>2. s.type = m /\ s.relation = "none"
        BY <4>1
      <4>3. PICK b \in ToSet(ir.resources) : b.name = m /\ p.name \in NameSet(b.permissions)
        BY <3>3
      <4>4. /\ ResourceTypeOf(b) \in ToSet(types) /\ ResourceTypeOf(b).name = m
            /\ CanName[p.name] \in NameSet(ResourceTypeOf(b).relations)
        BY <4>3, HasRelation
      <4> HIDE DEF t, types
      <4> QED
        BY <4>2, <4>4 DEF Defined
    <3> HIDE DEF t, types
    <3> QED
      BY <3>1, <3>2, <3>4, <3>5, <3>6, <3>7 DEF OperandStands
  <2>8. \A op \in ToSet(rel.union) : OperandStands(types, t, op)
    <3> HIDE DEF t, types
    <3> QED
      BY <2>3, <2>6, <2>7
  <2> HIDE DEF t, types
  <2> QED
    BY <2>2, <2>8 DEF RelationStands
<1> HIDE DEF t, types
<1>6. RelationStands(types, ir.conditions, t, rel)
  BY <1>2, <1>3, <1>4, <1>5
<1> QED
  BY <1>6 DEF t, types

(* All that OpenFGA can refuse of a valid model is one that is over its limits,
   or a relation nobody enters. *)
LEMMA AcceptedWhenEntered ==
  ASSUME NEW ir \in ModelIRs, ModelErrors(ir) = {}
  PROVE  OpenfgaAccepts(EmitDsl(ir), ir.conditions) <=>
           WithinLimits(EmitDsl(ir), ir.conditions) /\ Entered(EmitDsl(ir)) = Pairs(EmitDsl(ir))
<1> DEFINE types == EmitDsl(ir)
<1>1. ~Repeats(Named(types)) /\ NameSet(types) \cap Malformed = {}
  BY TypeNamesStand
<1>2. ~Repeats(ir.conditions) /\ ToSet(ir.conditions) \cap Malformed = {}
  BY ValidRefs, ModelContractAssumption
<1>3. ASSUME NEW t \in ToSet(types)
      PROVE  /\ ~Repeats(Named(t.relations)) /\ NameSet(t.relations) \cap Malformed = {}
             /\ \A rel \in ToSet(t.relations) : RelationStands(types, ir.conditions, t, rel)
  <2>1. \/ t = UserType
        \/ \E g \in ToSet(ir.groups) : t = GroupTypeOf(g)
        \/ \E r \in ToSet(ir.resources) : t = ResourceTypeOf(r)
    BY EmittedTypes
  <2>2. ASSUME t = UserType
        PROVE  /\ ~Repeats(Named(t.relations)) /\ NameSet(t.relations) \cap Malformed = {}
               /\ ToSet(t.relations) = {}
    <3>1. t.relations = <<>>
      BY <2>2 DEF UserType
    <3>2. DOMAIN <<>> = {}
      OBVIOUS
    <3>3. ToSet(<<>>) = {} /\ NameSet(<<>>) = {} /\ DOMAIN Named(<<>>) = {}
      BY <3>2 DEF ToSet, NameSet, Named
    <3>4. ~Repeats(Named(<<>>))
      BY <3>3 DEF Repeats
    <3> QED
      BY <3>1, <3>3, <3>4
  <2>3. ASSUME NEW g \in ToSet(ir.groups), t = GroupTypeOf(g)
        PROVE  /\ ~Repeats(Named(t.relations)) /\ NameSet(t.relations) \cap Malformed = {}
               /\ \A rel \in ToSet(t.relations) : RelationStands(types, ir.conditions, t, rel)
    BY <2>3, GroupStands
  <2>4. ASSUME NEW r \in ToSet(ir.resources), t = ResourceTypeOf(r)
        PROVE  /\ ~Repeats(Named(t.relations)) /\ NameSet(t.relations) \cap Malformed = {}
               /\ \A rel \in ToSet(t.relations) : RelationStands(types, ir.conditions, t, rel)
    BY <2>4, RelationNamesStand, ResourceStands
  <2> HIDE DEF types
  <2> QED
    BY <2>1, <2>2, <2>3, <2>4
<1> HIDE DEF types
<1>4. OpenfgaAccepts(types, ir.conditions) <=>
        WithinLimits(types, ir.conditions) /\ Entered(types) = Pairs(types)
  BY <1>1, <1>2, <1>3 DEF OpenfgaAccepts
<1> QED
  BY <1>4 DEF types

(* OpenFGA's limits, told of the ModelIR. *)
LEMMA ConcatIsAsLong ==
  ASSUME NEW X, NEW a \in Seq(X), NEW b \in Seq(X)
  PROVE  a \o b \in Seq(X) /\ Len(a \o b) = Len(a) + Len(b)
OBVIOUS

LEMMA LengthOfTypes ==
  ASSUME NEW ir \in ModelIRs, ModelErrors(ir) = {}
  PROVE  Len(EmitDsl(ir)) = 1 + Len(ir.groups) + Len(ir.resources)
<1> DEFINE U == <<[name |-> "user", relations |-> <<>>]>>
           G == [i \in DOMAIN ir.groups |-> GroupTypeOf(ir.groups[i])]
           R == [i \in DOMAIN ir.resources |-> ResourceTypeOf(ir.resources[i])]
           X == {UserType} \cup {GroupTypeOf(g) : g \in ToSet(ir.groups)}
                \cup {ResourceTypeOf(r) : r \in ToSet(ir.resources)}
<1>1. /\ Len(ir.groups) \in Nat /\ DOMAIN ir.groups = 1..Len(ir.groups)
      /\ Len(ir.resources) \in Nat /\ DOMAIN ir.resources = 1..Len(ir.resources)
  BY IrRecords
<1>2. /\ \A i \in 1..Len(ir.groups) : ir.groups[i] \in ToSet(ir.groups)
      /\ \A i \in 1..Len(ir.resources) : ir.resources[i] \in ToSet(ir.resources)
  BY <1>1 DEF ToSet
<1>3. U \in Seq(X) /\ Len(U) = 1
  BY DEF UserType
<1>4. G \in [1..Len(ir.groups) -> X] /\ R \in [1..Len(ir.resources) -> X]
  BY <1>1, <1>2
<1>5. G \in Seq(X) /\ Len(G) = Len(ir.groups) /\ R \in Seq(X) /\ Len(R) = Len(ir.resources)
  BY <1>1, <1>4, FunctionIsList
<1>6. EmitDsl(ir) = (U \o G) \o R
  BY DEF EmitDsl
<1> HIDE DEF U, G, R, X
<1>7. Len((U \o G) \o R) = 1 + Len(ir.groups) + Len(ir.resources)
  <2> DEFINE UG == U \o G
  <2>1. UG \in Seq(X) /\ Len(UG) = Len(U) + Len(G)
    BY ONLY <1>3, <1>5, ConcatIsAsLong
  <2> HIDE DEF UG
  <2>2. Len(UG \o R) = Len(UG) + Len(R)
    BY ONLY <1>5, <2>1, ConcatIsAsLong
  <2> QED
    BY ONLY <1>1, <1>3, <1>5, <2>1, <2>2 DEF UG
<1> QED
  BY <1>6, <1>7

LEMMA LimitsAreOfTheIr ==
  ASSUME NEW ir \in ModelIRs, ModelErrors(ir) = {}
  PROVE  WithinLimits(EmitDsl(ir), ir.conditions) <=> KeepsLimits(ir)
<1> DEFINE types == EmitDsl(ir)
<1>1. NameSet(types) = ({"user"} \cup NameSet(ir.groups)) \cup NameSet(ir.resources)
  BY TypeNamesStand
<1>2. "user" \notin TooLong["type"] /\ "member" \notin TooLong["relation"]
  BY ModelContractAssumption
<1>3. \A t : t \in ToSet(types) <=>
        \/ t = UserType
        \/ \E g \in ToSet(ir.groups) : t = GroupTypeOf(g)
        \/ \E r \in ToSet(ir.resources) : t = ResourceTypeOf(r)
  BY EmittedTypes
<1>4. NameSet(UserType.relations) = {}
  <2>1. UserType.relations = <<>> /\ DOMAIN <<>> = {}
    BY DEF UserType
  <2> QED
    BY <2>1 DEF NameSet
<1>5. ASSUME NEW g PROVE NameSet(GroupTypeOf(g).relations) = {"member"}
  <2> DEFINE rel == DirectRelation("member", SubjectsOf(g.memberTypes))
  <2>1. GroupTypeOf(g).relations = <<rel>> /\ rel.name = "member"
    BY DEF GroupTypeOf, DirectRelation
  <2> HIDE DEF rel
  <2>2. DOMAIN <<rel>> = {1} /\ <<rel>>[1] = rel
    OBVIOUS
  <2> QED
    BY <2>1, <2>2 DEF NameSet
<1>6. ASSUME NEW r \in ToSet(ir.resources)
      PROVE  NameSet(ResourceTypeOf(r).relations) = RelationNamesOf(r)
  <2>1. r \in ResourceTypes
    BY IrRecords
  <2>2. \A rel : rel \in ToSet(ResourceTypeOf(r).relations) <=>
           \/ \E p \in ToSet(r.parents) : rel = ParentRelation(p)
           \/ \E role \in ToSet(r.roles) : rel = RoleRelation(role)
           \/ \E p \in ToSet(r.permissions) : rel = PermissionRelation(p)
    BY <2>1, EmittedRelations
  <2>3. /\ \A p : ParentRelation(p).name = p.relationName
        /\ \A x : RoleRelation(x).name = x.name
        /\ \A p : PermissionRelation(p).name = CanName[p.name]
    BY DEF ParentRelation, RoleRelation, PermissionRelation, DirectRelation
  <2>4. \A n : n \in NameSet(ResourceTypeOf(r).relations) <=>
           \E rel \in ToSet(ResourceTypeOf(r).relations) : n = rel.name
    BY DEF NameSet, ToSet
  <2>5. \A n : n \in NameSet(r.roles) <=> \E x \in ToSet(r.roles) : n = x.name
    BY DEF NameSet, ToSet
  <2>6. \A n : n \in {r.parents[i].relationName : i \in DOMAIN r.parents} <=>
           \E p \in ToSet(r.parents) : n = p.relationName
    BY DEF ToSet
  <2>7. \A n : n \in RelationNamesOf(r) <=>
           \/ \E p \in ToSet(r.parents) : n = p.relationName
           \/ \E x \in ToSet(r.roles) : n = x.name
           \/ \E p \in ToSet(r.permissions) : n = CanName[p.name]
    BY <2>5, <2>6 DEF RelationNamesOf
  <2>8. ASSUME NEW n PROVE n \in NameSet(ResourceTypeOf(r).relations) <=> n \in RelationNamesOf(r)
    <3>1. ASSUME NEW rel \in ToSet(ResourceTypeOf(r).relations), n = rel.name
          PROVE  n \in RelationNamesOf(r)
      <4>1. CASE \E q \in ToSet(r.parents) : rel = ParentRelation(q)
        BY <3>1, <4>1, <2>3, <2>7
      <4>2. CASE \E role \in ToSet(r.roles) : rel = RoleRelation(role)
        BY <3>1, <4>2, <2>3, <2>7
      <4>3. CASE \E p \in ToSet(r.permissions) : rel = PermissionRelation(p)
        BY <3>1, <4>3, <2>3, <2>7
      <4> QED
        BY ONLY <3>1, <4>1, <4>2, <4>3, <2>2
    <3>2. ASSUME NEW q \in ToSet(r.parents), n = q.relationName
          PROVE  n \in NameSet(ResourceTypeOf(r).relations)
      <4>1. ParentRelation(q) \in ToSet(ResourceTypeOf(r).relations) /\ n = ParentRelation(q).name
        BY ONLY <3>2, <2>2, <2>3
      <4> QED
        BY ONLY <4>1, <2>4
    <3>3. ASSUME NEW x \in ToSet(r.roles), n = x.name
          PROVE  n \in NameSet(ResourceTypeOf(r).relations)
      <4>1. RoleRelation(x) \in ToSet(ResourceTypeOf(r).relations) /\ n = RoleRelation(x).name
        BY ONLY <3>3, <2>2, <2>3
      <4> QED
        BY ONLY <4>1, <2>4
    <3>4. ASSUME NEW p \in ToSet(r.permissions), n = CanName[p.name]
          PROVE  n \in NameSet(ResourceTypeOf(r).relations)
      <4>1. PermissionRelation(p) \in ToSet(ResourceTypeOf(r).relations) /\ n = PermissionRelation(p).name
        BY ONLY <3>4, <2>2, <2>3
      <4> QED
        BY ONLY <4>1, <2>4
    <3> QED
      BY ONLY <3>1, <3>2, <3>3, <3>4, <2>4, <2>7
  <2> QED
    BY <2>8
<1>7. (\A t \in ToSet(types) : NameSet(t.relations) \cap TooLong["relation"] = {})
        <=> \A r \in ToSet(ir.resources) : RelationNamesOf(r) \cap TooLong["relation"] = {}
  <2> HIDE DEF types
  <2> QED
    BY <1>2, <1>3, <1>4, <1>5, <1>6
<1>8. Len(types) = 1 + Len(ir.groups) + Len(ir.resources)
  BY LengthOfTypes
<1> HIDE DEF types
<1>9. WithinLimits(types, ir.conditions) <=> KeepsLimits(ir)
  BY <1>1, <1>2, <1>7, <1>8 DEF WithinLimits, KeepsLimits
<1> QED
  BY <1>9 DEF types

-----------------------------------------------------------------------------
(* There are only so many relations to enter. *)
LEMMA PairsAreFinite ==
  ASSUME NEW ir \in ModelIRs
  PROVE  IsFiniteSet(Pairs(EmitDsl(ir)))
<1> DEFINE T == ToSet(EmitDsl(ir))
<1>1. IsFiniteSet(T)
  <2> DEFINE fg == [g \in ToSet(ir.groups) |-> GroupTypeOf(g)]
             fr == [r \in ToSet(ir.resources) |-> ResourceTypeOf(r)]
             A == {fg[g] : g \in ToSet(ir.groups)}
             B == {fr[r] : r \in ToSet(ir.resources)}
  <2>1. IsFiniteSet(ToSet(ir.groups)) /\ IsFiniteSet(ToSet(ir.resources))
    BY IrRecords, ListIsFinite
  <2>2. \A t : t \in A <=> \E g \in ToSet(ir.groups) : t = GroupTypeOf(g)
    OBVIOUS
  <2>3. \A t : t \in B <=> \E r \in ToSet(ir.resources) : t = ResourceTypeOf(r)
    OBVIOUS
  <2>4. DOMAIN fg = ToSet(ir.groups) /\ DOMAIN fr = ToSet(ir.resources)
    OBVIOUS
  <2>5. IsFiniteSet(A)
    <3> HIDE DEF fg
    <3> QED
      BY <2>1, <2>4, ImageIsFinite
  <2>6. IsFiniteSet(B)
    <3> HIDE DEF fr
    <3> QED
      BY <2>1, <2>4, ImageIsFinite
  <2>7. IsFiniteSet({UserType})
    BY FS_Singleton
  <2>8. T = ({UserType} \cup A) \cup B
    <3> HIDE DEF A, B
    <3>1. \A t : t \in T <=> t \in ({UserType} \cup A) \cup B
      BY <2>2, <2>3, EmittedTypes
    <3> QED
      BY <3>1
  <2> HIDE DEF A, B, T
  <2>9. IsFiniteSet({UserType} \cup A)
    BY <2>5, <2>7, FS_Union
  <2>10. IsFiniteSet(({UserType} \cup A) \cup B)
    BY <2>6, <2>9, FS_Union
  <2> QED
    BY <2>8, <2>10
<1>2. \A t \in T : IsFiniteSet(ToSet(t.relations))
  <2>1. IsFiniteSet(ToSet(UserType.relations))
    <3>1. ToSet(UserType.relations) = {}
      BY DEF UserType, ToSet
    <3> QED
      BY <3>1, FS_EmptySet
  <2>2. ASSUME NEW g PROVE IsFiniteSet(ToSet(GroupTypeOf(g).relations))
    <3> DEFINE rel == DirectRelation("member", SubjectsOf(g.memberTypes))
    <3>1. GroupTypeOf(g).relations = <<rel>>
      BY DEF GroupTypeOf
    <3> HIDE DEF rel
    <3>2. ToSet(<<rel>>) = {rel}
      BY DEF ToSet
    <3> QED
      BY <3>1, <3>2, FS_Singleton
  <2>3. ASSUME NEW r \in ToSet(ir.resources) PROVE IsFiniteSet(ToSet(ResourceTypeOf(r).relations))
    <3> DEFINE fp == [p \in ToSet(r.parents) |-> ParentRelation(p)]
               fx == [x \in ToSet(r.roles) |-> RoleRelation(x)]
               fe == [p \in ToSet(r.permissions) |-> PermissionRelation(p)]
               A == {fp[p] : p \in ToSet(r.parents)}
               B == {fx[x] : x \in ToSet(r.roles)}
               E == {fe[p] : p \in ToSet(r.permissions)}
               L == ToSet(ResourceTypeOf(r).relations)
    <3>1. r \in ResourceTypes
      BY IrRecords
    <3>2. IsFiniteSet(ToSet(r.parents)) /\ IsFiniteSet(ToSet(r.roles)) /\ IsFiniteSet(ToSet(r.permissions))
      BY <3>1, ResourceRecords, ListIsFinite
    <3>3. \A t : t \in A <=> \E p \in ToSet(r.parents) : t = ParentRelation(p)
      OBVIOUS
    <3>4. \A t : t \in B <=> \E x \in ToSet(r.roles) : t = RoleRelation(x)
      OBVIOUS
    <3>5. \A t : t \in E <=> \E p \in ToSet(r.permissions) : t = PermissionRelation(p)
      OBVIOUS
    <3>6. DOMAIN fp = ToSet(r.parents) /\ DOMAIN fx = ToSet(r.roles) /\ DOMAIN fe = ToSet(r.permissions)
      OBVIOUS
    <3>7. IsFiniteSet(A)
      <4> HIDE DEF fp
      <4> QED
        BY <3>2, <3>6, ImageIsFinite
    <3>8. IsFiniteSet(B)
      <4> HIDE DEF fx
      <4> QED
        BY <3>2, <3>6, ImageIsFinite
    <3>9. IsFiniteSet(E)
      <4> HIDE DEF fe
      <4> QED
        BY <3>2, <3>6, ImageIsFinite
    <3> HIDE DEF A, B, E
    <3>10. L = (A \cup B) \cup E
      <4>1. \A t : t \in L <=> t \in (A \cup B) \cup E
        BY <3>1, <3>3, <3>4, <3>5, EmittedRelations
      <4> HIDE DEF L
      <4> QED
        BY <4>1
    <3> HIDE DEF L
    <3>11. IsFiniteSet(A \cup B)
      BY <3>7, <3>8, FS_Union
    <3>12. IsFiniteSet((A \cup B) \cup E)
      BY <3>9, <3>11, FS_Union
    <3> QED
      BY <3>10, <3>12 DEF L
  <2> SUFFICES ASSUME NEW t \in T PROVE IsFiniteSet(ToSet(t.relations))
    OBVIOUS
  <2>4. \/ t = UserType
        \/ \E g \in ToSet(ir.groups) : t = GroupTypeOf(g)
        \/ \E r \in ToSet(ir.resources) : t = ResourceTypeOf(r)
    BY EmittedTypes
  <2> QED
    BY <2>1, <2>2, <2>3, <2>4
<1> DEFINE pairs(t) == {<<t.name, rel.name>> : rel \in ToSet(t.relations)}
<1>3. ASSUME NEW t \in T PROVE IsFiniteSet(pairs(t))
  <2> DEFINE f == [rel \in ToSet(t.relations) |-> <<t.name, rel.name>>]
  <2>1. DOMAIN f = ToSet(t.relations) /\ pairs(t) = {f[rel] : rel \in ToSet(t.relations)}
    OBVIOUS
  <2>2. IsFiniteSet(ToSet(t.relations))
    BY <1>2
  <2> HIDE DEF f, pairs
  <2> QED
    BY <2>1, <2>2, ImageIsFinite
<1> DEFINE f == [t \in T |-> pairs(t)]
           S == {f[t] : t \in T}
<1>4. Pairs(EmitDsl(ir)) = UNION S
  BY DEF Pairs
<1> HIDE DEF pairs
<1>5. \A P \in S : IsFiniteSet(P)
  BY <1>3
<1>6. DOMAIN f = T
  OBVIOUS
<1> HIDE DEF f, T
<1>7. IsFiniteSet(S)
  BY <1>1, <1>6, ImageIsFinite
<1> HIDE DEF S
<1> QED
  BY <1>4, <1>5, <1>7, FS_UNION

(* A relation is entered through the subjects it is given to, a group's
   members through the users and groups in it. *)
LEMMA DirectOpens ==
  ASSUME NEW t, NEW name, NEW subjects, NEW known
  PROVE  Opens(t, DirectRelation(name, subjects), known) <=>
           \E s \in ToSet(subjects) : s.relation = "none" \/ <<s.type, s.relation>> \in known
<1> DEFINE rel == DirectRelation(name, subjects)
<1>1. rel.subjects = subjects /\ rel.union = <<>> /\ ToSet(<<>>) = {}
  BY DEF DirectRelation, ToSet
<1> HIDE DEF rel
<1>2. Opens(t, rel, known) <=>
        \E s \in ToSet(subjects) : s.relation = "none" \/ <<s.type, s.relation>> \in known
  BY <1>1 DEF Opens
<1> QED
  BY <1>2 DEF rel

LEMMA MemberOpens ==
  ASSUME NEW ir \in ModelIRs, ModelErrors(ir) = {}, NEW refs \in Seq(SubjectRefs), SubjectErrors(ir, refs) = {},
         NEW t, NEW name, NEW known
  PROVE  Opens(t, DirectRelation(name, SubjectsOf(refs)), known) <=>
           \/ \E ref \in ToSet(refs) : ref.kind = "user"
           \/ \E ref \in ToSet(refs) :
                /\ ref.kind = "group"
                /\ \E h \in ToSet(ir.groups) : h.name = ref.group /\ <<h.name, "member">> \in known
<1>1. \A s : s \in ToSet(SubjectsOf(refs)) <=> \E ref \in ToSet(refs) : s = SubjectOf(ref)
  BY EmittedSubjects
<1>2. ASSUME NEW ref \in ToSet(refs)
      PROVE  LET s == SubjectOf(ref)
             IN s.relation = "none" \/ <<s.type, s.relation>> \in known <=>
                  \/ ref.kind = "user"
                  \/ /\ ref.kind = "group"
                     /\ \E h \in ToSet(ir.groups) : h.name = ref.group /\ <<h.name, "member">> \in known
  <2> DEFINE s == SubjectOf(ref)
  <2>1. CASE ref.kind = "user"
    <3>1. s.relation = "none"
      BY <2>1 DEF SubjectOf
    <3> QED
      BY <2>1, <3>1
  <2>2. CASE ref.kind # "user"
    <3>1. ref.kind = "group"
      <4>1. ref \in SubjectRefs
        BY DEF ToSet
      <4> QED
        BY <2>2, <4>1 DEF SubjectRefs
    <3>2. s.type = ref.group /\ s.relation = "member"
      BY <2>2 DEF SubjectOf
    <3>3. PICK h \in ToSet(ir.groups) : h.name = ref.group
      <4>1. ref.group \in NameSet(ir.groups)
        BY <3>1, NoSubjectErrors
      <4> QED
        BY <4>1 DEF NameSet, ToSet
    <3> HIDE DEF s
    <3>4. s.relation = "none" \/ <<s.type, s.relation>> \in known <=>
                  \/ ref.kind = "user"
                  \/ /\ ref.kind = "group"
                     /\ \E g \in ToSet(ir.groups) : g.name = ref.group /\ <<g.name, "member">> \in known
      BY <2>2, <3>1, <3>2, <3>3
    <3> QED
      BY <3>4 DEF s
  <2> QED
    BY <2>1, <2>2
<1>3. Opens(t, DirectRelation(name, SubjectsOf(refs)), known) <=>
        \E s \in ToSet(SubjectsOf(refs)) : s.relation = "none" \/ <<s.type, s.relation>> \in known
  BY DirectOpens
<1>4. (\E s \in ToSet(SubjectsOf(refs)) : s.relation = "none" \/ <<s.type, s.relation>> \in known) <=>
        \E ref \in ToSet(refs) : SubjectOf(ref).relation = "none"
                                   \/ <<SubjectOf(ref).type, SubjectOf(ref).relation>> \in known
  BY <1>1
<1> QED
  BY <1>2, <1>3, <1>4

LEMMA GroupRelation ==
  ASSUME NEW ir \in ModelIRs, ModelErrors(ir) = {}, NEW g \in ToSet(ir.groups)
  PROVE  /\ g.memberTypes \in Seq(SubjectRefs) /\ SubjectErrors(ir, g.memberTypes) = {}
         /\ GroupTypeOf(g) \in ToSet(EmitDsl(ir)) /\ GroupTypeOf(g).name = g.name
         /\ \A rel : rel \in ToSet(GroupTypeOf(g).relations) <=>
              rel = DirectRelation("member", SubjectsOf(g.memberTypes))
         /\ DirectRelation("member", SubjectsOf(g.memberTypes)).name = "member"
         /\ <<g.name, "member">> \in Pairs(EmitDsl(ir))
<1> DEFINE t == GroupTypeOf(g)
           rel == DirectRelation("member", SubjectsOf(g.memberTypes))
<1>1. g.memberTypes \in Seq(SubjectRefs) /\ SubjectErrors(ir, g.memberTypes) = {}
  <2>1. g \in GroupTypes
    BY IrRecords
  <2> QED
    BY <2>1, ValidRefs DEF GroupTypes
<1>2. t \in ToSet(EmitDsl(ir)) /\ t.name = g.name
  BY EmittedTypes DEF GroupTypeOf
<1>3. t.relations = <<rel>> /\ rel.name = "member"
  BY DEF GroupTypeOf, DirectRelation
<1> HIDE DEF t, rel
<1>4. ToSet(<<rel>>) = {rel}
  BY DEF ToSet
<1>5. \A x : x \in ToSet(t.relations) <=> x = rel
  BY <1>3, <1>4
<1>6. <<g.name, "member">> \in Pairs(EmitDsl(ir))
  BY <1>2, <1>3, <1>5 DEF Pairs
<1> QED
  BY <1>1, <1>2, <1>3, <1>5, <1>6 DEF t, rel

LEMMA EnteredWhenOpen ==
  ASSUME NEW ir \in ModelIRs, NEW t \in ToSet(EmitDsl(ir)), NEW rel \in ToSet(t.relations),
         Opens(t, rel, Entered(EmitDsl(ir)))
  PROVE  <<t.name, rel.name>> \in Entered(EmitDsl(ir))
<1> DEFINE types == EmitDsl(ir)
<1>1. OpenedFrom(types, Entered(types)) = Entered(types)
  BY PairsAreFinite, EnteredIsLeast
<1> HIDE DEF types
<1>2. t \in ToSet(types) /\ Opens(t, rel, Entered(types))
  BY DEF types
<1>3. <<t.name, rel.name>> \in OpenedFrom(types, Entered(types))
  BY <1>2 DEF OpenedFrom
<1> QED
  BY <1>1, <1>3 DEF types

(* When every group can have a user, every relation is entered. *)
LEMMA UsersEnter ==
  ASSUME NEW ir \in ModelIRs, ModelErrors(ir) = {}, \A g \in ToSet(ir.groups) : HasUsers(ir, g)
  PROVE  Entered(EmitDsl(ir)) = Pairs(EmitDsl(ir))
<1> DEFINE types == EmitDsl(ir)
           K == Entered(types)
           C == {g \in ToSet(ir.groups) : <<g.name, "member">> \in K}
<1>1. ASSUME NEW g \in ToSet(ir.groups),
             \/ \E ref \in ToSet(g.memberTypes) : ref.kind = "user"
             \/ \E ref \in ToSet(g.memberTypes) :
                  /\ ref.kind = "group"
                  /\ \E h \in ToSet(ir.groups) : h.name = ref.group /\ <<h.name, "member">> \in K
      PROVE  g \in C
  <2> DEFINE t == GroupTypeOf(g)
             rel == DirectRelation("member", SubjectsOf(g.memberTypes))
  <2>1. Opens(t, rel, K)
    <3>1. g.memberTypes \in Seq(SubjectRefs) /\ SubjectErrors(ir, g.memberTypes) = {}
      BY GroupRelation
    <3> HIDE DEF K, t
    <3> QED
      BY <1>1, <3>1, MemberOpens
  <2>2. t \in ToSet(types) /\ t.name = g.name /\ rel \in ToSet(t.relations) /\ rel.name = "member"
    BY GroupRelation
  <2> HIDE DEF t, rel
  <2>3. <<t.name, rel.name>> \in K
    BY <2>1, <2>2, EnteredWhenOpen
  <2> QED
    BY <2>2, <2>3
<1>2. WithUsers(ir) \subseteq C
  BY <1>1 DEF WithUsers
<1>3. Holding(ir, C) \subseteq C
  BY <1>1 DEF Holding
<1>4. Reached(ir) \subseteq C
  BY <1>2, <1>3, ReachedIsLeast
<1>5. \A g \in ToSet(ir.groups) : <<g.name, "member">> \in K
  BY <1>4 DEF Reached
<1> HIDE DEF C
<1>6. ASSUME NEW refs \in Seq(SubjectRefs), SubjectErrors(ir, refs) = {}, NEW t, NEW name
      PROVE  Opens(t, DirectRelation(name, SubjectsOf(refs)), K)
  <2>1. PICK ref \in ToSet(refs) : TRUE
    BY <1>6, NoSubjectErrors, ListIsThere
  <2>2. ref.kind = "group" => ref.group \in NameSet(ir.groups)
    BY <1>6, NoSubjectErrors
  <2>3. ref.kind = "user" \/ ref.kind = "group"
    <3>1. ref \in SubjectRefs
      BY DEF ToSet
    <3> QED
      BY <3>1 DEF SubjectRefs
  <2>4. ref.kind = "group" => \E h \in ToSet(ir.groups) : h.name = ref.group
    BY <2>2 DEF NameSet, ToSet
  <2>5. \/ \E x \in ToSet(refs) : x.kind = "user"
        \/ \E x \in ToSet(refs) :
             /\ x.kind = "group"
             /\ \E h \in ToSet(ir.groups) : h.name = x.group /\ <<h.name, "member">> \in K
    <3> HIDE DEF K
    <3> QED
      BY <1>5, <2>3, <2>4
  <2> HIDE DEF K
  <2> QED
    BY <1>6, <2>5, MemberOpens
<1>7. ASSUME NEW r \in ToSet(ir.resources), NEW rel \in ToSet(ResourceTypeOf(r).relations)
      PROVE  <<r.name, rel.name>> \in K
  <2> DEFINE t == ResourceTypeOf(r)
  <2>1. t \in ToSet(types) /\ t.name = r.name /\ r \in ResourceTypes
    BY HasRelation, IrRecords
  <2>2. ASSUME NEW q \in ToSet(r.parents) PROVE Opens(t, ParentRelation(q), K)
    <3>1. q \in ParentRefs /\ q.parentTypes # <<>>
      BY ParentsValid
    <3>2. q.parentTypes \in Seq(STRING)
      BY <3>1 DEF ParentRefs
    <3>3. PICK n \in ToSet(q.parentTypes) : TRUE
      BY <3>1, <3>2, ListIsThere
    <3> DEFINE s == [type |-> n, relation |-> "none", condition |-> "none"]
    <3>4. s \in ToSet(ParentSubjects(q.parentTypes)) /\ s.relation = "none"
      BY <3>3, ParentSubjectsStand
    <3> HIDE DEF s, t, K
    <3> QED
      BY <3>4, DirectOpens DEF ParentRelation
  <2>3. ASSUME NEW role \in ToSet(r.roles) PROVE Opens(t, RoleRelation(role), K)
    <3>1. role.assignableBy \in Seq(SubjectRefs) /\ SubjectErrors(ir, role.assignableBy) = {}
      <4>1. role \in Roles
        BY <2>1, ResourceRecords
      <4> QED
        BY <4>1, ValidRefs DEF Roles
    <3> HIDE DEF t, K
    <3> QED
      BY <1>6, <3>1 DEF RoleRelation
  <2>4. ASSUME NEW role \in ToSet(r.roles) PROVE <<t.name, role.name>> \in K
    <3>1. RoleRelation(role) \in ToSet(t.relations)
      BY <2>1, EmittedRelations
    <3>2. RoleRelation(role).name = role.name
      BY DEF RoleRelation, DirectRelation
    <3>3. <<t.name, RoleRelation(role).name>> \in K
      <4> HIDE DEF t
      <4> QED
        BY <2>1, <2>3, <3>1, EnteredWhenOpen
    <3> QED
      BY <3>2, <3>3
  <2>5. ASSUME NEW p \in ToSet(r.permissions) PROVE Opens(t, PermissionRelation(p), K)
    <3>1. p \in Permissions /\ p.grantedByRoles # <<>> /\ ToSet(p.grantedByRoles) \subseteq NameSet(r.roles)
      BY PermissionsValid
    <3>2. p.grantedByRoles \in Seq(STRING)
      BY <3>1 DEF Permissions
    <3>3. PICK n \in ToSet(p.grantedByRoles) : TRUE
      BY <3>1, <3>2, ListIsThere
    <3>4. PICK role \in ToSet(r.roles) : role.name = n
      BY <3>1, <3>3 DEF NameSet, ToSet
    <3>5. <<t.name, n>> \in K
      BY <2>4, <3>4
    <3> DEFINE op == [relation |-> n, from |-> "none"]
    <3>6. op \in ToSet(PermissionRelation(p).union)
      BY <3>1, <3>3, EmittedOperands
    <3>7. op.from = "none" /\ op.relation = n
      OBVIOUS
    <3> HIDE DEF op, t, K
    <3> QED
      BY <3>5, <3>6, <3>7 DEF Opens
  <2>6. \/ \E p \in ToSet(r.parents) : rel = ParentRelation(p)
        \/ \E role \in ToSet(r.roles) : rel = RoleRelation(role)
        \/ \E p \in ToSet(r.permissions) : rel = PermissionRelation(p)
    BY <2>1, EmittedRelations
  <2>7. Opens(t, rel, K)
    <3> HIDE DEF t, K
    <3> QED
      BY <2>2, <2>3, <2>5, <2>6
  <2>8. rel \in ToSet(t.relations)
    OBVIOUS
  <2>9. <<t.name, rel.name>> \in K
    <3> HIDE DEF t
    <3> QED
      BY <2>1, <2>7, <2>8, EnteredWhenOpen
  <2> QED
    BY <2>1, <2>9
<1>8. ASSUME NEW t \in ToSet(types), NEW rel \in ToSet(t.relations) PROVE <<t.name, rel.name>> \in K
  <2>1. \/ t = UserType
        \/ \E g \in ToSet(ir.groups) : t = GroupTypeOf(g)
        \/ \E r \in ToSet(ir.resources) : t = ResourceTypeOf(r)
    BY EmittedTypes
  <2>2. t # UserType
    <3>1. ToSet(UserType.relations) = {}
      BY DEF UserType, ToSet
    <3> QED
      BY <3>1
  <2>3. ASSUME NEW g \in ToSet(ir.groups), t = GroupTypeOf(g) PROVE <<t.name, rel.name>> \in K
    <3>1. t.name = g.name /\ rel.name = "member"
      BY <2>3, GroupRelation
    <3> QED
      BY <1>5, <3>1
  <2>4. ASSUME NEW r \in ToSet(ir.resources), t = ResourceTypeOf(r) PROVE <<t.name, rel.name>> \in K
    <3>1. t.name = r.name
      BY <2>4, HasRelation
    <3> QED
      BY <1>7, <2>4, <3>1
  <2> HIDE DEF types, K
  <2> QED
    BY <2>1, <2>2, <2>3, <2>4
<1>9. Pairs(types) \subseteq K
  <2> HIDE DEF types, K
  <2> QED
    BY <1>8 DEF Pairs
<1>10. K \in SUBSET Pairs(types)
  BY PairsAreFinite, EnteredIsLeast
<1> QED
  BY <1>9, <1>10

(* And the members of a group that can have none are never entered. *)
LEMMA EnteredHasUsers ==
  ASSUME NEW ir \in ModelIRs, ModelErrors(ir) = {}, Entered(EmitDsl(ir)) = Pairs(EmitDsl(ir)),
         NEW g \in ToSet(ir.groups)
  PROVE  HasUsers(ir, g)
<1> DEFINE types == EmitDsl(ir)
           D == Pairs(types) \ {<<h.name, "member">> : h \in ToSet(ir.groups) \ Reached(ir)}
<1>1. ASSUME NEW t \in ToSet(types), NEW rel \in ToSet(t.relations), Opens(t, rel, D),
             NEW h \in ToSet(ir.groups), <<t.name, rel.name>> = <<h.name, "member">>
      PROVE  h \in Reached(ir)
  <2>1. t = GroupTypeOf(h)
    <3>1. t.name = h.name
      BY <1>1
    <3> QED
      BY <3>1, TypeNamed
  <2>2. rel = DirectRelation("member", SubjectsOf(h.memberTypes))
    BY <2>1, GroupRelation
  <2>3. \/ \E ref \in ToSet(h.memberTypes) : ref.kind = "user"
        \/ \E ref \in ToSet(h.memberTypes) :
             /\ ref.kind = "group"
             /\ \E i \in ToSet(ir.groups) : i.name = ref.group /\ <<i.name, "member">> \in D
    <3> HIDE DEF D
    <3> QED
      BY <1>1, <2>2, GroupRelation, MemberOpens
  <2>4. \A i \in ToSet(ir.groups) : <<i.name, "member">> \in D => i \in Reached(ir)
    OBVIOUS
  <2>5. h \in WithUsers(ir) \/ h \in Holding(ir, Reached(ir))
    <3> HIDE DEF D
    <3> QED
      BY <2>3, <2>4 DEF WithUsers, Holding
  <2> QED
    BY <2>5, ReachedIsLeast
<1>2. OpenedFrom(types, D) \subseteq D
  <2>1. ASSUME NEW t \in ToSet(types), NEW rel \in ToSet(t.relations), Opens(t, rel, D)
        PROVE  <<t.name, rel.name>> \in D
    <3>1. <<t.name, rel.name>> \in Pairs(types)
      <4> HIDE DEF types
      <4> QED
        BY DEF Pairs
    <3>2. \A h \in ToSet(ir.groups) : <<t.name, rel.name>> = <<h.name, "member">> => h \in Reached(ir)
      BY <1>1, <2>1
    <3> QED
      BY <3>1, <3>2
  <2> HIDE DEF D, types
  <2> QED
    BY <2>1 DEF OpenedFrom
<1>3. D \in SUBSET Pairs(types)
  OBVIOUS
<1>4. Entered(types) \subseteq D
  <2> HIDE DEF D
  <2> QED
    BY <1>2, <1>3, PairsAreFinite, EnteredIsLeast
<1>5. <<g.name, "member">> \in D
  <2>1. <<g.name, "member">> \in Pairs(types)
    BY GroupRelation
  <2> HIDE DEF D
  <2> QED
    BY <1>4, <2>1
<1>6. g \in Reached(ir)
  BY <1>5
<1> QED
  BY <1>6 DEF Reached

-----------------------------------------------------------------------------
PublishingInv ==
  /\ publishing \in [at : {"received", "refused", "written", "rejected"}, ir : Irs]
  /\ publishing.at \in {"written", "rejected"} =>
       /\ ModelErrors(publishing.ir) = {}
       /\ publishing.at = "written" <=> OpenfgaAccepts(EmitDsl(publishing.ir), publishing.ir.conditions)

LEMMA PublishingIsAccepted == PublishingInv => ValidModelIsAccepted
<1> SUFFICES ASSUME PublishingInv, publishing.at \in {"written", "rejected"}
             PROVE  publishing.at = "written" <=>
                      /\ KeepsLimits(publishing.ir)
                      /\ \A g \in ToSet(publishing.ir.groups) : HasUsers(publishing.ir, g)
  BY DEF ValidModelIsAccepted
<1> DEFINE ir == publishing.ir
<1>1. ir \in ModelIRs /\ ModelErrors(ir) = {}
  BY ModelContractAssumption DEF PublishingInv
<1>2. publishing.at = "written" <=> OpenfgaAccepts(EmitDsl(ir), ir.conditions)
  BY DEF PublishingInv
<1> HIDE DEF ir
<1>3. OpenfgaAccepts(EmitDsl(ir), ir.conditions) <=>
        KeepsLimits(ir) /\ Entered(EmitDsl(ir)) = Pairs(EmitDsl(ir))
  BY <1>1, AcceptedWhenEntered, LimitsAreOfTheIr
<1>4. Entered(EmitDsl(ir)) = Pairs(EmitDsl(ir)) <=> \A g \in ToSet(ir.groups) : HasUsers(ir, g)
  BY <1>1, UsersEnter, EnteredHasUsers
<1>5. publishing.at = "written" <=> KeepsLimits(ir) /\ \A g \in ToSet(ir.groups) : HasUsers(ir, g)
  BY <1>2, <1>3, <1>4
<1> QED
  BY <1>5 DEF ir

(* A model that passes the validation is one OpenFGA takes, unless a name of
   it is too long or its types too many for OpenFGA, or some of its groups
   contain only each other: whatever its relations and what they refer to. *)
THEOREM ValidModelsAreAccepted == PublishingSpec => []ValidModelIsAccepted
<1>1. PublishingInit => PublishingInv
  <2> SUFFICES ASSUME NEW ir \in Irs, publishing = [at |-> "received", ir |-> ir]
               PROVE  PublishingInv
    BY DEF PublishingInit
  <2>1. publishing.at = "received" /\ publishing \in [at : {"received", "refused", "written", "rejected"}, ir : Irs]
    OBVIOUS
  <2> QED
    BY <2>1 DEF PublishingInv
<1>2. PublishingInv /\ [PublishIr]_publishing => PublishingInv'
  <2> SUFFICES ASSUME PublishingInv, [PublishIr]_publishing
               PROVE  PublishingInv'
    OBVIOUS
  <2>1. CASE UNCHANGED publishing
    BY <2>1 DEF PublishingInv
  <2>2. CASE PublishIr
    <3> DEFINE a == IF ModelErrors(publishing.ir) # {} THEN "refused"
                    ELSE IF OpenfgaAccepts(EmitDsl(publishing.ir), publishing.ir.conditions) THEN "written"
                    ELSE "rejected"
    <3>1. publishing' = [publishing EXCEPT !.at = a]
      BY <2>2 DEF PublishIr
    <3>2. /\ a \in {"refused", "written", "rejected"}
          /\ a \in {"written", "rejected"} =>
               /\ ModelErrors(publishing.ir) = {}
               /\ a = "written" <=> OpenfgaAccepts(EmitDsl(publishing.ir), publishing.ir.conditions)
      OBVIOUS
    <3> HIDE DEF a
    <3>3. /\ publishing'.ir = publishing.ir /\ publishing'.at = a
          /\ publishing' \in [at : {"received", "refused", "written", "rejected"}, ir : Irs]
      BY <3>1, <3>2 DEF PublishingInv
    <3> QED
      BY <3>2, <3>3 DEF PublishingInv
  <2> QED
    BY <2>1, <2>2
<1>3. PublishingInv => ValidModelIsAccepted
  BY PublishingIsAccepted
<1> QED
  BY <1>1, <1>2, <1>3, PTL DEF PublishingSpec

-----------------------------------------------------------------------------
(* Listings.                                                               *)
(* The invariant.  H, S and N stand for held, steady and seen.             *)

IsFor(req, t) == /\ "id" \in DOMAIN req => t.id = req.id
                 /\ "user" \in DOMAIN req => t.user = req.user
BelongsTo(ir, req, t) == /\ "type" \in DOMAIN req => t.type = req.type
                         /\ IsFor(req, t)
                         /\ IsAssignableRelation(ir, t.type, t.relation)

(* A tuple is held at one place, a place is of one tuple. *)
OnePlace(H) == \A e, f \in H : e.place = f.place \/ e.tuple = f.tuple => e = f

HeldStands(H, n, S, N) ==
  /\ n \in 0..PlaceBound /\ H \subseteq [place : 1..n, tuple : Grantable] /\ OnePlace(H)
  /\ S \subseteq Tuples(H) /\ Tuples(H) \subseteq N /\ N \subseteq Grantable

(* The types still to be read, each once. *)
TypesStand(types, req) ==
  /\ types \in Seq(STRING) /\ ~Repeats(types)
  /\ \A s \in ToSet(types) : "type" \in DOMAIN req => s = req.type

(* The rows on the pages so far: of a steady tuple, the row that is held, on
   one page. *)
RowsStand(R, page, H, S, N) ==
  /\ R \subseteq ToldRow
  /\ \A x \in R : /\ x.row.tuple \in N /\ x.page < page
                  /\ x.row.tuple \in S => x.row \in H
  /\ \A x, y \in R : x.row.tuple = y.row.tuple /\ x.row.tuple \in S => x = y

(* The type being read is read up to the place of the token. *)
ReadStands(R, s, req, n, H, S) ==
  /\ \A x \in R : x.row.tuple.type = s /\ IsFor(req, x.row.tuple) /\ x.row.place <= n
  /\ \A e \in H : e.tuple \in S /\ e.tuple.type = s /\ IsFor(req, e.tuple) /\ e.place <= n =>
       \E x \in R : x.row = e

(* The types no longer on the list are done. *)
EntriesStand(E, types, ir, req, H, S) ==
  /\ \A x \in E : x.row.tuple.type \notin ToSet(types) /\ BelongsTo(ir, req, x.row.tuple)
  /\ \A e \in H : e.tuple \in S /\ BelongsTo(ir, req, e.tuple) =>
       e.tuple.type \in ToSet(types) \/ \E x \in E : x.row = e

Reads(l, H, S, N) ==
  /\ TypesStand(l.types, l.request)
  /\ RowsStand(l.read \cup l.entries, l.page, H, S, N)
  /\ EntriesStand(l.entries, l.types, l.ir, l.request, H, S)
  /\ l.types # <<>> => ReadStands(l.read, Head(l.types), l.request, l.after, H, S)
  /\ l.types = <<>> => l.read = {}

ListingRecord ==
  [at : {"asked", "reading", "told", "failed", "none", "refused"}, ir : ListedIrs \cup {NoIr},
   types : Seq(STRING), after : Nat, page : Nat, read : SUBSET ToldRow, entries : SUBSET ToldRow,
   request : Listings]

ListingInv ==
  /\ HeldStands(held, places, steady, seen)
  /\ listing \in ListingRecord /\ listing.after <= places
  /\ listing.at = "asked" => listing.read = {} /\ listing.entries = {} /\ listing.after = 0
  /\ listing.at \in {"reading", "told"} => Reads(listing, held, steady, seen)
  /\ listing.at = "told" => listing.types = <<>>

-----------------------------------------------------------------------------
(* What the properties are made of, in these terms. *)
LEMMA AskedMeans ==
  ASSUME NEW t
  PROVE  /\ Asked(t) <=> t.type = Head(listing.types) /\ IsFor(listing.request, t)
         /\ Belongs(t) <=> BelongsTo(listing.ir, listing.request, t)
BY DEF Asked, Belongs, Requested, IsFor, BelongsTo

LEMMA ListingTypeFollows == ListingInv => ListingTypeOK
<1> SUFFICES ASSUME ListingInv PROVE ListingTypeOK
  OBVIOUS
<1>1. /\ listing.at \in {"asked", "reading", "told", "failed", "none", "refused"}
      /\ listing.after \in Nat /\ listing.after <= places /\ listing.page \in Nat
      /\ listing.read \subseteq ToldRow /\ listing.entries \subseteq ToldRow
  BY DEF ListingInv, ListingRecord
<1>2. HeldStands(held, places, steady, seen) /\ places \in Nat
  BY GrantListingAssumption DEF ListingInv, HeldStands
<1>3. listing.after \in 0..places
  BY <1>1, <1>2
<1> QED
  BY <1>1, <1>2, <1>3 DEF ListingTypeOK, HeldStands, OnePlace

LEMMA NothingIsMissed == ListingInv => ListingMissesNothing
<1> SUFFICES ASSUME ListingInv, listing.at = "told" PROVE ListingMissesNothing
  BY DEF ListingMissesNothing
<1>1. /\ Reads(listing, held, steady, seen) /\ listing.types = <<>>
      /\ HeldStands(held, places, steady, seen)
  BY DEF ListingInv
<1>2. ToSet(listing.types) = {} /\ listing.read = {}
  BY <1>1 DEF Reads, ToSet
<1>3. ASSUME NEW t \in steady, Belongs(t)
      PROVE  \E x \in listing.entries : /\ x.row.tuple = t
                                        /\ \A y \in listing.entries : y.row.tuple = t => y = x
  <2>1. PICK e \in held : e.tuple = t
    BY <1>1 DEF HeldStands, Tuples
  <2>2. PICK x \in listing.entries : x.row = e
    BY <1>1, <1>2, <1>3, <2>1, AskedMeans DEF Reads, EntriesStand
  <2>3. \A y \in listing.entries : y.row.tuple = t => y = x
    BY <1>1, <2>1, <2>2 DEF Reads, RowsStand
  <2> QED
    BY <2>1, <2>2, <2>3
<1>4. \A x \in listing.entries : x.row.tuple \in seen /\ Belongs(x.row.tuple)
  BY <1>1, AskedMeans DEF Reads, RowsStand, EntriesStand
<1> QED
  BY <1>3, <1>4 DEF ListingMissesNothing

(* The list of types when its first is done. *)
LEMMA TypesAfter ==
  ASSUME NEW s \in Seq(STRING), s # <<>>, ~Repeats(s)
  PROVE  /\ Tail(s) \in Seq(STRING) /\ ~Repeats(Tail(s))
         /\ Head(s) \in ToSet(s) /\ Head(s) \notin ToSet(Tail(s))
         /\ ToSet(Tail(s)) \subseteq ToSet(s) /\ ToSet(s) = {Head(s)} \cup ToSet(Tail(s))
<1>1. /\ Len(s) \in Nat \ {0} /\ Head(s) = s[1] /\ DOMAIN s = 1..Len(s)
      /\ Tail(s) \in Seq(STRING) /\ DOMAIN Tail(s) = 1..(Len(s) - 1)
      /\ \A i \in 1..(Len(s) - 1) : Tail(s)[i] = s[i + 1]
  BY HeadTailProperties, EmptySeq, LenProperties
<1>2. ASSUME Repeats(Tail(s)) PROVE FALSE
  BY <1>1, <1>2 DEF Repeats
<1>3. ASSUME NEW i \in 1..(Len(s) - 1), Tail(s)[i] = s[1] PROVE FALSE
  <2>1. i + 1 \in DOMAIN s /\ 1 \in DOMAIN s /\ 1 < i + 1 /\ s[1] = s[i + 1]
    BY <1>1, <1>3
  <2> QED
    BY <2>1 DEF Repeats
<1>4. \A i \in DOMAIN s : i # 1 => i - 1 \in 1..(Len(s) - 1) /\ Tail(s)[i - 1] = s[i]
  BY <1>1
<1>5. Head(s) \in ToSet(s) /\ Head(s) \notin ToSet(Tail(s))
  BY <1>1, <1>3 DEF ToSet
<1>6. ASSUME NEW x \in ToSet(Tail(s)) PROVE x \in ToSet(s)
  <2>1. PICK i \in 1..(Len(s) - 1) : x = s[i + 1]
    BY <1>1 DEF ToSet
  <2>2. i + 1 \in DOMAIN s
    BY <1>1
  <2> QED
    BY <2>1, <2>2 DEF ToSet
<1>7. ASSUME NEW x \in ToSet(s), x # Head(s) PROVE x \in ToSet(Tail(s))
  <2>1. PICK i \in DOMAIN s : x = s[i]
    BY DEF ToSet
  <2>2. i - 1 \in DOMAIN Tail(s) /\ Tail(s)[i - 1] = x
    BY <1>1, <1>4, <1>7, <2>1
  <2> QED
    BY <2>2 DEF ToSet
<1> QED
  BY <1>1, <1>2, <1>5, <1>6, <1>7

(* Everything that belongs to a listing is of a type on its list. *)
LEMMA TypesCover ==
  ASSUME NEW ir \in ListedIrs, NEW req \in Listings
  PROVE  /\ TypesStand(TypesOf(ir, req), req)
         /\ \A t : BelongsTo(ir, req, t) => t.type \in ToSet(TypesOf(ir, req))
<1>1. CASE "type" \in DOMAIN req
  <2>1. TypesOf(ir, req) = <<req.type>> /\ req.type \in STRING
    BY <1>1, GrantListingAssumption DEF TypesOf
  <2>2. ToSet(<<req.type>>) = {req.type} /\ ~Repeats(<<req.type>>)
    BY DEF ToSet, Repeats
  <2> QED
    BY <1>1, <2>1, <2>2 DEF TypesStand, BelongsTo
<1>2. CASE "type" \notin DOMAIN req
  <2> DEFINE rs == Named(ir.resources)
             gs == Named(ir.groups)
  <2>1. TypesOf(ir, req) = rs \o gs /\ rs \in Seq(STRING) /\ gs \in Seq(STRING) /\ ~Repeats(rs \o gs)
    BY <1>2, GrantListingAssumption DEF TypesOf
  <2>2. NameSet(ir.resources) = ToSet(rs) /\ NameSet(ir.groups) = ToSet(gs)
    BY DEF NameSet, Named, ToSet
  <2> HIDE DEF rs, gs
  <2>3. rs \o gs \in Seq(STRING) /\ ToSet(rs) \cup ToSet(gs) \subseteq ToSet(rs \o gs)
    <3>1. /\ rs \o gs \in Seq(STRING) /\ Len(rs \o gs) = Len(rs) + Len(gs)
          /\ \A i \in 1..(Len(rs) + Len(gs)) :
               (rs \o gs)[i] = IF i <= Len(rs) THEN rs[i] ELSE gs[i - Len(rs)]
      BY <2>1, ConcatProperties
    <3>2. /\ Len(rs) \in Nat /\ Len(gs) \in Nat /\ DOMAIN rs = 1..Len(rs) /\ DOMAIN gs = 1..Len(gs)
          /\ DOMAIN (rs \o gs) = 1..(Len(rs) + Len(gs))
      BY <2>1, <3>1, LenProperties
    <3>3. \A i \in DOMAIN rs : i \in DOMAIN (rs \o gs) /\ (rs \o gs)[i] = rs[i]
      BY <3>1, <3>2
    <3>4. \A i \in DOMAIN gs : Len(rs) + i \in DOMAIN (rs \o gs) /\ (rs \o gs)[Len(rs) + i] = gs[i]
      BY <3>1, <3>2
    <3>5. \A z \in ToSet(rs) : z \in ToSet(rs \o gs)
      BY <3>3 DEF ToSet
    <3>6. \A z \in ToSet(gs) : z \in ToSet(rs \o gs)
      BY <3>4 DEF ToSet
    <3> QED
      BY ONLY <3>1, <3>5, <3>6
  <2>4. ASSUME NEW t, IsAssignableRelation(ir, t.type, t.relation)
        PROVE  t.type \in NameSet(ir.resources) \cup NameSet(ir.groups)
    BY <2>4 DEF IsAssignableRelation, AssignableSubjects
  <2> QED
    BY <1>2, <2>1, <2>2, <2>3, <2>4 DEF TypesStand, BelongsTo
<1> QED
  BY <1>1, <1>2

-----------------------------------------------------------------------------
(* The steps.  What becomes of the fields of a listing.                    *)

IsListing(l, at, ir, types, n, page, read, entries) ==
  /\ l \in ListingRecord /\ l.at = at /\ l.ir = ir /\ l.types = types /\ l.after = n
  /\ l.page = page /\ l.read = read /\ l.entries = entries /\ l.request = listing.request

LEMMA Stops ==
  ASSUME listing \in ListingRecord, NEW a \in {"refused", "none", "told"}
  PROVE  IsListing([listing EXCEPT !.at = a], a, listing.ir, listing.types, listing.after,
                   listing.page, listing.read, listing.entries)
BY DEF IsListing, ListingRecord

LEMMA Starts ==
  ASSUME listing \in ListingRecord, NEW r \in ListedIrs, NEW ts \in Seq(STRING)
  PROVE  IsListing([listing EXCEPT !.at = "reading", !.ir = r, !.types = ts], "reading", r, ts,
                   listing.after, listing.page, listing.read, listing.entries)
BY DEF IsListing, ListingRecord

LEMMA Fails ==
  ASSUME listing \in ListingRecord
  PROVE  IsListing([listing EXCEPT !.at = "failed", !.read = {}, !.entries = {}], "failed",
                   listing.ir, listing.types, listing.after, listing.page, {}, {})
BY DEF IsListing, ListingRecord

LEMMA PageGoesOn ==
  ASSUME listing \in ListingRecord, NEW R \in SUBSET ToldRow, NEW n \in Nat, NEW m \in Nat
  PROVE  IsListing([listing EXCEPT !.read = R, !.after = n, !.page = m], listing.at, listing.ir,
                   listing.types, n, m, R, listing.entries)
BY DEF IsListing, ListingRecord

LEMMA TypeGoesOn ==
  ASSUME listing \in ListingRecord, NEW E \in SUBSET ToldRow, NEW m \in Nat, NEW ts \in Seq(STRING)
  PROVE  IsListing([listing EXCEPT !.entries = E, !.read = {}, !.after = 0, !.page = m, !.types = ts],
                   listing.at, listing.ir, ts, 0, m, {}, E)
BY DEF IsListing, ListingRecord

(* The rows after a further page. *)
LEMMA PageStands ==
  ASSUME ListingInv, listing.at = "reading", listing.types # <<>>,
         NEW P \in Pages(listing.after)
  PROVE  /\ P \subseteq held
         /\ \A e \in P : e.place > listing.after /\ Asked(e.tuple)
         /\ RowsStand(Rows(P) \cup listing.entries, listing.page + 1, held, steady, seen)
         /\ \A x \in Rows(P) : x \in listing.read \/ x.row \in P
         /\ listing.read \subseteq Rows(P) /\ \A e \in P : \E x \in Rows(P) : x.row = e
<1> DEFINE R == listing.read \cup listing.entries
           fresh == {[page |-> listing.page, row |-> e] : e \in P}
<1>1. /\ listing.page \in Nat /\ Reads(listing, held, steady, seen)
      /\ HeldStands(held, places, steady, seen)
  BY DEF ListingInv, ListingRecord
<1>2. P \subseteq held /\ \A e \in P : e.place > listing.after /\ Asked(e.tuple)
  BY DEF Pages, After
<1>3. \A e \in held : e \in [place : Nat, tuple : Grantable]
  <2>1. places \in Nat
    BY <1>1, GrantListingAssumption DEF HeldStands
  <2> QED
    BY <1>1, <2>1 DEF HeldStands
<1>4. \A x \in fresh : x.page = listing.page /\ x.row \in P /\ x \in ToldRow
  BY <1>1, <1>2, <1>3 DEF ToldRow
<1>5. \A e \in P : \E x \in fresh : x.row = e
  <2>1. TAKE e \in P
  <2>2. [page |-> listing.page, row |-> e] \in fresh /\ [page |-> listing.page, row |-> e].row = e
    OBVIOUS
  <2> QED
    BY <2>2
<1>6. \A x, y \in fresh : x.row = y.row => x = y
  OBVIOUS
<1> HIDE DEF fresh
<1>7. Rows(P) \cup listing.entries = R \cup fresh /\ Rows(P) = listing.read \cup fresh
  BY DEF Rows, fresh
<1>8. RowsStand(R, listing.page, held, steady, seen) /\ listing.read \subseteq R
  BY <1>1 DEF Reads
<1>9. /\ \A e \in P : e.tuple \in seen /\ e.tuple.type = Head(listing.types)
      /\ \A x \in listing.read : x.row.place <= listing.after
      /\ \A x \in listing.entries : x.row.tuple.type # Head(listing.types)
  <2>1. Head(listing.types) \in ToSet(listing.types)
    BY <1>1, TypesAfter DEF Reads, TypesStand
  <2> QED
    BY <1>1, <1>2, <2>1, AskedMeans DEF Reads, ReadStands, EntriesStand, HeldStands, Tuples
<1>10. ASSUME NEW x \in R, NEW y \in fresh, x.row.tuple = y.row.tuple, x.row.tuple \in steady
       PROVE  FALSE
  <2>1. x.row \in held /\ y.row \in held /\ y.row \in P
    BY <1>2, <1>4, <1>8, <1>10 DEF RowsStand
  <2>2. x.row = y.row
    BY <1>1, <1>10, <2>1 DEF HeldStands, OnePlace
  <2>3. x \notin listing.entries
    BY <1>9, <2>1, <2>2
  <2>4. x.row.place <= listing.after /\ x.row.place > listing.after
    BY <1>2, <1>9, <2>1, <2>2, <2>3
  <2>5. listing.after \in Nat /\ x.row.place \in Nat
    BY <1>3, <2>1 DEF ListingInv, ListingRecord
  <2> QED
    BY <2>4, <2>5
<1>11. ASSUME NEW x \in R \cup fresh
       PROVE  /\ x \in ToldRow /\ x.row.tuple \in seen /\ x.page < listing.page + 1
              /\ x.row.tuple \in steady => x.row \in held
  <2>1. CASE x \in fresh
    BY <1>1, <1>2, <1>4, <1>9, <2>1
  <2>2. CASE x \in R
    <3>1. x \in ToldRow /\ x.row.tuple \in seen /\ x.page < listing.page
      BY <1>8, <2>2 DEF RowsStand
    <3>2. x.page \in Nat
      BY <3>1 DEF ToldRow
    <3> QED
      BY <1>1, <1>8, <2>2, <3>1, <3>2 DEF RowsStand
  <2> QED
    BY <2>1, <2>2
<1>12. ASSUME NEW x \in R \cup fresh, NEW y \in R \cup fresh,
              x.row.tuple = y.row.tuple, x.row.tuple \in steady
       PROVE  x = y
  <2>1. CASE x \in R /\ y \in R
    BY <1>8, <1>12, <2>1 DEF RowsStand
  <2>2. CASE x \in fresh /\ y \in fresh
    <3>1. x.row = y.row
      BY <1>1, <1>2, <1>4, <1>12, <2>2 DEF HeldStands, OnePlace
    <3> QED
      BY <1>6, <2>2, <3>1
  <2> QED
    BY <1>10, <1>12, <2>1, <2>2
<1>13. RowsStand(R \cup fresh, listing.page + 1, held, steady, seen)
  BY <1>11, <1>12 DEF RowsStand
<1> QED
  BY <1>2, <1>4, <1>5, <1>7, <1>13

LEMMA NextPageHolds ==
  ASSUME ListingInv, listing.at = "reading", listing.types # <<>>,
         NEW P \in Pages(listing.after), NEW last \in P, \A e \in P : e.place <= last.place,
         NextPage(P, last), UNCHANGED <<held, places, steady, seen>>
  PROVE  ListingInv'
<1> DEFINE ty == Head(listing.types)
           n == listing.after
<1>1. /\ listing \in ListingRecord /\ listing.page \in Nat /\ n \in Nat /\ places \in Nat
      /\ Reads(listing, held, steady, seen) /\ HeldStands(held, places, steady, seen)
  BY GrantListingAssumption DEF ListingInv, ListingRecord, HeldStands
<1>2. /\ P \subseteq held /\ \A e \in P : e.place > n /\ Asked(e.tuple)
      /\ RowsStand(Rows(P) \cup listing.entries, listing.page + 1, held, steady, seen)
      /\ \A x \in Rows(P) : x \in listing.read \/ x.row \in P
      /\ listing.read \subseteq Rows(P) /\ \A e \in P : \E x \in Rows(P) : x.row = e
  BY PageStands
<1>3. \A e \in held : e.place \in Nat /\ e.place <= places
  BY <1>1 DEF HeldStands
<1>4. /\ last.place \in Nat /\ last.place <= places /\ n < last.place
      /\ Rows(P) \in SUBSET ToldRow /\ listing.page + 1 \in Nat
  BY <1>1, <1>2, <1>3 DEF RowsStand
<1>5. IsListing(listing', "reading", listing.ir, listing.types, last.place, listing.page + 1,
                Rows(P), listing.entries)
  BY ONLY <1>1, <1>4, PageGoesOn, NextPage(P, last), listing.at = "reading" DEF NextPage
<1>6. ReadStands(listing.read, ty, listing.request, n, held, steady)
  BY <1>1 DEF Reads
<1>7. ASSUME NEW x \in Rows(P)
      PROVE  x.row.tuple.type = ty /\ IsFor(listing.request, x.row.tuple) /\ x.row.place <= last.place
  <2>1. CASE x \in listing.read
    <3>1. x.row.place \in Nat
      BY <1>4 DEF ToldRow
    <3> QED
      BY <1>1, <1>4, <1>6, <2>1, <3>1 DEF ReadStands
  <2>2. CASE x.row \in P
    BY <1>2, <2>2, AskedMeans
  <2> QED
    BY <1>2, <2>1, <2>2
<1>8. ASSUME NEW e \in held, e.tuple \in steady, e.tuple.type = ty,
             IsFor(listing.request, e.tuple), e.place <= last.place
      PROVE  \E x \in Rows(P) : x.row = e
  <2>1. CASE e.place <= n
    BY <1>2, <1>6, <1>8, <2>1 DEF ReadStands
  <2>2. CASE e.place > n
    <3>1. e \in After(n)
      BY <1>8, <2>2, AskedMeans DEF After
    <3>2. e \in P
      BY <1>3, <1>4, <1>8, <3>1 DEF Pages
    <3> QED
      BY <1>2, <3>2
  <2> QED
    BY <1>1, <1>3, <2>1, <2>2
<1>9. Reads(listing', held, steady, seen)
  <2>1. ReadStands(Rows(P), ty, listing.request, last.place, held, steady)
    BY <1>7, <1>8 DEF ReadStands
  <2> QED
    BY <1>1, <1>2, <1>5, <2>1 DEF Reads, IsListing
<1> QED
  BY <1>1, <1>4, <1>5, <1>9 DEF ListingInv, IsListing

LEMMA NextTypeHolds ==
  ASSUME ListingInv, listing.at = "reading", listing.types # <<>>,
         NEW P \in Pages(listing.after), P = After(listing.after),
         NextType(P), UNCHANGED <<held, places, steady, seen>>
  PROVE  ListingInv'
<1> DEFINE ty == Head(listing.types)
           n == listing.after
           rest == Tail(listing.types)
           E == listing.entries \cup Entries(Rows(P))
<1>1. /\ listing \in ListingRecord /\ listing.page \in Nat /\ n \in Nat /\ places \in Nat
      /\ Reads(listing, held, steady, seen) /\ HeldStands(held, places, steady, seen)
  BY GrantListingAssumption DEF ListingInv, ListingRecord, HeldStands
<1>2. /\ P \subseteq held /\ \A e \in P : e.place > n /\ Asked(e.tuple)
      /\ RowsStand(Rows(P) \cup listing.entries, listing.page + 1, held, steady, seen)
      /\ \A x \in Rows(P) : x \in listing.read \/ x.row \in P
      /\ listing.read \subseteq Rows(P) /\ \A e \in P : \E x \in Rows(P) : x.row = e
  BY PageStands
<1>3. P = After(n) /\ \A e \in held : e.place \in Nat
  BY <1>1 DEF HeldStands
<1>4. /\ rest \in Seq(STRING) /\ ~Repeats(rest) /\ ty \in ToSet(listing.types) /\ ty \notin ToSet(rest)
      /\ ToSet(rest) \subseteq ToSet(listing.types) /\ ToSet(listing.types) = {ty} \cup ToSet(rest)
  BY <1>1, TypesAfter DEF Reads, TypesStand
<1>5. Entries(Rows(P)) \subseteq Rows(P) /\ E \in SUBSET ToldRow /\ listing.page + 1 \in Nat
  BY <1>1, <1>2 DEF RowsStand, Entries
<1>6. listing' = [listing EXCEPT !.entries = E, !.read = {}, !.after = 0,
                                 !.page = listing.page + 1, !.types = rest]
  BY DEF NextType
<1> HIDE DEF E, rest
<1>7. IsListing(listing', "reading", listing.ir, rest, 0, listing.page + 1, {}, E)
  BY ONLY <1>1, <1>4, <1>5, <1>6, TypeGoesOn, listing.at = "reading"
<1>8. ReadStands(listing.read, ty, listing.request, n, held, steady)
  BY <1>1 DEF Reads
<1>9. \A x \in Rows(P) : x.row.tuple.type = ty /\ IsFor(listing.request, x.row.tuple)
  BY <1>2, <1>8, AskedMeans DEF ReadStands
<1>10. EntriesStand(listing.entries, listing.types, listing.ir, listing.request, held, steady)
  BY <1>1 DEF Reads
<1>11. TypesStand(rest, listing.request)
  BY <1>1, <1>4 DEF Reads, TypesStand
<1>12. ASSUME NEW x \in E
       PROVE  x.row.tuple.type \notin ToSet(rest) /\ BelongsTo(listing.ir, listing.request, x.row.tuple)
  <2>1. CASE x \in listing.entries
    BY <1>4, <1>10, <2>1 DEF EntriesStand
  <2>2. CASE x \in Entries(Rows(P))
    <3>1. "type" \in DOMAIN listing.request => ty = listing.request.type
      BY <1>1, <1>4 DEF Reads, TypesStand
    <3>2. /\ x.row.tuple.type = ty /\ IsFor(listing.request, x.row.tuple)
          /\ IsAssignableRelation(listing.ir, x.row.tuple.type, x.row.tuple.relation)
      BY <1>9, <2>2 DEF Entries
    <3> QED
      BY <1>4, <3>1, <3>2 DEF BelongsTo
  <2> QED
    BY <2>1, <2>2 DEF E
<1>13. ASSUME NEW e \in held, e.tuple \in steady, BelongsTo(listing.ir, listing.request, e.tuple),
              e.tuple.type \notin ToSet(rest)
       PROVE  \E x \in E : x.row = e
  <2>1. CASE e.tuple.type # ty
    BY <1>4, <1>10, <1>13, <2>1 DEF EntriesStand, E
  <2>2. CASE e.tuple.type = ty
    <3>1. IsFor(listing.request, e.tuple)
          /\ IsAssignableRelation(listing.ir, e.tuple.type, e.tuple.relation)
      BY <1>13 DEF BelongsTo
    <3>2. \E x \in Rows(P) : x.row = e
      <4>1. CASE e.place <= n
        BY <1>2, <1>8, <1>13, <2>2, <3>1, <4>1 DEF ReadStands
      <4>2. CASE e.place > n
        BY <1>2, <1>3, <2>2, <3>1, <4>2, AskedMeans DEF After
      <4> QED
        BY <1>1, <1>3, <4>1, <4>2
    <3> QED
      BY <3>1, <3>2 DEF Entries, E
  <2> QED
    BY <2>1, <2>2
<1>14. Reads(listing', held, steady, seen)
  <2>1. EntriesStand(E, rest, listing.ir, listing.request, held, steady)
    BY <1>12, <1>13 DEF EntriesStand
  <2>2. RowsStand({} \cup E, listing.page + 1, held, steady, seen)
    BY <1>2, <1>5 DEF RowsStand, E
  <2>3. ReadStands({}, Head(rest), listing.request, 0, held, steady)
    BY <1>1, <1>3 DEF ReadStands, HeldStands
  <2> QED
    BY <1>7, <1>11, <2>1, <2>2, <2>3 DEF Reads, IsListing
<1> QED
  BY <1>1, <1>7, <1>14 DEF ListingInv, IsListing

(* What others grant and revoke does not disturb what was read: a tuple that
   is still steady is at the place where it was. *)
LEMMA ReadsOn ==
  ASSUME NEW l, NEW H, NEW S, NEW N, NEW G, NEW T, NEW M,
         Reads(l, H, S, N), T \subseteq S, N \subseteq M,
         \A e \in G : e.tuple \in T => e \in H,
         \A e \in H : e.tuple \in T => e \in G
  PROVE  Reads(l, G, T, M)
<1>1. RowsStand(l.read \cup l.entries, l.page, G, T, M)
  BY DEF Reads, RowsStand
<1>2. EntriesStand(l.entries, l.types, l.ir, l.request, G, T)
  BY DEF Reads, EntriesStand
<1>3. l.types # <<>> => ReadStands(l.read, Head(l.types), l.request, l.after, G, T)
  BY DEF Reads, ReadStands
<1> QED
  BY <1>1, <1>2, <1>3 DEF Reads

LEMMA ListingInitHolds == ListingInit => ListingInv
<1> SUFFICES ASSUME ListingInit PROVE ListingInv
  OBVIOUS
<1>0. PICK n \in 0..PlaceBound : \E s \in Injection(1..n, Grantable) :
        held = {[place |-> i, tuple |-> s[i]] : i \in 1..n} /\ places = n
  BY DEF ListingInit
<1>1. PICK s \in [1..n -> Grantable] :
        /\ \A i, j \in 1..n : s[i] = s[j] => i = j
        /\ held = {[place |-> i, tuple |-> s[i]] : i \in 1..n} /\ places = n
  BY <1>0 DEF Injection, IsInjective
<1>2. steady = Tuples(held) /\ seen = Tuples(held)
  BY DEF ListingInit
<1>3. \A e \in held : e.place \in 1..n /\ e.tuple = s[e.place] /\ e \in [place : 1..n, tuple : Grantable]
  BY <1>1
<1>4. \A e, f \in held : e.place = f.place => e = f
  BY <1>1
<1>5. OnePlace(held)
  BY <1>1, <1>3, <1>4 DEF OnePlace
<1>6. HeldStands(held, places, steady, seen)
  BY <1>1, <1>2, <1>3, <1>5 DEF HeldStands, Tuples
<1>7. PICK l \in Listings : listing = Idle(l)
  BY DEF ListingInit
<1>8. listing \in ListingRecord
  BY <1>7 DEF Idle, ListingRecord
<1>9. /\ listing.at = "asked" /\ listing.after = 0 /\ listing.read = {} /\ listing.entries = {}
      /\ 0 <= places
  BY <1>1, <1>7, GrantListingAssumption DEF Idle
<1> QED
  BY <1>6, <1>8, <1>9 DEF ListingInv

-----------------------------------------------------------------------------
(* Every step keeps the invariant. *)
LEMMA RefuseHolds == ListingInv /\ RefuseListing => ListingInv'
<1> SUFFICES ASSUME ListingInv, RefuseListing PROVE ListingInv'
  OBVIOUS
<1>1. IsListing(listing', "refused", listing.ir, listing.types, listing.after, listing.page,
                listing.read, listing.entries)
  BY Stops DEF RefuseListing, ListingInv
<1> QED
  BY <1>1 DEF RefuseListing, ListingInv, IsListing

LEMMA BeginHolds == ListingInv /\ BeginListing => ListingInv'
<1> SUFFICES ASSUME ListingInv, BeginListing PROVE ListingInv'
  OBVIOUS
<1>1. /\ listing \in ListingRecord /\ listing.request \in Listings
      /\ listing.read = {} /\ listing.entries = {} /\ listing.after = 0 /\ listing.after <= places
      /\ HeldStands(held, places, steady, seen) /\ UNCHANGED <<held, places, steady, seen>>
  BY DEF BeginListing, ListingInv, ListingRecord
<1>2. CASE listing' = [listing EXCEPT !.at = "none"]
  <2>1. IsListing(listing', "none", listing.ir, listing.types, listing.after, listing.page,
                  listing.read, listing.entries)
    BY <1>1, <1>2, Stops
  <2> QED
    BY <1>1, <2>1 DEF ListingInv, IsListing
<1>3. ASSUME NEW ir \in ListedIrs,
             listing' = [listing EXCEPT !.at = "reading", !.ir = ir,
                                        !.types = TypesOf(ir, listing.request)]
      PROVE  ListingInv'
  <2> DEFINE ts == TypesOf(ir, listing.request)
  <2>1. /\ TypesStand(ts, listing.request) /\ ts \in Seq(STRING)
        /\ \A t : BelongsTo(ir, listing.request, t) => t.type \in ToSet(ts)
    BY <1>1, TypesCover DEF TypesStand
  <2> HIDE DEF ts
  <2>2. IsListing(listing', "reading", ir, ts, 0, listing.page, {}, {})
    BY <1>1, <1>3, <2>1, Starts DEF ts
  <2>3. EntriesStand({}, ts, ir, listing.request, held, steady)
    BY <2>1 DEF EntriesStand
  <2>4. RowsStand({} \cup {}, listing.page, held, steady, seen)
    BY DEF RowsStand
  <2>5. ReadStands({}, Head(ts), listing.request, 0, held, steady)
    BY <1>1, GrantListingAssumption DEF ReadStands, HeldStands
  <2>6. Reads(listing', held, steady, seen)
    BY <2>1, <2>2, <2>3, <2>4, <2>5 DEF Reads, IsListing
  <2> QED
    BY <1>1, <2>2, <2>6 DEF ListingInv, IsListing
<1> QED
  BY <1>2, <1>3 DEF BeginListing

LEMMA ReadHolds == ListingInv /\ ReadPage => ListingInv'
<1> SUFFICES ASSUME ListingInv, ReadPage PROVE ListingInv'
  OBVIOUS
<1> QED
  BY NextPageHolds, NextTypeHolds DEF ReadPage

LEMMA TellHolds == ListingInv /\ TellGrants => ListingInv'
<1> SUFFICES ASSUME ListingInv, TellGrants PROVE ListingInv'
  OBVIOUS
<1>1. /\ IsListing(listing', "told", listing.ir, listing.types, listing.after, listing.page,
                   listing.read, listing.entries)
      /\ UNCHANGED <<held, places, steady, seen>>
  BY Stops DEF TellGrants, ListingInv
<1>2. Reads(listing, held, steady, seen) /\ listing.types = <<>>
  BY DEF TellGrants, ListingInv
<1>3. Reads(listing', held, steady, seen)
  BY <1>1, <1>2 DEF Reads, IsListing
<1> QED
  BY <1>1, <1>2, <1>3 DEF ListingInv, IsListing

LEMMA FailHolds == ListingInv /\ ListingFails => ListingInv'
<1> SUFFICES ASSUME ListingInv, ListingFails PROVE ListingInv'
  OBVIOUS
<1>1. /\ IsListing(listing', "failed", listing.ir, listing.types, listing.after, listing.page, {}, {})
      /\ UNCHANGED <<held, places, steady, seen>>
  BY Fails DEF ListingFails, ListingInv
<1> QED
  BY <1>1 DEF ListingInv, IsListing

LEMMA GrantHolds == ListingInv /\ GrantMeanwhile => ListingInv'
<1> SUFFICES ASSUME ListingInv, GrantMeanwhile PROVE ListingInv'
  OBVIOUS
<1>1. PICK t \in Grantable \ Tuples(held) :
        /\ held' = held \cup {[place |-> places + 1, tuple |-> t]}
        /\ seen' = seen \cup {t}
  BY DEF GrantMeanwhile
<1>2. /\ places' = places + 1 /\ places < PlaceBound /\ UNCHANGED <<listing, steady>>
      /\ listing.at = "reading" /\ HeldStands(held, places, steady, seen)
      /\ Reads(listing, held, steady, seen) /\ listing \in ListingRecord /\ listing.after <= places
  BY DEF GrantMeanwhile, ListingInv
<1>3. places \in Nat /\ PlaceBound \in Nat /\ places + 1 \in 0..PlaceBound
  BY <1>2, GrantListingAssumption DEF HeldStands
<1> DEFINE new == [place |-> places + 1, tuple |-> t]
<1>4. new.place = places + 1 /\ new.tuple = t /\ new \in [place : 1..(places + 1), tuple : Grantable]
  BY <1>3
<1> HIDE DEF new
<1>5. held' = held \cup {new}
  BY <1>1 DEF new
<1>6. /\ \A e \in held : e.place \in 1..places /\ e.tuple \in Grantable /\ e.tuple # t
      /\ \A e \in held : e \in [place : 1..(places + 1), tuple : Grantable]
  BY <1>1, <1>2, <1>3 DEF HeldStands, Tuples
<1>7. OnePlace(held \cup {new})
  BY <1>2, <1>3, <1>4, <1>6 DEF HeldStands, OnePlace
<1>8. steady \subseteq Tuples(held \cup {new}) /\ Tuples(held \cup {new}) \subseteq seen \cup {t}
  BY <1>2, <1>4 DEF HeldStands, Tuples
<1>9. HeldStands(held', places', steady', seen')
  BY <1>1, <1>2, <1>3, <1>4, <1>5, <1>6, <1>7, <1>8 DEF HeldStands
<1>10. t \notin steady
  BY <1>1, <1>2 DEF HeldStands
<1>11. Reads(listing, held \cup {new}, steady, seen \cup {t})
  BY <1>2, <1>4, <1>10, ReadsOn
<1>12. listing.after \in Nat /\ listing.after <= places + 1
  BY <1>2, <1>3 DEF ListingRecord
<1> QED
  BY <1>1, <1>2, <1>5, <1>9, <1>11, <1>12 DEF ListingInv

LEMMA RevokeHolds == ListingInv /\ RevokeMeanwhile => ListingInv'
<1> SUFFICES ASSUME ListingInv, RevokeMeanwhile PROVE ListingInv'
  OBVIOUS
<1>1. PICK e \in held : held' = held \ {e} /\ steady' = steady \ {e.tuple}
  BY DEF RevokeMeanwhile
<1>2. /\ UNCHANGED <<places, listing, seen>> /\ listing.at = "reading"
      /\ HeldStands(held, places, steady, seen) /\ Reads(listing, held, steady, seen)
  BY DEF RevokeMeanwhile, ListingInv
<1>3. \A f \in held : f.tuple \in steady' => f \in held'
  BY <1>1
<1>4. steady' \subseteq Tuples(held')
  BY <1>1, <1>2, <1>3 DEF HeldStands, Tuples
<1>5. Tuples(held') \subseteq Tuples(held) /\ OnePlace(held')
  BY <1>1, <1>2 DEF HeldStands, OnePlace, Tuples
<1>6. HeldStands(held', places', steady', seen')
  BY <1>1, <1>2, <1>4, <1>5 DEF HeldStands
<1>7. Reads(listing, held', steady', seen)
  BY <1>1, <1>2, <1>3, ReadsOn
<1> QED
  BY <1>2, <1>6, <1>7 DEF ListingInv

LEMMA ListingStepHolds == ListingInv /\ [ListingNext]_listingVars => ListingInv'
<1>1. ListingInv /\ UNCHANGED listingVars => ListingInv'
  BY DEF ListingInv, listingVars
<1> QED
  BY <1>1, RefuseHolds, BeginHolds, ReadHolds, TellHolds, FailHolds, GrantHolds, RevokeHolds
  DEF ListingNext

LEMMA ListingInvHolds == ListingSpec => []ListingInv
BY ListingInitHolds, ListingStepHolds, PTL DEF ListingSpec

-----------------------------------------------------------------------------
(* OpenFGA never holds a tuple twice, a listing has rows of it and no more,
   and the token is a place that was given. *)
THEOREM ListingIsTyped == ListingSpec => []ListingTypeOK
BY ListingInvHolds, ListingTypeFollows, PTL

(* GET /grants: a listing that is told has every grant of the published model
   that was held all the while, once, and nothing else, for any number of
   tuples, types and pages and whatever is written between two pages. *)
THEOREM ListingIsComplete == ListingSpec => []ListingMissesNothing
BY ListingInvHolds, NothingIsMissed, PTL

-----------------------------------------------------------------------------
(* The editor of the web application.                                      *)
(* What a model without orphans is.                                         *)
RefsKnown(G, C, refs) == \A ref \in ToSet(refs) :
  (ref.kind = "group" => ref.group \in G) /\ ref.condition \in {"none"} \cup C

ParentsSound(N, ps) ==
  /\ \A i, j \in DOMAIN ps : ps[i].relationName = ps[j].relationName => i = j
  /\ \A p \in ToSet(ps) : /\ Distinct(p.parentTypes) /\ p.parentTypes # <<>>
                          /\ ToSet(p.parentTypes) \subseteq N

RelationSet(r) == {p.relationName : p \in ToSet(r.parents)}
PermissionSound(r, p) == /\ ToSet(p.grantedByRoles) \subseteq NameSet(r.roles)
                         /\ ToSet(p.inheritFromParents) \subseteq RelationSet(r)

ResourceSound(G, N, C, r) ==
  /\ ParentsSound(N, r.parents)
  /\ \A role \in ToSet(r.roles) : RefsKnown(G, C, role.assignableBy)
  /\ \A p \in ToSet(r.permissions) : PermissionSound(r, p)

TypesDistinct(ir) == /\ Distinct(Named(ir.groups)) /\ Distinct(Named(ir.resources))
                     /\ NameSet(ir.groups) \cap NameSet(ir.resources) = {}

ModelSound(ir) ==
  /\ ir \in ModelIRs /\ TypesDistinct(ir) /\ Distinct(ir.conditions)
  /\ \A g \in ToSet(ir.groups) : RefsKnown(NameSet(ir.groups), ToSet(ir.conditions), g.memberTypes)
  /\ \A r \in ToSet(ir.resources) :
       ResourceSound(NameSet(ir.groups), NameSet(ir.resources), ToSet(ir.conditions), r)

LEMMA DistinctMeans ==
  ASSUME NEW X, NEW s \in Seq(X)
  PROVE  Distinct(s) <=> ~Repeats(s)
<1>1. DOMAIN s \subseteq Nat
  OBVIOUS
<1> QED
  BY <1>1, RepeatsMeans, DistinctNoRepeats

LEMMA TypesDistinctMeans ==
  ASSUME NEW ir \in ModelIRs
  PROVE  TypesDistinct(ir) <=> ~Repeats(Named(ir.groups) \o Named(ir.resources))
<1> DEFINE a == Named(ir.groups)
           b == Named(ir.resources)
<1>1. a \in Seq(STRING) /\ b \in Seq(STRING) /\ ToSet(a) = NameSet(ir.groups) /\ ToSet(b) = NameSet(ir.resources)
  BY IrRecords, AllNamed, NamedIs
<1> HIDE DEF a, b
<1>2. a \o b \in Seq(STRING)
  BY <1>1
<1>3. Distinct(a \o b) <=> ~Repeats(a \o b)
  <2> DEFINE u == a \o b
  <2>1. u \in Seq(STRING)
    BY <1>2
  <2> HIDE DEF u
  <2>2. Distinct(u) <=> ~Repeats(u)
    BY <2>1, DistinctMeans
  <2> QED
    BY <2>2 DEF u
<1>4. Distinct(a \o b) => Distinct(a) /\ Distinct(b) /\ ToSet(a) \cap ToSet(b) = {}
  BY <1>1, ConcatDistinct
<1>5. Distinct(a) /\ Distinct(b) /\ ToSet(a) \cap ToSet(b) = {} => Distinct(a \o b)
  BY <1>1, ConcatStaysDistinct
<1> QED
  BY <1>1, <1>3, <1>4, <1>5 DEF TypesDistinct, a, b

(* The codes an orphan shows in, part by part. *)
LEMMA RefsKnownMeans ==
  ASSUME NEW ir, NEW refs
  PROVE  RefsKnown(NameSet(ir.groups), ToSet(ir.conditions), refs)
           <=> SubjectErrors(ir, refs) \cap Orphaned = {}
BY DEF RefsKnown, SubjectErrors, When, Orphaned

LEMMA ParentsSoundMeans ==
  ASSUME NEW ir, NEW r \in ResourceTypes
  PROVE  ParentsSound(NameSet(ir.resources), r.parents) <=> ParentErrors(ir, r) \cap Orphaned = {}
<1> DEFINE N == NameSet(ir.resources)
           ps == r.parents
           names == [i \in DOMAIN ps |-> ps[i].relationName]
           errors(i) == When(Repeats(ps[i].parentTypes), "DUP_PARENT_RELATION")
                        \cup When(ps[i].parentTypes = <<>> \/ ~(ToSet(ps[i].parentTypes) \subseteq N), "UNKNOWN_PARENT")
<1>1. /\ ps \in Seq(ParentRefs) /\ \A i \in DOMAIN ps : ps[i] \in ParentRefs
  BY ResourceRecords
<1>2. \A i \in DOMAIN ps : ps[i].relationName \in STRING /\ ps[i].parentTypes \in Seq(STRING)
  BY <1>1 DEF ParentRefs
<1>3. names \in Seq(STRING)
  BY <1>1, <1>2
<1>4. \A i \in DOMAIN ps : Distinct(ps[i].parentTypes) <=> ~Repeats(ps[i].parentTypes)
  BY <1>2, DistinctMeans
<1>5. (\A i, j \in DOMAIN ps : ps[i].relationName = ps[j].relationName => i = j) <=> ~Repeats(names)
  <2>1. Distinct(names) <=> ~Repeats(names)
    <3> HIDE DEF names
    <3> QED
      BY <1>3, DistinctMeans
  <2> QED
    BY <2>1 DEF Distinct
<1>6. (\A p \in ToSet(ps) : /\ Distinct(p.parentTypes) /\ p.parentTypes # <<>>
                            /\ ToSet(p.parentTypes) \subseteq N)
        <=> \A i \in DOMAIN ps : errors(i) \cap Orphaned = {}
  <2>1. \A i \in DOMAIN ps :
          errors(i) \cap Orphaned = {} <=> /\ Distinct(ps[i].parentTypes) /\ ps[i].parentTypes # <<>>
                                           /\ ToSet(ps[i].parentTypes) \subseteq N
    BY <1>4 DEF When, Orphaned
  <2> HIDE DEF errors
  <2> QED
    BY <2>1 DEF ToSet
<1>7. ParentErrors(ir, r) = When(ToSet(names) \cap BadName # {}, "BAD_NAME")
                            \cup When(Repeats(names), "DUP_PARENT_RELATION") \cup (UNION {errors(i) : i \in DOMAIN ps})
  BY DEF ParentErrors
<1> HIDE DEF names, errors
<1>8. "BAD_NAME" \notin Orphaned /\ "DUP_PARENT_RELATION" \in Orphaned
  BY DEF Orphaned
<1>9. ParentErrors(ir, r) \cap Orphaned = {} <=> ~Repeats(names) /\ \A i \in DOMAIN ps : errors(i) \cap Orphaned = {}
  BY <1>7, <1>8 DEF When
<1> QED
  BY <1>5, <1>6, <1>9 DEF ParentsSound

LEMMA ResourceSoundMeans ==
  ASSUME NEW ir, NEW r \in ResourceTypes
  PROVE  ResourceSound(NameSet(ir.groups), NameSet(ir.resources), ToSet(ir.conditions), r)
           <=> ResourceErrors(ir, r) \cap Orphaned = {}
<1>1. ParentsSound(NameSet(ir.resources), r.parents) <=> ParentErrors(ir, r) \cap Orphaned = {}
  BY ParentsSoundMeans
<1>2. RelationErrors(r) \cap Orphaned = {}
  BY DEF RelationErrors, When, Orphaned
<1>3. \A role : RefsKnown(NameSet(ir.groups), ToSet(ir.conditions), role.assignableBy)
                  <=> RoleErrors(ir, role) \cap Orphaned = {}
  <2>1. TAKE role
  <2>2. RefsKnown(NameSet(ir.groups), ToSet(ir.conditions), role.assignableBy)
          <=> SubjectErrors(ir, role.assignableBy) \cap Orphaned = {}
    BY RefsKnownMeans
  <2>3. When(role.name \in BadName, "BAD_NAME") \cap Orphaned = {}
    BY DEF When, Orphaned
  <2> QED
    BY <2>2, <2>3 DEF RoleErrors
<1>4. \A p : PermissionSound(r, p) <=> PermissionErrors(ir, r, p) \cap Orphaned = {}
  <2>1. TAKE p
  <2>2. RelationSet(r) = {r.parents[i].relationName : i \in DOMAIN r.parents}
    BY DEF RelationSet, ToSet
  <2>3. \A b : /\ When(b, "BAD_NAME") \cap Orphaned = {} /\ When(b, "EMPTY_GRANT") \cap Orphaned = {}
               /\ When(b, "PARENT_MISSING_PERMISSION") \cap Orphaned = {}
    BY DEF When, Orphaned
  <2>4. /\ When(~(ToSet(p.grantedByRoles) \subseteq NameSet(r.roles)), "UNKNOWN_ROLE") \cap Orphaned = {}
             <=> ToSet(p.grantedByRoles) \subseteq NameSet(r.roles)
        /\ When(~(ToSet(p.inheritFromParents) \subseteq RelationSet(r)), "UNKNOWN_PARENT") \cap Orphaned = {}
             <=> ToSet(p.inheritFromParents) \subseteq RelationSet(r)
    BY DEF When, Orphaned
  <2> QED
    BY <2>2, <2>3, <2>4 DEF PermissionErrors, PermissionSound
<1>5. ResourceErrors(ir, r) \cap Orphaned = {}
        <=> /\ ParentErrors(ir, r) \cap Orphaned = {}
            /\ \A role \in ToSet(r.roles) : RoleErrors(ir, role) \cap Orphaned = {}
            /\ \A p \in ToSet(r.permissions) : PermissionErrors(ir, r, p) \cap Orphaned = {}
  BY <1>2 DEF ResourceErrors
<1> QED
  BY <1>1, <1>3, <1>4, <1>5 DEF ResourceSound

LEMMA ModelSoundMeans ==
  ASSUME NEW ir \in ModelIRs
  PROVE  ModelSound(ir) <=> ModelErrors(ir) \cap Orphaned = {}
<1>1. TypeErrors(ir) \cap Orphaned = {} <=> TypesDistinct(ir)
  <2> DEFINE names == Named(ir.groups) \o Named(ir.resources)
  <2>1. TypesDistinct(ir) <=> ~Repeats(names)
    BY TypesDistinctMeans
  <2>2. TypeErrors(ir) = When("user" \in ToSet(names), "RESERVED_USER")
                         \cup When(ToSet(names) \cap BadName # {}, "BAD_NAME")
                         \cup When(Repeats(names), "DUP_TYPE")
    BY DEF TypeErrors
  <2> HIDE DEF names
  <2>3. \A b : /\ When(b, "RESERVED_USER") \cap Orphaned = {} /\ When(b, "BAD_NAME") \cap Orphaned = {}
               /\ When(b, "DUP_TYPE") \cap Orphaned = {} <=> ~b
    BY DEF When, Orphaned
  <2> QED
    BY <2>1, <2>2, <2>3
<1>2. /\ When(Repeats(ir.conditions), "DUP_CONDITION") \cap Orphaned = {} <=> Distinct(ir.conditions)
      /\ When(ToSet(ir.conditions) \cap BadName # {}, "BAD_NAME") \cap Orphaned = {}
  <2>1. Distinct(ir.conditions) <=> ~Repeats(ir.conditions)
    BY IrRecords, DistinctMeans
  <2> QED
    BY <2>1 DEF When, Orphaned
<1>3. \A g : RefsKnown(NameSet(ir.groups), ToSet(ir.conditions), g.memberTypes)
               <=> SubjectErrors(ir, g.memberTypes) \cap Orphaned = {}
  BY RefsKnownMeans
<1>4. \A r \in ToSet(ir.resources) :
        ResourceSound(NameSet(ir.groups), NameSet(ir.resources), ToSet(ir.conditions), r)
          <=> ResourceErrors(ir, r) \cap Orphaned = {}
  BY IrRecords, ResourceSoundMeans
<1>5. ModelErrors(ir) \cap Orphaned = {}
        <=> /\ TypeErrors(ir) \cap Orphaned = {}
            /\ When(Repeats(ir.conditions), "DUP_CONDITION") \cap Orphaned = {}
            /\ When(ToSet(ir.conditions) \cap BadName # {}, "BAD_NAME") \cap Orphaned = {}
            /\ \A g \in ToSet(ir.groups) : SubjectErrors(ir, g.memberTypes) \cap Orphaned = {}
            /\ \A r \in ToSet(ir.resources) : ResourceErrors(ir, r) \cap Orphaned = {}
  BY DEF ModelErrors
<1> QED
  BY <1>1, <1>2, <1>3, <1>4, <1>5 DEF ModelSound

-----------------------------------------------------------------------------
(* Lists that are changed.                                                  *)
LEMMA FunctionOnList ==
  ASSUME NEW X, NEW s \in Seq(X), NEW Y, NEW t \in [DOMAIN s -> Y]
  PROVE  /\ t \in Seq(Y) /\ DOMAIN t = DOMAIN s /\ Len(t) = Len(s)
         /\ \A y : y \in ToSet(t) <=> \E i \in DOMAIN s : y = t[i]
<1> DEFINE n == Len(s)
<1>1. DOMAIN s = 1..n /\ n \in Nat
  OBVIOUS
<1> HIDE DEF n
<1>2. t \in [1..n -> Y]
  BY <1>1
<1>3. t \in Seq(Y) /\ DOMAIN t = 1..n /\ Len(t) = n
  BY <1>1, <1>2
<1> QED
  BY <1>1, <1>3 DEF ToSet, n

LEMMA AppendedList ==
  ASSUME NEW X, NEW s \in Seq(X), NEW x \in X
  PROVE  /\ Append(s, x) \in Seq(X) /\ ToSet(Append(s, x)) = ToSet(s) \cup {x}
         /\ Append(s, x) # <<>>
         /\ Len(Append(s, x)) = Len(s) + 1 /\ Append(s, x)[Len(s) + 1] = x
         /\ \A i \in DOMAIN s : Append(s, x)[i] = s[i]
         /\ DOMAIN Append(s, x) = DOMAIN s \cup {Len(s) + 1} /\ Len(s) + 1 \notin DOMAIN s
         /\ Distinct(s) /\ x \notin ToSet(s) => Distinct(Append(s, x))
<1> DEFINE t == Append(s, x)
<1>1. /\ t \in Seq(X) /\ Len(t) = Len(s) + 1 /\ t[Len(s) + 1] = x /\ \A i \in 1..Len(s) : t[i] = s[i]
      /\ DOMAIN t = 1..(Len(s) + 1) /\ DOMAIN s = 1..Len(s) /\ Len(s) \in Nat
  BY AppendProperties
<1> HIDE DEF t
<1>2. DOMAIN t = DOMAIN s \cup {Len(s) + 1} /\ Len(s) + 1 \notin DOMAIN s
  BY <1>1
<1>3. ToSet(t) = ToSet(s) \cup {x}
  BY <1>1, <1>2 DEF ToSet
<1>4. Distinct(s) /\ x \notin ToSet(s) => Distinct(t)
  BY <1>1, <1>2 DEF ToSet, Distinct
<1>5. t # <<>>
  BY <1>1, EmptySeq
<1> QED
  BY <1>1, <1>2, <1>3, <1>4, <1>5 DEF t

(* What is left of a list comes from places of its own. *)
LEMMA ThosePlaces ==
  ASSUME NEW X, NEW s \in Seq(X), NEW T
  PROVE  \E g \in [DOMAIN Those(s, T) -> DOMAIN s] :
           /\ \A n \in DOMAIN Those(s, T) : Those(s, T)[n] = s[g[n]]
           /\ \A m, n \in DOMAIN Those(s, T) : g[m] = g[n] => m = n
<1> DEFINE t == Those(s, T)
<1>1. /\ t \in Seq(X)
      /\ \E g \in [DOMAIN t -> DOMAIN s] :
           /\ \A n \in DOMAIN t : t[n] = s[g[n]]
           /\ \A m, n \in DOMAIN t : m < n => g[m] < g[n]
  BY ThoseKept
<1> HIDE DEF t
<1>2. PICK g \in [DOMAIN t -> DOMAIN s] :
           /\ \A n \in DOMAIN t : t[n] = s[g[n]]
           /\ \A m, n \in DOMAIN t : m < n => g[m] < g[n]
  BY <1>1
<1>3. DOMAIN t \subseteq Nat /\ DOMAIN s \subseteq Nat
  BY <1>1
<1>4. \A m, n \in DOMAIN t : g[m] = g[n] => m = n
  <2> SUFFICES ASSUME NEW m \in DOMAIN t, NEW n \in DOMAIN t, g[m] = g[n], m # n PROVE FALSE
    OBVIOUS
  <2>1. m \in Nat /\ n \in Nat /\ g[m] \in Nat /\ g[n] \in Nat
    BY <1>3
  <2>2. m < n \/ n < m
    BY <2>1
  <2> QED
    BY <1>2, <2>1, <2>2
<1>5. \E h \in [DOMAIN t -> DOMAIN s] :
        /\ \A n \in DOMAIN t : t[n] = s[h[n]]
        /\ \A m, n \in DOMAIN t : h[m] = h[n] => m = n
  BY <1>2, <1>4
<1> QED
  BY <1>5 DEF t

LEMMA ThoseStay ==
  ASSUME NEW X, NEW s \in Seq(X), NEW T
  PROVE  /\ Those(s, T) \in Seq(X) /\ ToSet(Those(s, T)) = ToSet(s) \cap T
         /\ Distinct(s) => Distinct(Those(s, T))
         /\ Distinct(Named(s)) => Distinct(Named(Those(s, T)))
         /\ (\A i, j \in DOMAIN s : s[i].relationName = s[j].relationName => i = j) =>
              \A i, j \in DOMAIN Those(s, T) :
                Those(s, T)[i].relationName = Those(s, T)[j].relationName => i = j
<1> DEFINE t == Those(s, T)
<1>1. /\ t \in Seq(X) /\ ToSet(t) = ToSet(s) \cap T
      /\ \E g \in [DOMAIN t -> DOMAIN s] :
           /\ \A n \in DOMAIN t : t[n] = s[g[n]]
           /\ \A m, n \in DOMAIN t : g[m] = g[n] => m = n
  BY ThoseKept, ThosePlaces
<1> HIDE DEF t
<1>2. PICK g \in [DOMAIN t -> DOMAIN s] :
           /\ \A n \in DOMAIN t : t[n] = s[g[n]]
           /\ \A m, n \in DOMAIN t : g[m] = g[n] => m = n
  BY <1>1
<1>3. Distinct(s) => Distinct(t)
  BY <1>2 DEF Distinct
<1>4. Distinct(Named(s)) => Distinct(Named(t))
  BY <1>2 DEF Distinct, Named
<1>5. (\A i, j \in DOMAIN s : s[i].relationName = s[j].relationName => i = j) =>
        \A i, j \in DOMAIN t : t[i].relationName = t[j].relationName => i = j
  BY <1>2
<1> QED
  BY <1>1, <1>3, <1>4, <1>5 DEF t

-----------------------------------------------------------------------------
(* Records that are changed. *)
LEMMA ResourceFields ==
  ASSUME NEW r \in ResourceTypes
  PROVE  /\ \A rs \in Seq(Roles) : LET x == [r EXCEPT !.roles = rs] IN
              /\ x \in ResourceTypes /\ x.name = r.name /\ x.roles = rs
              /\ x.parents = r.parents /\ x.permissions = r.permissions
         /\ \A ps \in Seq(Permissions) : LET x == [r EXCEPT !.permissions = ps] IN
              /\ x \in ResourceTypes /\ x.name = r.name /\ x.roles = r.roles
              /\ x.parents = r.parents /\ x.permissions = ps
         /\ \A ps \in Seq(ParentRefs) : LET x == [r EXCEPT !.parents = ps] IN
              /\ x \in ResourceTypes /\ x.name = r.name /\ x.roles = r.roles
              /\ x.parents = ps /\ x.permissions = r.permissions
BY DEF ResourceTypes

(* What an edit of a resource type keeps. *)
Stays(G, N, C, r, x) == x \in ResourceTypes /\ x.name = r.name /\ ResourceSound(G, N, C, x)

LEMMA RolesChange ==
  ASSUME NEW G, NEW N, NEW C, NEW r \in ResourceTypes, ResourceSound(G, N, C, r),
         NEW rs \in Seq(Roles), \A role \in ToSet(rs) : RefsKnown(G, C, role.assignableBy),
         NameSet(r.roles) \subseteq NameSet(rs)
  PROVE  Stays(G, N, C, r, [r EXCEPT !.roles = rs])
<1> DEFINE x == [r EXCEPT !.roles = rs]
<1>1. /\ x \in ResourceTypes /\ x.name = r.name /\ x.roles = rs
      /\ x.parents = r.parents /\ x.permissions = r.permissions
  BY ResourceFields
<1> HIDE DEF x
<1>2. ResourceSound(G, N, C, x)
  BY <1>1 DEF ResourceSound, PermissionSound, RelationSet
<1>3. Stays(G, N, C, r, x)
  BY <1>1, <1>2 DEF Stays
<1> QED
  BY <1>3 DEF x

LEMMA PermissionsChange ==
  ASSUME NEW G, NEW N, NEW C, NEW r \in ResourceTypes, ResourceSound(G, N, C, r),
         NEW ps \in Seq(Permissions), \A p \in ToSet(ps) : PermissionSound(r, p)
  PROVE  Stays(G, N, C, r, [r EXCEPT !.permissions = ps])
<1> DEFINE x == [r EXCEPT !.permissions = ps]
<1>1. /\ x \in ResourceTypes /\ x.name = r.name /\ x.roles = r.roles
      /\ x.parents = r.parents /\ x.permissions = ps
  BY ResourceFields
<1> HIDE DEF x
<1>2. ResourceSound(G, N, C, x)
  BY <1>1 DEF ResourceSound, PermissionSound, RelationSet
<1>3. Stays(G, N, C, r, x)
  BY <1>1, <1>2 DEF Stays
<1> QED
  BY <1>3 DEF x

LEMMA ParentsChange ==
  ASSUME NEW G, NEW N, NEW C, NEW r \in ResourceTypes, ResourceSound(G, N, C, r),
         NEW ps \in Seq(ParentRefs), ParentsSound(N, ps),
         \A p \in ToSet(r.parents) : \E q \in ToSet(ps) : q.relationName = p.relationName
  PROVE  Stays(G, N, C, r, [r EXCEPT !.parents = ps])
<1> DEFINE x == [r EXCEPT !.parents = ps]
<1>1. /\ x \in ResourceTypes /\ x.name = r.name /\ x.roles = r.roles
      /\ x.parents = ps /\ x.permissions = r.permissions
  BY ResourceFields
<1> HIDE DEF x
<1>2. RelationSet(r) \subseteq RelationSet(x)
  BY <1>1 DEF RelationSet
<1>3. ResourceSound(G, N, C, x)
  BY <1>1, <1>2 DEF ResourceSound, PermissionSound
<1>4. Stays(G, N, C, r, x)
  BY <1>1, <1>3 DEF Stays
<1> QED
  BY <1>4 DEF x

(* What an edit of the model keeps. *)
Keeps(ir, x) == ModelSound(x) /\ NameSet(ir.resources) \subseteq NameSet(x.resources)

LEMMA IrFields ==
  ASSUME NEW ir \in ModelIRs
  PROVE  /\ \A rs \in Seq(ResourceTypes) : LET x == [ir EXCEPT !.resources = rs] IN
              /\ x \in ModelIRs /\ x.groups = ir.groups /\ x.resources = rs /\ x.conditions = ir.conditions
         /\ \A gs \in Seq(GroupTypes) : LET x == [ir EXCEPT !.groups = gs] IN
              /\ x \in ModelIRs /\ x.groups = gs /\ x.resources = ir.resources /\ x.conditions = ir.conditions
         /\ \A cs \in Seq(STRING) : LET x == [ir EXCEPT !.conditions = cs] IN
              /\ x \in ModelIRs /\ x.groups = ir.groups /\ x.resources = ir.resources /\ x.conditions = cs
         /\ \A gs \in Seq(GroupTypes), rs \in Seq(ResourceTypes) :
              LET x == [ir EXCEPT !.groups = gs, !.resources = rs] IN
              /\ x \in ModelIRs /\ x.groups = gs /\ x.resources = rs /\ x.conditions = ir.conditions
BY DEF ModelIRs

(* Some of the resource types are edited, under their names. *)
EditedAt(ir, K, h) ==
  [ir EXCEPT !.resources = [i \in DOMAIN ir.resources |-> IF i \in K THEN h[i] ELSE ir.resources[i]]]

StaysIn(ir, r, x) == Stays(NameSet(ir.groups), NameSet(ir.resources), ToSet(ir.conditions), r, x)
SoundIn(ir, r) == ResourceSound(NameSet(ir.groups), NameSet(ir.resources), ToSet(ir.conditions), r)

LEMMA EditKeeps ==
  ASSUME NEW ir, ModelSound(ir), NEW K, NEW h,
         \A i \in DOMAIN ir.resources : i \in K => StaysIn(ir, ir.resources[i], h[i])
  PROVE  Keeps(ir, EditedAt(ir, K, h))
<1> DEFINE rs == [i \in DOMAIN ir.resources |-> IF i \in K THEN h[i] ELSE ir.resources[i]]
           x == [ir EXCEPT !.resources = rs]
<1>1. /\ ir \in ModelIRs /\ ir.resources \in Seq(ResourceTypes) /\ ToSet(ir.resources) \subseteq ResourceTypes
      /\ \A i \in DOMAIN ir.resources : ir.resources[i] \in ToSet(ir.resources)
      /\ \A i \in DOMAIN ir.resources : SoundIn(ir, ir.resources[i])
  BY IrRecords DEF ModelSound, ToSet, SoundIn
<1>2. \A i \in DOMAIN ir.resources : StaysIn(ir, ir.resources[i], rs[i])
  BY <1>1 DEF StaysIn, Stays, SoundIn
<1>3. rs \in [DOMAIN ir.resources -> ResourceTypes]
  BY <1>1, <1>2 DEF StaysIn, Stays
<1>4. rs \in Seq(ResourceTypes) /\ DOMAIN rs = DOMAIN ir.resources
  <2> HIDE DEF rs
  <2> QED
    BY <1>1, <1>3, FunctionOnList
<1> HIDE DEF rs
<1>5. x \in ModelIRs /\ x.groups = ir.groups /\ x.resources = rs /\ x.conditions = ir.conditions
  BY <1>1, <1>4, IrFields
<1> HIDE DEF x
<1>6. Named(rs) = Named(ir.resources) /\ NameSet(rs) = NameSet(ir.resources)
  BY <1>2, <1>4 DEF Named, NameSet, StaysIn, Stays
<1>7. TypesDistinct(x)
  BY <1>5, <1>6 DEF TypesDistinct, ModelSound
<1>8. \A r \in ToSet(rs) : SoundIn(ir, r)
  BY <1>2, <1>4 DEF ToSet, StaysIn, Stays, SoundIn
<1>9. ModelSound(x)
  BY <1>5, <1>6, <1>7, <1>8 DEF ModelSound, SoundIn
<1>10. Keeps(ir, x)
  BY <1>5, <1>6, <1>9 DEF Keeps
<1> QED
  BY <1>10 DEF x, rs, EditedAt

FirstOf(s, name) == {i \in DOMAIN s : s[i].name = name /\ \A j \in DOMAIN s : s[j].name = name => i <= j}

(* The resource types of a model without orphans. *)
LEMMA SoundResources ==
  ASSUME NEW ir, ModelSound(ir)
  PROVE  /\ ir \in ModelIRs
         /\ \A i \in DOMAIN ir.resources : /\ ir.resources[i] \in ResourceTypes
                                           /\ SoundIn(ir, ir.resources[i])
BY IrRecords DEF ModelSound, ToSet, SoundIn

(* The subject a new role or group has. *)
LEMMA AnyoneIsKnown ==
  /\ AnyUser \in SubjectRefs /\ AnyUser.kind = "user" /\ AnyUser.condition = "none"
  /\ <<AnyUser>> \in Seq(SubjectRefs)
  /\ \A G, C : RefsKnown(G, C, <<AnyUser>>)
<1>1. AnyUser \in SubjectRefs /\ AnyUser.kind = "user" /\ AnyUser.condition = "none"
  BY EditorAssumption DEF AnyUser, SubjectRefs
<1>2. <<AnyUser>> \in Seq(SubjectRefs) /\ ToSet(<<AnyUser>>) = {AnyUser}
  <2> DEFINE u == AnyUser
  <2>1. u \in SubjectRefs
    BY <1>1
  <2> HIDE DEF u
  <2>2. <<u>> \in Seq(SubjectRefs) /\ ToSet(<<u>>) = {u}
    BY <2>1 DEF ToSet
  <2> QED
    BY <2>2 DEF u
<1>3. \A G, C : RefsKnown(G, C, <<AnyUser>>)
  BY <1>1, <1>2 DEF RefsKnown
<1> QED
  BY <1>1, <1>2, <1>3

LEMMA AddRoleKeeps ==
  ASSUME NEW ir, ModelSound(ir), NEW type, NEW name \in NewRoles
  PROVE  Keeps(ir, AddRole(ir, type, name))
<1> DEFINE new == [name |-> name, assignableBy |-> <<AnyUser>>]
           f(r) == IF name \in NameSet(r.roles) THEN r ELSE [r EXCEPT !.roles = Append(@, new)]
           h == [i \in DOMAIN ir.resources |-> f(ir.resources[i])]
<1>1. AddRole(ir, type, name) = EditedAt(ir, FirstOf(ir.resources, type), h)
  BY SoundResources DEF AddRole, OnResource, ChangeFirst, EditedAt, FirstOf, ModelIRs
<1>2. new \in Roles /\ \A G, C : RefsKnown(G, C, new.assignableBy)
  BY EditorAssumption, AnyoneIsKnown DEF Roles
<1> HIDE DEF new
<1>3. ASSUME NEW i \in DOMAIN ir.resources PROVE StaysIn(ir, ir.resources[i], f(ir.resources[i]))
  <2> DEFINE r == ir.resources[i]
             rs == Append(r.roles, new)
  <2>1. r \in ResourceTypes /\ SoundIn(ir, r) /\ r.roles \in Seq(Roles)
    BY SoundResources, ResourceRecords
  <2> HIDE DEF r
  <2>2. rs \in Seq(Roles) /\ ToSet(rs) = ToSet(r.roles) \cup {new} /\ \A j \in DOMAIN r.roles : j \in DOMAIN rs /\ rs[j] = r.roles[j]
    BY <1>2, <2>1, AppendedList
  <2> HIDE DEF rs
  <2>3. NameSet(r.roles) \subseteq NameSet(rs)
    BY <2>2 DEF NameSet
  <2>4. StaysIn(ir, r, [r EXCEPT !.roles = rs])
    BY <1>2, <2>1, <2>2, <2>3, RolesChange DEF StaysIn, SoundIn, ResourceSound
  <2>5. StaysIn(ir, r, r)
    BY <2>1 DEF StaysIn, SoundIn, Stays
  <2>6. StaysIn(ir, r, f(r))
    BY <2>4, <2>5 DEF rs
  <2> QED
    BY <2>6 DEF r
<1>4. \A i \in DOMAIN ir.resources : StaysIn(ir, ir.resources[i], h[i])
  BY <1>3
<1> HIDE DEF h
<1> QED
  BY <1>1, <1>4, EditKeeps

-----------------------------------------------------------------------------
(* The resource type an edit of the matrix is of. *)
LEMMA OnlyOneEdited ==
  ASSUME NEW ir, ModelSound(ir), NEW r \in ToSet(ir.resources), NEW i \in FirstOf(ir.resources, r.name)
  PROVE  i \in DOMAIN ir.resources /\ ir.resources[i] = r
<1>1. ir.resources \in Seq(ResourceTypes) /\ Distinct(Named(ir.resources))
  BY IrRecords DEF ModelSound, TypesDistinct
<1>2. Unique(ToSet(ir.resources))
  BY <1>1, AllNamed, DistinctNames
<1> QED
  BY <1>2 DEF Unique, FirstOf, ToSet

LEMMA RolesAndPermissionsChange ==
  ASSUME NEW G, NEW N, NEW C, NEW r \in ResourceTypes, ResourceSound(G, N, C, r),
         NEW rs \in Seq(Roles), \A role \in ToSet(rs) : RefsKnown(G, C, role.assignableBy),
         NEW ps \in Seq(Permissions),
         \A p \in ToSet(ps) : /\ ToSet(p.grantedByRoles) \subseteq NameSet(rs)
                              /\ ToSet(p.inheritFromParents) \subseteq RelationSet(r)
  PROVE  Stays(G, N, C, r, [r EXCEPT !.roles = rs, !.permissions = ps])
<1> DEFINE x == [r EXCEPT !.roles = rs, !.permissions = ps]
<1>1. /\ x \in ResourceTypes /\ x.name = r.name /\ x.roles = rs
      /\ x.parents = r.parents /\ x.permissions = ps
  BY DEF ResourceTypes
<1> HIDE DEF x
<1>2. ResourceSound(G, N, C, x)
  BY <1>1 DEF ResourceSound, PermissionSound, RelationSet
<1>3. Stays(G, N, C, r, x)
  BY <1>1, <1>2 DEF Stays
<1> QED
  BY <1>3 DEF x

LEMMA PermissionFields ==
  ASSUME NEW p \in Permissions
  PROVE  /\ p.grantedByRoles \in Seq(STRING) /\ p.inheritFromParents \in Seq(STRING)
         /\ \A s \in Seq(STRING) : LET x == [p EXCEPT !.grantedByRoles = s] IN
              /\ x \in Permissions /\ x.name = p.name /\ x.grantedByRoles = s
              /\ x.inheritFromParents = p.inheritFromParents
         /\ \A s \in Seq(STRING) : LET x == [p EXCEPT !.inheritFromParents = s] IN
              /\ x \in Permissions /\ x.name = p.name /\ x.inheritFromParents = s
              /\ x.grantedByRoles = p.grantedByRoles
         /\ \A n \in DOMAIN CanName : LET x == [p EXCEPT !.name = n] IN
              /\ x \in Permissions /\ x.name = n /\ x.inheritFromParents = p.inheritFromParents
              /\ x.grantedByRoles = p.grantedByRoles
BY DEF Permissions

LEMMA RoleFields ==
  ASSUME NEW role \in Roles
  PROVE  /\ role.name \in STRING /\ role.assignableBy \in Seq(SubjectRefs)
         /\ \A s \in Seq(SubjectRefs) : LET x == [role EXCEPT !.assignableBy = s] IN
              x \in Roles /\ x.name = role.name /\ x.assignableBy = s
         /\ \A n \in STRING : LET x == [role EXCEPT !.name = n] IN
              x \in Roles /\ x.name = n /\ x.assignableBy = role.assignableBy
BY DEF Roles

(* Toggling one string in a list. *)
LEMMA Toggled ==
  ASSUME NEW X, NEW s \in Seq(X), NEW x \in X
  PROVE  Toggle(s, x) \in Seq(X) /\ ToSet(Toggle(s, x)) \subseteq ToSet(s) \cup {x}
<1>1. Without(s, x) \in Seq(X) /\ ToSet(Without(s, x)) \subseteq ToSet(s)
  BY ThoseStay DEF Without, Kept
<1>2. Append(s, x) \in Seq(X) /\ ToSet(Append(s, x)) = ToSet(s) \cup {x}
  BY AppendedList
<1> QED
  BY <1>1, <1>2 DEF Toggle

-----------------------------------------------------------------------------
(* The edits of a resource type's permissions. *)
LEMMA AddPermissionStays ==
  ASSUME NEW ir, NEW r \in ResourceTypes, SoundIn(ir, r), NEW name \in NewPermissions
  PROVE  StaysIn(ir, r, [r EXCEPT !.permissions =
           Append(@, [name |-> name, grantedByRoles |-> <<>>, inheritFromParents |-> <<>>])])
<1> DEFINE new == [name |-> name, grantedByRoles |-> <<>>, inheritFromParents |-> <<>>]
           ps == Append(r.permissions, new)
<1>1. new \in Permissions /\ new.grantedByRoles = <<>> /\ new.inheritFromParents = <<>>
  <2>1. name \in DOMAIN CanName /\ <<>> \in Seq(STRING)
    BY EditorAssumption, EmptySeq
  <2> QED
    BY <2>1 DEF Permissions
<1>2. ToSet(<<>>) = {}
  BY DEF ToSet
<1> HIDE DEF new
<1>3. r.permissions \in Seq(Permissions)
  BY ResourceRecords
<1>4. ps \in Seq(Permissions) /\ ToSet(ps) = ToSet(r.permissions) \cup {new}
  BY <1>1, <1>3, AppendedList
<1> HIDE DEF ps
<1>5. \A p \in ToSet(ps) : PermissionSound(r, p)
  BY <1>1, <1>2, <1>4 DEF SoundIn, ResourceSound, PermissionSound
<1>6. StaysIn(ir, r, [r EXCEPT !.permissions = ps])
  BY <1>4, <1>5, PermissionsChange DEF SoundIn, StaysIn
<1> QED
  BY <1>6 DEF ps, new

LEMMA RemovePermissionStays ==
  ASSUME NEW ir, NEW r \in ResourceTypes, SoundIn(ir, r), NEW name
  PROVE  StaysIn(ir, r, [r EXCEPT !.permissions = Unnamed(@, name)])
<1> DEFINE ps == Unnamed(r.permissions, name)
<1>1. ps \in Seq(Permissions) /\ ToSet(ps) \subseteq ToSet(r.permissions)
  BY ResourceRecords, ThoseStay DEF Unnamed, Kept
<1> HIDE DEF ps
<1>2. \A p \in ToSet(ps) : PermissionSound(r, p)
  BY <1>1 DEF SoundIn, ResourceSound
<1>3. StaysIn(ir, r, [r EXCEPT !.permissions = ps])
  BY <1>1, <1>2, PermissionsChange DEF SoundIn, StaysIn
<1> QED
  BY <1>3 DEF ps

(* The permissions one by one. *)
LEMMA PermissionsMapped ==
  ASSUME NEW ir, NEW r \in ResourceTypes, SoundIn(ir, r), NEW ps, DOMAIN ps = DOMAIN r.permissions,
         ps = [i \in DOMAIN r.permissions |-> ps[i]],
         \A i \in DOMAIN r.permissions : ps[i] \in Permissions /\ PermissionSound(r, ps[i])
  PROVE  StaysIn(ir, r, [r EXCEPT !.permissions = ps])
<1> DEFINE s == r.permissions
<1>1. s \in Seq(Permissions) /\ ps \in [DOMAIN s -> Permissions]
  BY ResourceRecords
<1>2. ps \in Seq(Permissions)
  <2> HIDE DEF s
  <2> QED
    BY ONLY <1>1, FunctionOnList
<1>3. \A p \in ToSet(ps) : PermissionSound(r, p)
  BY DEF ToSet
<1> QED
  BY <1>2, <1>3, PermissionsChange DEF SoundIn, StaysIn

(* Of a resource type without orphans. *)
LEMMA PermissionsOfSound ==
  ASSUME NEW ir, NEW r \in ResourceTypes, SoundIn(ir, r)
  PROVE  \A i \in DOMAIN r.permissions : r.permissions[i] \in Permissions /\ PermissionSound(r, r.permissions[i])
BY ResourceRecords DEF SoundIn, ResourceSound, ToSet

LEMMA RenamePermissionStays ==
  ASSUME NEW ir, NEW r \in ResourceTypes, SoundIn(ir, r), NEW from, NEW to \in NewPermissions
  PROVE  StaysIn(ir, r, [r EXCEPT !.permissions = Each(@, LAMBDA p : [p EXCEPT !.name = IF @ = from THEN to ELSE @])])
<1> DEFINE f(p) == [p EXCEPT !.name = IF @ = from THEN to ELSE @]
           ps == [i \in DOMAIN r.permissions |-> f(r.permissions[i])]
<1>1. \A p \in Permissions : PermissionSound(r, p) => f(p) \in Permissions /\ PermissionSound(r, f(p))
  <2> TAKE p \in Permissions
  <2> DEFINE n == IF p.name = from THEN to ELSE p.name
  <2>1. n \in DOMAIN CanName
    BY EditorAssumption, AllNamed
  <2> HIDE DEF n
  <2> DEFINE x == [p EXCEPT !.name = n]
  <2>2. x \in Permissions /\ x.inheritFromParents = p.inheritFromParents /\ x.grantedByRoles = p.grantedByRoles
    BY <2>1, PermissionFields
  <2> HIDE DEF x
  <2>3. PermissionSound(r, p) => x \in Permissions /\ PermissionSound(r, x)
    BY <2>2 DEF PermissionSound
  <2> QED
    BY <2>3 DEF x, n
<1> HIDE DEF f
<1>2. \A i \in DOMAIN r.permissions : ps[i] \in Permissions /\ PermissionSound(r, ps[i])
  BY <1>1, PermissionsOfSound
<1>3. DOMAIN ps = DOMAIN r.permissions /\ ps = [i \in DOMAIN r.permissions |-> ps[i]]
  OBVIOUS
<1> HIDE DEF ps
<1>4. StaysIn(ir, r, [r EXCEPT !.permissions = ps])
  BY <1>2, <1>3, PermissionsMapped
<1> QED
  BY <1>4 DEF ps, f, Each

LEMMA ToggleCellStays ==
  ASSUME NEW ir, NEW r \in ResourceTypes, SoundIn(ir, r), NEW permission, NEW role \in NameSet(r.roles)
  PROVE  StaysIn(ir, r, [r EXCEPT !.permissions =
           ChangeFirst(@, permission, LAMBDA p : [p EXCEPT !.grantedByRoles = Toggle(@, role)])])
<1> DEFINE f(p) == [p EXCEPT !.grantedByRoles = Toggle(@, role)]
           first(i) == r.permissions[i].name = permission
                       /\ \A j \in DOMAIN r.permissions : r.permissions[j].name = permission => i <= j
           ps == [i \in DOMAIN r.permissions |-> IF first(i) THEN f(r.permissions[i]) ELSE r.permissions[i]]
<1>0. role \in STRING
  BY ResourceRecords, AllNamed DEF NameSet
<1>1. \A p \in Permissions : PermissionSound(r, p) => f(p) \in Permissions /\ PermissionSound(r, f(p))
  <2> TAKE p \in Permissions
  <2> HAVE PermissionSound(r, p)
  <2>1. p.grantedByRoles \in Seq(STRING)
    BY PermissionFields
  <2>2. Toggle(p.grantedByRoles, role) \in Seq(STRING)
        /\ ToSet(Toggle(p.grantedByRoles, role)) \subseteq ToSet(p.grantedByRoles) \cup {role}
    BY <1>0, <2>1, Toggled
  <2> QED
    BY <2>2, PermissionFields DEF PermissionSound
<1> HIDE DEF f
<1>2. \A i \in DOMAIN r.permissions : ps[i] \in Permissions /\ PermissionSound(r, ps[i])
  <2> HIDE DEF first
  <2> QED
    BY <1>1, PermissionsOfSound
<1>3. DOMAIN ps = DOMAIN r.permissions /\ ps = [i \in DOMAIN r.permissions |-> ps[i]]
  OBVIOUS
<1> HIDE DEF ps
<1>4. StaysIn(ir, r, [r EXCEPT !.permissions = ps])
  BY <1>2, <1>3, PermissionsMapped
<1> QED
  BY <1>4 DEF ps, f, first, ChangeFirst

LEMMA ToggleInheritStays ==
  ASSUME NEW ir, NEW r \in ResourceTypes, SoundIn(ir, r), NEW permission, NEW rel \in RelationSet(r)
  PROVE  StaysIn(ir, r, [r EXCEPT !.permissions =
           ChangeFirst(@, permission, LAMBDA p : [p EXCEPT !.inheritFromParents = Toggle(@, rel)])])
<1> DEFINE f(p) == [p EXCEPT !.inheritFromParents = Toggle(@, rel)]
           first(i) == r.permissions[i].name = permission
                       /\ \A j \in DOMAIN r.permissions : r.permissions[j].name = permission => i <= j
           ps == [i \in DOMAIN r.permissions |-> IF first(i) THEN f(r.permissions[i]) ELSE r.permissions[i]]
<1>0. rel \in STRING
  BY ResourceRecords DEF RelationSet, ParentRefs
<1>1. \A p \in Permissions : PermissionSound(r, p) => f(p) \in Permissions /\ PermissionSound(r, f(p))
  <2> TAKE p \in Permissions
  <2> HAVE PermissionSound(r, p)
  <2>1. p.inheritFromParents \in Seq(STRING)
    BY PermissionFields
  <2>2. Toggle(p.inheritFromParents, rel) \in Seq(STRING)
        /\ ToSet(Toggle(p.inheritFromParents, rel)) \subseteq ToSet(p.inheritFromParents) \cup {rel}
    BY <1>0, <2>1, Toggled
  <2> QED
    BY <2>2, PermissionFields DEF PermissionSound
<1> HIDE DEF f
<1>2. \A i \in DOMAIN r.permissions : ps[i] \in Permissions /\ PermissionSound(r, ps[i])
  <2> HIDE DEF first
  <2> QED
    BY <1>1, PermissionsOfSound
<1>3. DOMAIN ps = DOMAIN r.permissions /\ ps = [i \in DOMAIN r.permissions |-> ps[i]]
  OBVIOUS
<1> HIDE DEF ps
<1>4. StaysIn(ir, r, [r EXCEPT !.permissions = ps])
  BY <1>2, <1>3, PermissionsMapped
<1> QED
  BY <1>4 DEF ps, f, first, ChangeFirst

-----------------------------------------------------------------------------
LEMMA NamesOfItems ==
  ASSUME NEW s
  PROVE  NameSet(s) = {x.name : x \in ToSet(s)}
BY DEF NameSet, ToSet

LEMMA MappedList ==
  ASSUME NEW X, NEW s \in Seq(X), NEW Y, NEW Z \in SUBSET Y, NEW t \in [DOMAIN s -> Z]
  PROVE  t \in Seq(Y) /\ ToSet(t) \subseteq Z /\ DOMAIN t = DOMAIN s
<1>1. t \in [DOMAIN s -> Y]
  OBVIOUS
<1>2. t \in Seq(Y) /\ DOMAIN t = DOMAIN s
  BY <1>1, FunctionOnList
<1>3. ToSet(t) \subseteq Z
  BY DEF ToSet
<1> QED
  BY <1>2, <1>3

(* The edits of a resource type's roles. *)
LEMMA RemoveRoleStays ==
  ASSUME NEW ir, NEW r \in ResourceTypes, SoundIn(ir, r), NEW name
  PROVE  StaysIn(ir, r, [r EXCEPT !.roles = Unnamed(@, name),
           !.permissions = Each(@, LAMBDA p : [p EXCEPT !.grantedByRoles = Without(@, name)])])
<1> DEFINE rs == Unnamed(r.roles, name)
           f(p) == [p EXCEPT !.grantedByRoles = Without(@, name)]
           ps == [i \in DOMAIN r.permissions |-> f(r.permissions[i])]
<1>1. rs \in Seq(Roles) /\ ToSet(rs) = {x \in ToSet(r.roles) : x.name # name}
  <2>1. rs \in Seq(Roles) /\ ToSet(rs) = ToSet(r.roles) \cap {x \in ToSet(r.roles) : x.name # name}
    BY ResourceRecords, ThoseStay DEF Unnamed, Kept
  <2> QED
    BY <2>1
<1> HIDE DEF rs
<1>2. \A n \in NameSet(r.roles) : n # name => n \in NameSet(rs)
  BY <1>1, NamesOfItems
<1>3. \A p \in Permissions : PermissionSound(r, p) =>
        /\ f(p) \in Permissions /\ ToSet(f(p).grantedByRoles) \subseteq NameSet(rs)
        /\ ToSet(f(p).inheritFromParents) \subseteq RelationSet(r)
  <2> TAKE p \in Permissions
  <2> HAVE PermissionSound(r, p)
  <2> DEFINE g == Without(p.grantedByRoles, name)
             x == [p EXCEPT !.grantedByRoles = g]
  <2>1. g \in Seq(STRING) /\ ToSet(g) = ToSet(p.grantedByRoles) \cap {y \in ToSet(p.grantedByRoles) : y # name}
    BY PermissionFields, ThoseStay DEF Without, Kept
  <2> HIDE DEF g
  <2>2. x \in Permissions /\ x.grantedByRoles = g /\ x.inheritFromParents = p.inheritFromParents
    BY <2>1, PermissionFields
  <2> HIDE DEF x
  <2>3. ToSet(g) \subseteq NameSet(rs)
    BY <1>2, <2>1 DEF PermissionSound
  <2>4. /\ x \in Permissions /\ ToSet(x.grantedByRoles) \subseteq NameSet(rs)
        /\ ToSet(x.inheritFromParents) \subseteq RelationSet(r)
    BY <2>2, <2>3 DEF PermissionSound
  <2> QED
    BY <2>4 DEF x, g
<1> HIDE DEF f
<1>4. /\ ps \in Seq(Permissions)
      /\ \A p \in ToSet(ps) : /\ ToSet(p.grantedByRoles) \subseteq NameSet(rs)
                              /\ ToSet(p.inheritFromParents) \subseteq RelationSet(r)
  <2> DEFINE Z == {p \in Permissions : /\ ToSet(p.grantedByRoles) \subseteq NameSet(rs)
                                       /\ ToSet(p.inheritFromParents) \subseteq RelationSet(r)}
             s == r.permissions
  <2>1. s \in Seq(Permissions) /\ ps \in [DOMAIN s -> Z] /\ Z \in SUBSET Permissions
    BY <1>3, PermissionsOfSound, ResourceRecords
  <2>2. ps \in Seq(Permissions) /\ ToSet(ps) \subseteq Z
    <3> HIDE DEF ps, Z, s
    <3> QED
      BY ONLY <2>1, MappedList
  <2> QED
    BY <2>2
<1> HIDE DEF ps
<1>5. StaysIn(ir, r, [r EXCEPT !.roles = rs, !.permissions = ps])
  BY <1>1, <1>4, RolesAndPermissionsChange DEF SoundIn, StaysIn, ResourceSound
<1> QED
  BY <1>5 DEF rs, ps, f, Each

RoleRenamed(r, from, to) ==
  [r EXCEPT !.roles = Each(@, LAMBDA role : [role EXCEPT !.name = IF @ = from THEN to ELSE @]),
            !.permissions = Each(@, LAMBDA p :
              [p EXCEPT !.grantedByRoles = Each(@, LAMBDA n : IF n = from THEN to ELSE n)])]
LEMMA RenameRoleStays ==
  ASSUME NEW ir, NEW r \in ResourceTypes, SoundIn(ir, r), NEW from, NEW to \in STRING
  PROVE  StaysIn(ir, r, RoleRenamed(r, from, to))
<1> DEFINE renamed(n) == IF n = from THEN to ELSE n
           e(role) == [role EXCEPT !.name = renamed(@)]
           rs == [i \in DOMAIN r.roles |-> e(r.roles[i])]
           g(s) == [i \in DOMAIN s |-> renamed(s[i])]
           f(p) == [p EXCEPT !.grantedByRoles = g(@)]
           ps == [i \in DOMAIN r.permissions |-> f(r.permissions[i])]
<1>0. \A n \in STRING : renamed(n) \in STRING
  OBVIOUS
<1> HIDE DEF renamed
<1>1. \A role \in Roles : e(role) \in Roles /\ e(role).name = renamed(role.name) /\ e(role).assignableBy = role.assignableBy
  BY <1>0 DEF Roles
<1> HIDE DEF e
<1>2. /\ rs \in Seq(Roles) /\ DOMAIN rs = DOMAIN r.roles
      /\ \A i \in DOMAIN r.roles : rs[i].name = renamed(r.roles[i].name) /\ rs[i].assignableBy = r.roles[i].assignableBy
  <2> DEFINE s == r.roles
  <2>1. s \in Seq(Roles) /\ rs \in [DOMAIN s -> Roles]
    BY <1>1, ResourceRecords
  <2>2. rs \in Seq(Roles) /\ DOMAIN rs = DOMAIN s
    <3> HIDE DEF rs, s
    <3> QED
      BY ONLY <2>1, FunctionOnList
  <2>3. \A i \in DOMAIN s : s[i] \in Roles
    BY <2>1
  <2> QED
    BY <1>1, <2>2, <2>3
<1> HIDE DEF rs
<1>3. \A n \in NameSet(r.roles) : renamed(n) \in NameSet(rs)
  BY <1>2 DEF NameSet
<1>4. \A role \in ToSet(rs) : RefsKnown(NameSet(ir.groups), ToSet(ir.conditions), role.assignableBy)
  BY <1>2 DEF ToSet, SoundIn, ResourceSound
<1>5. \A p \in Permissions : PermissionSound(r, p) =>
        /\ f(p) \in Permissions /\ ToSet(f(p).grantedByRoles) \subseteq NameSet(rs)
        /\ ToSet(f(p).inheritFromParents) \subseteq RelationSet(r)
  <2> TAKE p \in Permissions
  <2> HAVE PermissionSound(r, p)
  <2> DEFINE s == p.grantedByRoles
             t == g(s)
             x == [p EXCEPT !.grantedByRoles = t]
  <2>0. s \in Seq(STRING) /\ ToSet(s) \subseteq NameSet(r.roles)
    BY PermissionFields DEF PermissionSound
  <2> HIDE DEF s
  <2>1. t \in [DOMAIN s -> STRING \cap NameSet(rs)]
    <3>1. \A i \in DOMAIN s : s[i] \in STRING /\ s[i] \in NameSet(r.roles)
      BY <2>0 DEF ToSet
    <3>2. \A i \in DOMAIN s : renamed(s[i]) \in STRING \cap NameSet(rs)
      BY <1>0, <1>3, <3>1
    <3> QED
      BY <3>2
  <2> HIDE DEF t
  <2>2. t \in Seq(STRING) /\ ToSet(t) \subseteq STRING \cap NameSet(rs)
    BY ONLY <2>0, <2>1, MappedList
  <2>3. x \in Permissions /\ x.grantedByRoles = t /\ x.inheritFromParents = p.inheritFromParents
    BY <2>2, PermissionFields
  <2> HIDE DEF x
  <2>4. /\ x \in Permissions /\ ToSet(x.grantedByRoles) \subseteq NameSet(rs)
        /\ ToSet(x.inheritFromParents) \subseteq RelationSet(r)
    BY <2>2, <2>3 DEF PermissionSound
  <2> QED
    BY <2>4 DEF x, t, s
<1> HIDE DEF f
<1>6. /\ ps \in Seq(Permissions)
      /\ \A p \in ToSet(ps) : /\ ToSet(p.grantedByRoles) \subseteq NameSet(rs)
                              /\ ToSet(p.inheritFromParents) \subseteq RelationSet(r)
  <2> DEFINE Z == {p \in Permissions : /\ ToSet(p.grantedByRoles) \subseteq NameSet(rs)
                                       /\ ToSet(p.inheritFromParents) \subseteq RelationSet(r)}
             s == r.permissions
  <2>1. s \in Seq(Permissions) /\ ps \in [DOMAIN s -> Z] /\ Z \in SUBSET Permissions
    BY <1>5, PermissionsOfSound, ResourceRecords
  <2>2. ps \in Seq(Permissions) /\ ToSet(ps) \subseteq Z
    <3> HIDE DEF ps, Z, s
    <3> QED
      BY ONLY <2>1, MappedList
  <2> QED
    BY <2>2
<1> HIDE DEF ps
<1>7. StaysIn(ir, r, [r EXCEPT !.roles = rs, !.permissions = ps])
  BY <1>2, <1>4, <1>6, RolesAndPermissionsChange DEF SoundIn, StaysIn
<1> QED
  BY <1>7 DEF RoleRenamed, rs, ps, f, g, e, renamed, Each

(* Roles under their names, with subjects that are known. *)
LEMMA RolesMapped ==
  ASSUME NEW ir, NEW r \in ResourceTypes, SoundIn(ir, r), NEW rs \in [DOMAIN r.roles -> Roles],
         \A i \in DOMAIN r.roles : /\ rs[i].name = r.roles[i].name
           /\ RefsKnown(NameSet(ir.groups), ToSet(ir.conditions), rs[i].assignableBy)
  PROVE  StaysIn(ir, r, [r EXCEPT !.roles = rs])
<1> DEFINE s == r.roles
<1>1. s \in Seq(Roles) /\ rs \in [DOMAIN s -> Roles]
  BY ResourceRecords
<1>2. rs \in Seq(Roles) /\ DOMAIN rs = DOMAIN s
  <2> HIDE DEF s
  <2> QED
    BY ONLY <1>1, FunctionOnList
<1>3. NameSet(r.roles) \subseteq NameSet(rs)
  BY <1>2 DEF NameSet
<1>4. \A role \in ToSet(rs) : RefsKnown(NameSet(ir.groups), ToSet(ir.conditions), role.assignableBy)
  BY <1>2 DEF ToSet
<1> QED
  BY <1>2, <1>3, <1>4, RolesChange DEF SoundIn, StaysIn

LEMMA RolesOfSound ==
  ASSUME NEW ir, NEW r \in ResourceTypes, SoundIn(ir, r)
  PROVE  \A i \in DOMAIN r.roles : /\ r.roles[i] \in Roles
           /\ RefsKnown(NameSet(ir.groups), ToSet(ir.conditions), r.roles[i].assignableBy)
BY ResourceRecords DEF SoundIn, ResourceSound, ToSet

LEMMA SetRoleAssignableByStays ==
  ASSUME NEW ir, NEW r \in ResourceTypes, SoundIn(ir, r), NEW role, NEW refs \in Seq(SubjectRefs),
         RefsKnown(NameSet(ir.groups), ToSet(ir.conditions), refs)
  PROVE  StaysIn(ir, r, [r EXCEPT !.roles =
           ChangeFirst(@, role, LAMBDA x : [x EXCEPT !.assignableBy = refs])])
<1> DEFINE f(x) == [x EXCEPT !.assignableBy = refs]
           first(i) == r.roles[i].name = role /\ \A j \in DOMAIN r.roles : r.roles[j].name = role => i <= j
           rs == [i \in DOMAIN r.roles |-> IF first(i) THEN f(r.roles[i]) ELSE r.roles[i]]
<1>1. \A x \in Roles : f(x) \in Roles /\ f(x).name = x.name /\ f(x).assignableBy = refs
  BY RoleFields
<1> HIDE DEF f
<1>2. /\ rs \in [DOMAIN r.roles -> Roles]
      /\ \A i \in DOMAIN r.roles : /\ rs[i].name = r.roles[i].name
           /\ RefsKnown(NameSet(ir.groups), ToSet(ir.conditions), rs[i].assignableBy)
  <2> HIDE DEF first
  <2> QED
    BY <1>1, RolesOfSound
<1> HIDE DEF rs
<1>3. StaysIn(ir, r, [r EXCEPT !.roles = rs])
  BY <1>2, RolesMapped
<1> QED
  BY <1>3 DEF rs, f, first, ChangeFirst

Conditioned(r, role, n, condition) ==
  [r EXCEPT !.roles = ChangeFirst(@, role, LAMBDA x :
     IF n \in DOMAIN x.assignableBy THEN [x EXCEPT !.assignableBy[n].condition = condition] ELSE x)]
LEMMA SetAssignmentConditionStays ==
  ASSUME NEW ir, NEW r \in ResourceTypes, SoundIn(ir, r), NEW role, NEW n,
         NEW condition \in ({"none"} \cup ToSet(ir.conditions)) \cap STRING
  PROVE  StaysIn(ir, r, Conditioned(r, role, n, condition))
<1> DEFINE f(x) == IF n \in DOMAIN x.assignableBy THEN [x EXCEPT !.assignableBy[n].condition = condition] ELSE x
           first(i) == r.roles[i].name = role /\ \A j \in DOMAIN r.roles : r.roles[j].name = role => i <= j
           rs == [i \in DOMAIN r.roles |-> IF first(i) THEN f(r.roles[i]) ELSE r.roles[i]]
           G == NameSet(ir.groups)
           C == ToSet(ir.conditions)
<1>1. ASSUME NEW x \in Roles, RefsKnown(G, C, x.assignableBy)
      PROVE  f(x) \in Roles /\ f(x).name = x.name /\ RefsKnown(G, C, f(x).assignableBy)
  <2>1. CASE n \notin DOMAIN x.assignableBy
    BY <1>1, <2>1
  <2>2. CASE n \in DOMAIN x.assignableBy
    <3> DEFINE s == x.assignableBy
               new == [s[n] EXCEPT !.condition = condition]
               t == [s EXCEPT ![n] = new]
               y == [x EXCEPT !.assignableBy = t]
    <3>1. s \in Seq(SubjectRefs) /\ n \in DOMAIN s
      BY <2>2, RoleFields
    <3>2. s[n] \in SubjectRefs /\ s[n] \in ToSet(s)
      BY <3>1 DEF ToSet
    <3>3. new \in SubjectRefs /\ new.condition = condition /\ new.group = s[n].group /\ new.kind = s[n].kind
      BY <3>2 DEF SubjectRefs
    <3>4. (s[n].kind = "group" => s[n].group \in G)
      BY <1>1, <3>2 DEF RefsKnown
    <3>5. f(x) = y
      BY <2>2
    <3> HIDE DEF new, f
    <3>6. t \in Seq(SubjectRefs) /\ ToSet(t) \subseteq ToSet(s) \cup {new}
      <4> HIDE DEF s
      <4>1. t \in Seq(SubjectRefs) /\ DOMAIN t = DOMAIN s
            /\ \A i \in DOMAIN s : t[i] = IF i = n THEN new ELSE s[i]
        BY <3>1, <3>3
      <4> HIDE DEF t
      <4> QED
        BY <4>1 DEF ToSet
    <3>7. RefsKnown(G, C, t)
      <4> HIDE DEF t
      <4> QED
        BY <1>1, <3>3, <3>4, <3>6 DEF RefsKnown
    <3>8. y \in Roles /\ y.name = x.name /\ y.assignableBy = t
      <4> HIDE DEF t
      <4> QED
        BY <3>6, RoleFields
    <3> QED
      BY <3>5, <3>7, <3>8
  <2> QED
    BY <2>1, <2>2
<1> HIDE DEF f
<1>2. /\ rs \in [DOMAIN r.roles -> Roles]
      /\ \A i \in DOMAIN r.roles : /\ rs[i].name = r.roles[i].name /\ RefsKnown(G, C, rs[i].assignableBy)
  <2> HIDE DEF first
  <2> QED
    BY <1>1, RolesOfSound
<1> HIDE DEF rs
<1>3. StaysIn(ir, r, [r EXCEPT !.roles = rs])
  BY <1>2, RolesMapped
<1> QED
  BY <1>3 DEF Conditioned, rs, f, first, ChangeFirst

(* The edits of the matrix and the panel, in the model. *)
LEMMA AddPermissionKeeps ==
  ASSUME NEW ir, ModelSound(ir), NEW type, NEW name \in NewPermissions
  PROVE  Keeps(ir, AddPermission(ir, type, name))
<1> DEFINE new == [name |-> name, grantedByRoles |-> <<>>, inheritFromParents |-> <<>>]
           f(r) == IF name \in NameSet(r.permissions) THEN r ELSE [r EXCEPT !.permissions = Append(@, new)]
           h == [i \in DOMAIN ir.resources |-> f(ir.resources[i])]
<1>1. AddPermission(ir, type, name) = EditedAt(ir, FirstOf(ir.resources, type), h)
  BY SoundResources DEF AddPermission, OnResource, ChangeFirst, EditedAt, FirstOf, ModelIRs
<1>2. \A r \in ResourceTypes : SoundIn(ir, r) => StaysIn(ir, r, f(r))
  BY AddPermissionStays DEF StaysIn, Stays, SoundIn
<1> HIDE DEF f
<1>3. \A i \in DOMAIN ir.resources : StaysIn(ir, ir.resources[i], h[i])
  BY <1>2, SoundResources
<1> HIDE DEF h
<1> QED
  BY <1>1, <1>3, EditKeeps

LEMMA RemovePermissionKeeps ==
  ASSUME NEW ir, ModelSound(ir), NEW type, NEW name
  PROVE  Keeps(ir, RemovePermission(ir, type, name))
<1> DEFINE f(r) == [r EXCEPT !.permissions = Unnamed(@, name)]
           h == [i \in DOMAIN ir.resources |-> f(ir.resources[i])]
<1>1. RemovePermission(ir, type, name) = EditedAt(ir, FirstOf(ir.resources, type), h)
  BY SoundResources DEF RemovePermission, OnResource, ChangeFirst, EditedAt, FirstOf, ModelIRs
<1>2. \A r \in ResourceTypes : SoundIn(ir, r) => StaysIn(ir, r, f(r))
  BY RemovePermissionStays
<1> HIDE DEF f
<1>3. \A i \in DOMAIN ir.resources : StaysIn(ir, ir.resources[i], h[i])
  BY <1>2, SoundResources
<1> HIDE DEF h
<1> QED
  BY <1>1, <1>3, EditKeeps

LEMMA RenamePermissionKeeps ==
  ASSUME NEW ir, ModelSound(ir), NEW type, NEW from, NEW to \in NewPermissions
  PROVE  Keeps(ir, RenamePermission(ir, type, from, to))
<1> DEFINE f(r) == [r EXCEPT !.permissions = Each(@, LAMBDA p : [p EXCEPT !.name = IF @ = from THEN to ELSE @])]
           h == [i \in DOMAIN ir.resources |-> f(ir.resources[i])]
<1>1. RenamePermission(ir, type, from, to) = EditedAt(ir, FirstOf(ir.resources, type), h)
  BY SoundResources DEF RenamePermission, OnResource, ChangeFirst, EditedAt, FirstOf, ModelIRs
<1>2. \A r \in ResourceTypes : SoundIn(ir, r) => StaysIn(ir, r, f(r))
  BY RenamePermissionStays
<1> HIDE DEF f
<1>3. \A i \in DOMAIN ir.resources : StaysIn(ir, ir.resources[i], h[i])
  BY <1>2, SoundResources
<1> HIDE DEF h
<1> QED
  BY <1>1, <1>3, EditKeeps

LEMMA ToggleCellKeeps ==
  ASSUME NEW ir, ModelSound(ir), NEW r \in ToSet(ir.resources), NEW permission, NEW role \in NameSet(r.roles)
  PROVE  Keeps(ir, ToggleCell(ir, r.name, permission, role))
<1> DEFINE f(x) == [x EXCEPT !.permissions =
             ChangeFirst(@, permission, LAMBDA p : [p EXCEPT !.grantedByRoles = Toggle(@, role)])]
           h == [i \in DOMAIN ir.resources |-> f(ir.resources[i])]
<1>1. ToggleCell(ir, r.name, permission, role) = EditedAt(ir, FirstOf(ir.resources, r.name), h)
  <2> HIDE DEF f
  <2>1. \A x : f(x) = [x EXCEPT !.permissions =
             ChangeFirst(@, permission, LAMBDA p : [p EXCEPT !.grantedByRoles = Toggle(@, role)])]
    BY DEF f
  <2>2. ToggleCell(ir, r.name, permission, role) = OnResource(ir, r.name, f)
    BY <2>1 DEF ToggleCell, OnPermission, OnResource, ChangeFirst
  <2> QED
    BY <2>2, SoundResources DEF OnResource, ChangeFirst, EditedAt, FirstOf, ModelIRs
<1>2. SoundIn(ir, r) /\ r \in ResourceTypes
  BY SoundResources DEF ToSet
<1>3. StaysIn(ir, r, f(r))
  BY <1>2, ToggleCellStays
<1> HIDE DEF f
<1>4. \A i \in DOMAIN ir.resources : i \in FirstOf(ir.resources, r.name) => StaysIn(ir, ir.resources[i], h[i])
  BY <1>3, OnlyOneEdited
<1> HIDE DEF h
<1> QED
  BY <1>1, <1>4, EditKeeps

LEMMA ToggleInheritKeeps ==
  ASSUME NEW ir, ModelSound(ir), NEW r \in ToSet(ir.resources), NEW permission, NEW rel \in RelationSet(r)
  PROVE  Keeps(ir, ToggleInherit(ir, r.name, permission, rel))
<1> DEFINE f(x) == [x EXCEPT !.permissions =
             ChangeFirst(@, permission, LAMBDA p : [p EXCEPT !.inheritFromParents = Toggle(@, rel)])]
           h == [i \in DOMAIN ir.resources |-> f(ir.resources[i])]
<1>1. ToggleInherit(ir, r.name, permission, rel) = EditedAt(ir, FirstOf(ir.resources, r.name), h)
  <2> HIDE DEF f
  <2>1. \A x : f(x) = [x EXCEPT !.permissions =
             ChangeFirst(@, permission, LAMBDA p : [p EXCEPT !.inheritFromParents = Toggle(@, rel)])]
    BY DEF f
  <2>2. ToggleInherit(ir, r.name, permission, rel) = OnResource(ir, r.name, f)
    BY <2>1 DEF ToggleInherit, OnPermission, OnResource, ChangeFirst
  <2> QED
    BY <2>2, SoundResources DEF OnResource, ChangeFirst, EditedAt, FirstOf, ModelIRs
<1>2. SoundIn(ir, r) /\ r \in ResourceTypes
  BY SoundResources DEF ToSet
<1>3. StaysIn(ir, r, f(r))
  BY <1>2, ToggleInheritStays
<1> HIDE DEF f
<1>4. \A i \in DOMAIN ir.resources : i \in FirstOf(ir.resources, r.name) => StaysIn(ir, ir.resources[i], h[i])
  BY <1>3, OnlyOneEdited
<1> HIDE DEF h
<1> QED
  BY <1>1, <1>4, EditKeeps

LEMMA RemoveRoleKeeps ==
  ASSUME NEW ir, ModelSound(ir), NEW type, NEW name
  PROVE  Keeps(ir, RemoveRole(ir, type, name))
<1> DEFINE f(r) == [r EXCEPT !.roles = Unnamed(@, name),
             !.permissions = Each(@, LAMBDA p : [p EXCEPT !.grantedByRoles = Without(@, name)])]
           h == [i \in DOMAIN ir.resources |-> f(ir.resources[i])]
<1>1. RemoveRole(ir, type, name) = EditedAt(ir, FirstOf(ir.resources, type), h)
  BY SoundResources DEF RemoveRole, OnResource, ChangeFirst, EditedAt, FirstOf, ModelIRs
<1>2. \A r \in ResourceTypes : SoundIn(ir, r) => StaysIn(ir, r, f(r))
  BY RemoveRoleStays DEF Each
<1> HIDE DEF f
<1>3. \A i \in DOMAIN ir.resources : StaysIn(ir, ir.resources[i], h[i])
  BY <1>2, SoundResources
<1> HIDE DEF h
<1> QED
  BY <1>1, <1>3, EditKeeps

LEMMA RenameRoleKeeps ==
  ASSUME NEW ir, ModelSound(ir), NEW type, NEW from, NEW to \in NewRoles
  PROVE  Keeps(ir, RenameRole(ir, type, from, to))
<1> DEFINE f(r) == RoleRenamed(r, from, to)
           h == [i \in DOMAIN ir.resources |-> f(ir.resources[i])]
<1>1. RenameRole(ir, type, from, to) = EditedAt(ir, FirstOf(ir.resources, type), h)
  BY SoundResources DEF RenameRole, RoleRenamed, OnResource, ChangeFirst, EditedAt, FirstOf, ModelIRs, Each
<1>2. to \in STRING
  BY EditorAssumption
<1>3. \A r \in ResourceTypes : SoundIn(ir, r) => StaysIn(ir, r, f(r))
  BY <1>2, RenameRoleStays
<1> HIDE DEF f
<1>4. \A i \in DOMAIN ir.resources : StaysIn(ir, ir.resources[i], h[i])
  BY <1>3, SoundResources
<1> HIDE DEF h
<1> QED
  BY <1>1, <1>4, EditKeeps

LEMMA SetRoleAssignableByKeeps ==
  ASSUME NEW ir, ModelSound(ir), NEW type, NEW role, NEW refs \in Seq(SubjectRefs),
         RefsKnown(NameSet(ir.groups), ToSet(ir.conditions), refs)
  PROVE  Keeps(ir, SetRoleAssignableBy(ir, type, role, refs))
<1> DEFINE f(r) == [r EXCEPT !.roles = ChangeFirst(@, role, LAMBDA x : [x EXCEPT !.assignableBy = refs])]
           h == [i \in DOMAIN ir.resources |-> f(ir.resources[i])]
<1>1. SetRoleAssignableBy(ir, type, role, refs) = EditedAt(ir, FirstOf(ir.resources, type), h)
  BY SoundResources DEF SetRoleAssignableBy, OnResource, ChangeFirst, EditedAt, FirstOf, ModelIRs
<1>2. \A r \in ResourceTypes : SoundIn(ir, r) => StaysIn(ir, r, f(r))
  BY SetRoleAssignableByStays
<1> HIDE DEF f
<1>3. \A i \in DOMAIN ir.resources : StaysIn(ir, ir.resources[i], h[i])
  BY <1>2, SoundResources
<1> HIDE DEF h
<1> QED
  BY <1>1, <1>3, EditKeeps

LEMMA SetAssignmentConditionKeeps ==
  ASSUME NEW ir, ModelSound(ir), NEW type, NEW role, NEW n, NEW condition \in {"none"} \cup ToSet(ir.conditions)
  PROVE  Keeps(ir, SetAssignmentCondition(ir, type, role, n, condition))
<1> DEFINE f(r) == Conditioned(r, role, n, condition)
           h == [i \in DOMAIN ir.resources |-> f(ir.resources[i])]
<1>1. SetAssignmentCondition(ir, type, role, n, condition) = EditedAt(ir, FirstOf(ir.resources, type), h)
  BY SoundResources DEF SetAssignmentCondition, Conditioned, OnResource, ChangeFirst, EditedAt, FirstOf, ModelIRs
<1>2. condition \in STRING
  <2>1. ToSet(ir.conditions) \subseteq STRING
    BY SoundResources, IrRecords DEF ToSet
  <2>2. "none" \in STRING
    BY EditorAssumption
  <2> QED
    BY <2>1, <2>2
<1>3. \A r \in ResourceTypes : SoundIn(ir, r) => StaysIn(ir, r, f(r))
  <2> SUFFICES ASSUME NEW r \in ResourceTypes, SoundIn(ir, r) PROVE StaysIn(ir, r, f(r))
    OBVIOUS
  <2>1. condition \in ({"none"} \cup ToSet(ir.conditions)) \cap STRING
    BY <1>2
  <2> QED
    BY <2>1, SetAssignmentConditionStays
<1> HIDE DEF f
<1>4. \A i \in DOMAIN ir.resources : StaysIn(ir, ir.resources[i], h[i])
  BY <1>3, SoundResources
<1> HIDE DEF h
<1> QED
  BY <1>1, <1>4, EditKeeps

-----------------------------------------------------------------------------
(* The canvas. *)
LEMMA NamedAppend ==
  ASSUME NEW X, NEW s \in Seq(X), NEW x \in X
  PROVE  /\ NameSet(Append(s, x)) = NameSet(s) \cup {x.name}
         /\ Distinct(Named(s)) /\ x.name \notin NameSet(s) => Distinct(Named(Append(s, x)))
<1> DEFINE t == Append(s, x)
<1>1. /\ t[Len(s) + 1] = x /\ \A i \in DOMAIN s : t[i] = s[i]
      /\ DOMAIN t = DOMAIN s \cup {Len(s) + 1} /\ Len(s) + 1 \notin DOMAIN s
  BY AppendedList
<1> HIDE DEF t
<1>2. NameSet(t) = NameSet(s) \cup {x.name}
  BY <1>1 DEF NameSet
<1>3. Distinct(Named(s)) /\ x.name \notin NameSet(s) => Distinct(Named(t))
  BY <1>1 DEF Distinct, Named, NameSet
<1> QED
  BY <1>2, <1>3 DEF t

(* More types there are, more a reference may be to. *)
LEMMA SoundWithMore ==
  ASSUME NEW G, NEW N, NEW C, NEW H, NEW M, NEW r, ResourceSound(G, N, C, r), G \subseteq H, N \subseteq M
  PROVE  ResourceSound(H, M, C, r)
BY DEF ResourceSound, ParentsSound, RefsKnown

LEMMA AddResourceKeeps ==
  ASSUME NEW ir, ModelSound(ir), NEW name \in NewTypes
  PROVE  Keeps(ir, AddResource(ir, name))
<1>1. CASE name \in NamesOfTypes(ir)
  BY <1>1 DEF AddResource, Keeps
<1>2. CASE name \notin NamesOfTypes(ir)
  <2> DEFINE new == [name |-> name, parents |-> <<>>, roles |-> <<>>, permissions |-> <<>>]
             rs == Append(ir.resources, new)
             x == [ir EXCEPT !.resources = rs]
             G == NameSet(ir.groups)
             N == NameSet(ir.resources)
             C == ToSet(ir.conditions)
  <2>1. new \in ResourceTypes /\ new.name = name
    <3>1. name \in STRING
      BY EditorAssumption
    <3>2. <<>> \in Seq(ParentRefs) /\ <<>> \in Seq(Roles) /\ <<>> \in Seq(Permissions)
      BY EmptySeq
    <3> QED
      BY <3>1, <3>2 DEF ResourceTypes
  <2>2. ResourceSound(G, N \cup {name}, C, new)
    <3>1. ToSet(<<>>) = {} /\ DOMAIN <<>> = {}
      BY DEF ToSet
    <3> QED
      BY <3>1 DEF ResourceSound, ParentsSound
  <2> HIDE DEF new
  <2>3. ir \in ModelIRs /\ ir.resources \in Seq(ResourceTypes)
    BY SoundResources, IrRecords
  <2>4. /\ rs \in Seq(ResourceTypes) /\ ToSet(rs) = ToSet(ir.resources) \cup {new}
        /\ NameSet(rs) = N \cup {name}
    BY <2>1, <2>3, AppendedList, NamedAppend
  <2>5. Distinct(Named(rs))
    BY <1>2, <2>1, <2>3, NamedAppend DEF ModelSound, TypesDistinct, NamesOfTypes
  <2> HIDE DEF rs
  <2>6. x \in ModelIRs /\ x.groups = ir.groups /\ x.resources = rs /\ x.conditions = ir.conditions
    BY <2>3, <2>4, IrFields
  <2> HIDE DEF x
  <2>7. TypesDistinct(x)
    BY <1>2, <2>4, <2>5, <2>6 DEF ModelSound, TypesDistinct, NamesOfTypes
  <2>8. \A r \in ToSet(rs) : ResourceSound(G, N \cup {name}, C, r)
    BY <2>2, <2>4, SoundWithMore DEF ModelSound
  <2>9. ModelSound(x)
    BY <2>4, <2>6, <2>7, <2>8 DEF ModelSound
  <2>10. Keeps(ir, x)
    BY <2>4, <2>6, <2>9 DEF Keeps
  <2> QED
    BY <1>2, <2>10 DEF AddResource, x, rs, new
<1> QED
  BY <1>1, <1>2

LEMMA AddGroupKeeps ==
  ASSUME NEW ir, ModelSound(ir), NEW name \in NewTypes
  PROVE  Keeps(ir, AddGroup(ir, name))
<1>1. CASE name \in NamesOfTypes(ir)
  BY <1>1 DEF AddGroup, Keeps
<1>2. CASE name \notin NamesOfTypes(ir)
  <2> DEFINE new == [name |-> name, memberTypes |-> <<AnyUser>>]
             gs == Append(ir.groups, new)
             x == [ir EXCEPT !.groups = gs]
             G == NameSet(ir.groups)
             N == NameSet(ir.resources)
             C == ToSet(ir.conditions)
  <2>1. new \in GroupTypes /\ new.name = name /\ \A H : RefsKnown(H, C, new.memberTypes)
    <3>1. name \in STRING
      BY EditorAssumption
    <3> QED
      BY <3>1, AnyoneIsKnown DEF GroupTypes
  <2> HIDE DEF new
  <2>2. ir \in ModelIRs /\ ir.groups \in Seq(GroupTypes)
    BY SoundResources, IrRecords
  <2>3. /\ gs \in Seq(GroupTypes) /\ ToSet(gs) = ToSet(ir.groups) \cup {new}
        /\ NameSet(gs) = G \cup {name}
    BY <2>1, <2>2, AppendedList, NamedAppend
  <2>4. Distinct(Named(gs))
    BY <1>2, <2>1, <2>2, NamedAppend DEF ModelSound, TypesDistinct, NamesOfTypes
  <2> HIDE DEF gs
  <2>5. x \in ModelIRs /\ x.groups = gs /\ x.resources = ir.resources /\ x.conditions = ir.conditions
    BY <2>2, <2>3, IrFields
  <2> HIDE DEF x
  <2>6. TypesDistinct(x)
    BY <1>2, <2>3, <2>4, <2>5 DEF ModelSound, TypesDistinct, NamesOfTypes
  <2>7. \A r \in ToSet(ir.resources) : ResourceSound(G \cup {name}, N, C, r)
    BY SoundWithMore DEF ModelSound
  <2>8. \A g \in ToSet(gs) : RefsKnown(G \cup {name}, C, g.memberTypes)
    BY <2>1, <2>3 DEF ModelSound, RefsKnown
  <2>9. ModelSound(x)
    BY <2>3, <2>5, <2>6, <2>7, <2>8 DEF ModelSound
  <2>10. Keeps(ir, x)
    BY <2>5, <2>9 DEF Keeps
  <2> QED
    BY <1>2, <2>10 DEF AddGroup, x, gs, new
<1> QED
  BY <1>1, <1>2

-----------------------------------------------------------------------------
(* Parents. *)
LEMMA ParentFields ==
  ASSUME NEW p \in ParentRefs
  PROVE  /\ p.relationName \in STRING /\ p.parentTypes \in Seq(STRING)
         /\ \A s \in Seq(STRING) : LET x == [p EXCEPT !.parentTypes = s] IN
              x \in ParentRefs /\ x.relationName = p.relationName /\ x.parentTypes = s
BY DEF ParentRefs

ParentSound(N, p) == Distinct(p.parentTypes) /\ p.parentTypes # <<>> /\ ToSet(p.parentTypes) \subseteq N

Connected(r, parent) ==
  IF \E p \in ToSet(r.parents) : p.relationName = "parent"
  THEN [r EXCEPT !.parents = Each(@, LAMBDA p :
         IF p.relationName = "parent" /\ parent \notin ToSet(p.parentTypes)
         THEN [p EXCEPT !.parentTypes = Append(@, parent)] ELSE p)]
  ELSE [r EXCEPT !.parents = Append(@, [relationName |-> "parent", parentTypes |-> <<parent>>])]

LEMMA ConnectedStays ==
  ASSUME NEW ir, NEW r \in ResourceTypes, SoundIn(ir, r), NEW parent \in NameSet(ir.resources), parent \in STRING
  PROVE  StaysIn(ir, r, Connected(r, parent))
<1> DEFINE N == NameSet(ir.resources)
           s == r.parents
<1>1. s \in Seq(ParentRefs) /\ \A i \in DOMAIN s : s[i] \in ParentRefs /\ s[i] \in ToSet(s)
  BY ResourceRecords DEF ToSet
<1>2. \A i \in DOMAIN s : ParentSound(N, s[i])
  BY <1>1 DEF SoundIn, ResourceSound, ParentsSound, ParentSound
<1>3. \A i, j \in DOMAIN s : s[i].relationName = s[j].relationName => i = j
  BY DEF SoundIn, ResourceSound, ParentsSound
<1>4. CASE \E p \in ToSet(s) : p.relationName = "parent"
  <2> DEFINE f(p) == IF p.relationName = "parent" /\ parent \notin ToSet(p.parentTypes)
                     THEN [p EXCEPT !.parentTypes = Append(@, parent)] ELSE p
             ps == [i \in DOMAIN s |-> f(s[i])]
  <2>1. ASSUME NEW p \in ParentRefs, ParentSound(N, p)
        PROVE  f(p) \in ParentRefs /\ f(p).relationName = p.relationName /\ ParentSound(N, f(p))
    <3>1. CASE p.relationName = "parent" /\ parent \notin ToSet(p.parentTypes)
      <4> DEFINE ts == Append(p.parentTypes, parent)
      <4>0. p.parentTypes \in Seq(STRING)
        BY ParentFields
      <4>1. ts \in Seq(STRING) /\ Distinct(ts) /\ ts # <<>> /\ ToSet(ts) \subseteq N
        BY <2>1, <3>1, <4>0, AppendedList DEF ParentSound
      <4> HIDE DEF ts
      <4> DEFINE x == [p EXCEPT !.parentTypes = ts]
      <4>2. x \in ParentRefs /\ x.relationName = p.relationName /\ x.parentTypes = ts
        BY <4>1, ParentFields
      <4> HIDE DEF x
      <4>3. ParentSound(N, x)
        BY <4>1, <4>2 DEF ParentSound
      <4>4. f(p) = x
        BY <3>1 DEF x, ts
      <4> QED
        BY <4>2, <4>3, <4>4
    <3>2. CASE ~(p.relationName = "parent" /\ parent \notin ToSet(p.parentTypes))
      BY <2>1, <3>2
    <3> QED
      BY <3>1, <3>2
  <2> HIDE DEF f
  <2>2. ps \in [DOMAIN s -> ParentRefs]
    BY <1>1, <1>2, <2>1
  <2>3. ps \in Seq(ParentRefs) /\ DOMAIN ps = DOMAIN s
    <3> HIDE DEF ps, s
    <3> QED
      BY ONLY <1>1, <2>2, FunctionOnList
  <2>4. \A i \in DOMAIN s : ps[i].relationName = s[i].relationName /\ ParentSound(N, ps[i])
    BY <1>1, <1>2, <2>1
  <2> HIDE DEF ps
  <2>5. ParentsSound(N, ps)
    BY <1>3, <2>3, <2>4 DEF ParentsSound, ParentSound, ToSet
  <2>6. \A p \in ToSet(s) : \E q \in ToSet(ps) : q.relationName = p.relationName
    BY <2>3, <2>4 DEF ToSet
  <2>7. StaysIn(ir, r, [r EXCEPT !.parents = ps])
    BY <2>3, <2>5, <2>6, ParentsChange DEF SoundIn, StaysIn
  <2> QED
    BY <1>4, <2>7 DEF Connected, ps, f, Each
<1>5. CASE ~\E p \in ToSet(s) : p.relationName = "parent"
  <2> DEFINE new == [relationName |-> "parent", parentTypes |-> <<parent>>]
             ps == Append(s, new)
  <2>1. new \in ParentRefs /\ new.relationName = "parent" /\ ParentSound(N, new)
    <3>0. "parent" \in STRING
      BY EditorAssumption
    <3>1. "parent" \in STRING /\ <<parent>> \in Seq(STRING)
      BY <3>0
    <3>2. Distinct(<<parent>>) /\ <<parent>> # <<>> /\ ToSet(<<parent>>) = {parent}
      BY DEF Distinct, ToSet
    <3> QED
      BY <3>1, <3>2 DEF ParentRefs, ParentSound
  <2> HIDE DEF new
  <2>2. /\ ps \in Seq(ParentRefs) /\ ToSet(ps) = ToSet(s) \cup {new}
        /\ ps[Len(s) + 1] = new /\ \A i \in DOMAIN s : ps[i] = s[i]
        /\ DOMAIN ps = DOMAIN s \cup {Len(s) + 1} /\ Len(s) + 1 \notin DOMAIN s
    BY <1>1, <2>1, AppendedList
  <2> HIDE DEF ps
  <2>3. ParentsSound(N, ps)
    <3>1. \A p \in ToSet(ps) : ParentSound(N, p)
      BY <1>2, <2>1, <2>2 DEF ToSet
    <3>2. \A i \in DOMAIN s : s[i].relationName # "parent"
      BY <1>1, <1>5
    <3>3. \A i, j \in DOMAIN ps : ps[i].relationName = ps[j].relationName => i = j
      BY <1>3, <2>1, <2>2, <3>2
    <3> QED
      BY <3>1, <3>3 DEF ParentsSound, ParentSound
  <2>4. \A p \in ToSet(s) : \E q \in ToSet(ps) : q.relationName = p.relationName
    BY <2>2
  <2>5. StaysIn(ir, r, [r EXCEPT !.parents = ps])
    BY <2>2, <2>3, <2>4, ParentsChange DEF SoundIn, StaysIn
  <2> QED
    BY <1>5, <2>5 DEF Connected, ps, new
<1> QED
  BY <1>4, <1>5

LEMMA ConnectParentKeeps ==
  ASSUME NEW ir, ModelSound(ir), NEW child, NEW parent
  PROVE  Keeps(ir, ConnectParent(ir, child, parent))
<1>1. CASE ~({child, parent} \subseteq NameSet(ir.resources))
  BY <1>1 DEF ConnectParent, Keeps
<1>2. CASE {child, parent} \subseteq NameSet(ir.resources)
  <2> DEFINE f(r) == Connected(r, parent)
             h == [i \in DOMAIN ir.resources |-> f(ir.resources[i])]
  <2>1. ConnectParent(ir, child, parent) = EditedAt(ir, FirstOf(ir.resources, child), h)
    BY <1>2, SoundResources DEF ConnectParent, Connected, OnResource, ChangeFirst, EditedAt, FirstOf, ModelIRs
  <2>2. parent \in STRING
    BY <1>2, SoundResources, ResourceRecords DEF NameSet
  <2>3. \A r \in ResourceTypes : SoundIn(ir, r) => StaysIn(ir, r, f(r))
    BY <1>2, <2>2, ConnectedStays
  <2> HIDE DEF f
  <2>4. \A i \in DOMAIN ir.resources : StaysIn(ir, ir.resources[i], h[i])
    BY <2>3, SoundResources
  <2> HIDE DEF h
  <2> QED
    BY <2>1, <2>4, EditKeeps
<1> QED
  BY <1>1, <1>2

-----------------------------------------------------------------------------
(* A type that is no longer a parent: of some relations, or of all. *)
LEMMA DisconnectedSound ==
  ASSUME NEW G, NEW N, NEW C, NEW r \in ResourceTypes, ResourceSound(G, N, C, r), NEW type, NEW relations
  PROVE  /\ Stays(G, N, C, r, Disconnected(r, type, relations))
         /\ RelationSet(r) \subseteq relations =>
              Stays(G, N \ {type}, C, r, Disconnected(r, type, relations))
<1> DEFINE s == r.parents
           f(p) == IF p.relationName \notin relations THEN p ELSE [p EXCEPT !.parentTypes = Without(@, type)]
           cut == [i \in DOMAIN s |-> f(s[i])]
           gone == {p.relationName : p \in {p \in ToSet(cut) : p.parentTypes = <<>>}}
           M == IF RelationSet(r) \subseteq relations THEN N \ {type} ELSE N
           ps == Kept(cut, LAMBDA p : p.parentTypes # <<>>)
           e(perm) == [perm EXCEPT !.inheritFromParents = Kept(@, LAMBDA rel : rel \notin gone)]
           qs == [i \in DOMAIN r.permissions |-> e(r.permissions[i])]
           x == [r EXCEPT !.parents = ps, !.permissions = qs]
<1>1. /\ s \in Seq(ParentRefs)
      /\ \A i \in DOMAIN s : /\ s[i] \in ParentRefs /\ s[i] \in ToSet(s) /\ ParentSound(N, s[i])
                             /\ s[i].relationName \in RelationSet(r)
  BY ResourceRecords DEF ToSet, ResourceSound, ParentsSound, ParentSound, RelationSet
<1>2. \A i, j \in DOMAIN s : s[i].relationName = s[j].relationName => i = j
  BY DEF ResourceSound, ParentsSound
<1>3. ASSUME NEW p \in ParentRefs, ParentSound(N, p), p.relationName \in RelationSet(r)
      PROVE  /\ f(p) \in ParentRefs /\ f(p).relationName = p.relationName
             /\ Distinct(f(p).parentTypes) /\ ToSet(f(p).parentTypes) \subseteq M
  <2>1. CASE p.relationName \notin relations
    BY <1>3, <2>1 DEF ParentSound
  <2>2. CASE p.relationName \in relations
    <3> DEFINE ts == Without(p.parentTypes, type)
               y == [p EXCEPT !.parentTypes = ts]
    <3>1. p.parentTypes \in Seq(STRING)
      BY ParentFields
    <3>2. /\ ts \in Seq(STRING) /\ (Distinct(p.parentTypes) => Distinct(ts))
          /\ ToSet(ts) = ToSet(p.parentTypes) \cap {z \in ToSet(p.parentTypes) : z # type}
      BY <3>1, ThoseStay DEF Without, Kept
    <3> HIDE DEF ts
    <3>3. y \in ParentRefs /\ y.relationName = p.relationName /\ y.parentTypes = ts
      BY <3>2, ParentFields
    <3>4. f(p) = y
      BY <2>2 DEF ts
    <3> HIDE DEF y, f
    <3>5. Distinct(ts) /\ ToSet(ts) \subseteq N \ {type}
      BY <1>3, <3>2 DEF ParentSound
    <3> QED
      BY <3>3, <3>4, <3>5
  <2> QED
    BY <2>1, <2>2
<1> HIDE DEF f
<1>4. /\ cut \in Seq(ParentRefs) /\ DOMAIN cut = DOMAIN s
      /\ \A i \in DOMAIN s : /\ cut[i].relationName = s[i].relationName
                             /\ Distinct(cut[i].parentTypes) /\ ToSet(cut[i].parentTypes) \subseteq M
  <2>1. cut \in [DOMAIN s -> ParentRefs]
    BY <1>1, <1>3
  <2>2. cut \in Seq(ParentRefs) /\ DOMAIN cut = DOMAIN s
    <3> HIDE DEF cut, s
    <3> QED
      BY ONLY <1>1, <2>1, FunctionOnList
  <2> HIDE DEF M
  <2> QED
    BY <1>1, <1>3, <2>2
<1> HIDE DEF cut, M
<1>5. /\ ps \in Seq(ParentRefs) /\ ToSet(ps) = ToSet(cut) \cap {p \in ToSet(cut) : p.parentTypes # <<>>}
      /\ \A i, j \in DOMAIN ps : ps[i].relationName = ps[j].relationName => i = j
  <2>1. \A i, j \in DOMAIN cut : cut[i].relationName = cut[j].relationName => i = j
    BY <1>2, <1>4
  <2> DEFINE T == {p \in ToSet(cut) : p.parentTypes # <<>>}
  <2>2. ps = Those(cut, T)
    BY DEF Kept
  <2> HIDE DEF T, ps
  <2>3. /\ Those(cut, T) \in Seq(ParentRefs) /\ ToSet(Those(cut, T)) = ToSet(cut) \cap T
        /\ \A i, j \in DOMAIN Those(cut, T) :
             Those(cut, T)[i].relationName = Those(cut, T)[j].relationName => i = j
    BY <1>4, <2>1, ThoseStay
  <2> QED
    BY <2>2, <2>3 DEF T
<1> HIDE DEF ps
<1>6. ParentsSound(M, ps) /\ ParentsSound(N, ps)
  <2>1. M \subseteq N
    BY DEF M
  <2>2. \A p \in ToSet(ps) : Distinct(p.parentTypes) /\ p.parentTypes # <<>> /\ ToSet(p.parentTypes) \subseteq M
    BY <1>4, <1>5 DEF ToSet
  <2> QED
    BY <1>5, <2>1, <2>2 DEF ParentsSound
<1>7. \A rel \in RelationSet(r) : rel \notin gone => \E p \in ToSet(ps) : p.relationName = rel
  <2> SUFFICES ASSUME NEW i \in DOMAIN s, s[i].relationName \notin gone
               PROVE  \E p \in ToSet(ps) : p.relationName = s[i].relationName
    BY DEF RelationSet, ToSet
  <2>1. cut[i] \in ToSet(cut) /\ cut[i].relationName = s[i].relationName
    BY <1>4 DEF ToSet
  <2>2. cut[i].parentTypes # <<>>
    BY <2>1
  <2> QED
    BY <1>5, <2>1, <2>2
<1> HIDE DEF gone
<1>8. ASSUME NEW p \in Permissions, PermissionSound(r, p)
      PROVE  /\ e(p) \in Permissions /\ ToSet(e(p).grantedByRoles) \subseteq NameSet(r.roles)
             /\ \A rel \in ToSet(e(p).inheritFromParents) : \E q \in ToSet(ps) : q.relationName = rel
  <2> DEFINE t == Kept(p.inheritFromParents, LAMBDA rel : rel \notin gone)
             y == [p EXCEPT !.inheritFromParents = t]
  <2>1. /\ t \in Seq(STRING)
        /\ ToSet(t) = ToSet(p.inheritFromParents) \cap {rel \in ToSet(p.inheritFromParents) : rel \notin gone}
    BY PermissionFields, ThoseStay DEF Kept
  <2>2. e(p) = y
    OBVIOUS
  <2> HIDE DEF t, e
  <2>3. y \in Permissions /\ y.grantedByRoles = p.grantedByRoles /\ y.inheritFromParents = t
    BY <2>1, PermissionFields
  <2> HIDE DEF y
  <2> QED
    BY <1>7, <1>8, <2>1, <2>2, <2>3 DEF PermissionSound
<1> HIDE DEF e
<1>9. /\ qs \in Seq(Permissions)
      /\ \A p \in ToSet(qs) : /\ ToSet(p.grantedByRoles) \subseteq NameSet(r.roles)
                              /\ \A rel \in ToSet(p.inheritFromParents) : \E q \in ToSet(ps) : q.relationName = rel
  <2> DEFINE Z == {p \in Permissions : /\ ToSet(p.grantedByRoles) \subseteq NameSet(r.roles)
                     /\ \A rel \in ToSet(p.inheritFromParents) : \E q \in ToSet(ps) : q.relationName = rel}
             u == r.permissions
  <2>1. u \in Seq(Permissions) /\ Z \in SUBSET Permissions
    BY ResourceRecords
  <2>2. \A i \in DOMAIN u : u[i] \in Permissions /\ PermissionSound(r, u[i])
    BY ResourceRecords DEF ResourceSound, ToSet
  <2>3. qs \in [DOMAIN u -> Z]
    BY <1>8, <2>2
  <2>4. qs \in Seq(Permissions) /\ ToSet(qs) \subseteq Z
    <3> HIDE DEF qs, Z, u
    <3> QED
      BY ONLY <2>1, <2>3, MappedList
  <2> QED
    BY <2>4
<1> HIDE DEF qs
<1>10. /\ x \in ResourceTypes /\ x.name = r.name /\ x.roles = r.roles
       /\ x.parents = ps /\ x.permissions = qs
  BY <1>5, <1>9 DEF ResourceTypes
<1>11. Disconnected(r, type, relations) = x
  BY DEF Disconnected, Each, x, ps, qs, e, gone, cut, f
<1> HIDE DEF x
<1>12. ResourceSound(G, M, C, x) /\ ResourceSound(G, N, C, x)
  <2>1. \A role \in ToSet(x.roles) : RefsKnown(G, C, role.assignableBy)
    BY <1>10 DEF ResourceSound
  <2>2. RelationSet(x) = {q.relationName : q \in ToSet(ps)}
    BY <1>10 DEF RelationSet
  <2>3. \A p \in ToSet(x.permissions) : PermissionSound(x, p)
    <3> SUFFICES ASSUME NEW p \in ToSet(qs) PROVE PermissionSound(x, p)
      BY <1>10
    <3>1. ToSet(p.inheritFromParents) \subseteq RelationSet(x)
      BY <1>9, <2>2
    <3> QED
      BY <1>9, <1>10, <3>1 DEF PermissionSound
  <2> QED
    BY <1>6, <1>10, <2>1, <2>3 DEF ResourceSound
<1>13. RelationSet(r) \subseteq relations => M = N \ {type}
  BY DEF M
<1> QED
  BY <1>10, <1>11, <1>12, <1>13 DEF Stays

LEMMA DisconnectParentKeeps ==
  ASSUME NEW ir, ModelSound(ir), NEW child, NEW relation, NEW parent
  PROVE  Keeps(ir, DisconnectParent(ir, child, relation, parent))
<1> DEFINE f(r) == Disconnected(r, parent, {relation})
           h == [i \in DOMAIN ir.resources |-> f(ir.resources[i])]
<1>1. DisconnectParent(ir, child, relation, parent) = EditedAt(ir, FirstOf(ir.resources, child), h)
  BY SoundResources DEF DisconnectParent, OnResource, ChangeFirst, EditedAt, FirstOf, ModelIRs
<1>2. \A r \in ResourceTypes : SoundIn(ir, r) => StaysIn(ir, r, f(r))
  <2> SUFFICES ASSUME NEW r \in ResourceTypes, SoundIn(ir, r) PROVE StaysIn(ir, r, f(r))
    OBVIOUS
  <2> DEFINE K == {relation}
  <2>1. ResourceSound(NameSet(ir.groups), NameSet(ir.resources), ToSet(ir.conditions), r)
    BY DEF SoundIn
  <2> HIDE DEF K
  <2>2. Stays(NameSet(ir.groups), NameSet(ir.resources), ToSet(ir.conditions), r, Disconnected(r, parent, K))
    BY <2>1, DisconnectedSound
  <2> QED
    BY <2>2 DEF K, StaysIn
<1> HIDE DEF f
<1>3. \A i \in DOMAIN ir.resources : StaysIn(ir, ir.resources[i], h[i])
  BY <1>2, SoundResources
<1> HIDE DEF h
<1> QED
  BY <1>1, <1>3, EditKeeps

-----------------------------------------------------------------------------
(* The references of a whole model, changed: h says into what. *)
RefsThrough(ir, h) ==
  [ir EXCEPT !.groups = [i \in DOMAIN ir.groups |-> [ir.groups[i] EXCEPT !.memberTypes = h[@]]],
             !.resources = [i \in DOMAIN ir.resources |-> [ir.resources[i] EXCEPT !.roles =
               [j \in DOMAIN ir.resources[i].roles |-> [ir.resources[i].roles[j] EXCEPT !.assignableBy = h[@]]]]]]

(* A model without orphans, if groups and conditions were those. *)
SoundBut(ir, G, C) ==
  /\ ir \in ModelIRs /\ TypesDistinct(ir) /\ Distinct(ir.conditions)
  /\ \A g \in ToSet(ir.groups) : RefsKnown(G, C, g.memberTypes)
  /\ \A r \in ToSet(ir.resources) : ResourceSound(G, NameSet(ir.resources), C, r)
Through(ir, G, C, h) ==
  /\ h \in [Seq(SubjectRefs) -> Seq(SubjectRefs)]
  /\ \A refs \in Seq(SubjectRefs) : RefsKnown(G, C, refs) =>
       RefsKnown(NameSet(ir.groups), ToSet(ir.conditions), h[refs])

LEMMA RefsThroughSound ==
  ASSUME NEW ir, NEW G, NEW C, NEW h, SoundBut(ir, G, C), Through(ir, G, C, h)
  PROVE  /\ ModelSound(RefsThrough(ir, h))
         /\ NameSet(RefsThrough(ir, h).resources) = NameSet(ir.resources)
<1> DEFINE H == NameSet(ir.groups)
           D == ToSet(ir.conditions)
           N == NameSet(ir.resources)
           eg(g) == [g EXCEPT !.memberTypes = h[@]]
           gs == [i \in DOMAIN ir.groups |-> eg(ir.groups[i])]
           er(r) == [r EXCEPT !.roles = [j \in DOMAIN r.roles |-> [r.roles[j] EXCEPT !.assignableBy = h[@]]]]
           rs == [i \in DOMAIN ir.resources |-> er(ir.resources[i])]
           x == [ir EXCEPT !.groups = gs, !.resources = rs]
<1>1. /\ ir \in ModelIRs /\ ir.groups \in Seq(GroupTypes) /\ ir.resources \in Seq(ResourceTypes)
      /\ \A i \in DOMAIN ir.groups : ir.groups[i] \in GroupTypes /\ RefsKnown(G, C, ir.groups[i].memberTypes)
      /\ \A i \in DOMAIN ir.resources : ir.resources[i] \in ResourceTypes /\ ResourceSound(G, N, C, ir.resources[i])
  BY IrRecords DEF SoundBut, ToSet
<1>2. \A refs \in Seq(SubjectRefs) : h[refs] \in Seq(SubjectRefs) /\ (RefsKnown(G, C, refs) => RefsKnown(H, D, h[refs]))
  BY DEF Through
<1>3. \A g \in GroupTypes : RefsKnown(G, C, g.memberTypes) =>
        eg(g) \in GroupTypes /\ eg(g).name = g.name /\ RefsKnown(H, D, eg(g).memberTypes)
  BY <1>2 DEF GroupTypes
<1>4. ASSUME NEW r \in ResourceTypes, ResourceSound(G, N, C, r)
      PROVE  Stays(H, N, D, r, er(r))
  <2> DEFINE s == r.roles
             f(role) == [role EXCEPT !.assignableBy = h[@]]
             t == [j \in DOMAIN s |-> f(s[j])]
             y == [r EXCEPT !.roles = t]
  <2>1. s \in Seq(Roles) /\ \A j \in DOMAIN s : s[j] \in Roles /\ RefsKnown(G, C, s[j].assignableBy)
    BY <1>4, ResourceRecords DEF ResourceSound, ToSet
  <2>2. \A role \in Roles : RefsKnown(G, C, role.assignableBy) =>
          f(role) \in Roles /\ f(role).name = role.name /\ RefsKnown(H, D, f(role).assignableBy)
    BY <1>2 DEF Roles
  <2>3. er(r) = y
    OBVIOUS
  <2> HIDE DEF f, er
  <2>4. /\ t \in [DOMAIN s -> Roles]
        /\ \A j \in DOMAIN s : t[j].name = s[j].name /\ RefsKnown(H, D, t[j].assignableBy)
    BY <2>1, <2>2
  <2>5. t \in Seq(Roles) /\ DOMAIN t = DOMAIN s
    <3> HIDE DEF t, s
    <3> QED
      BY ONLY <2>1, <2>4, FunctionOnList
  <2> HIDE DEF t
  <2>6. NameSet(t) = NameSet(s) /\ \A role \in ToSet(t) : RefsKnown(H, D, role.assignableBy)
    BY <2>4, <2>5 DEF NameSet, ToSet
  <2>7. /\ y \in ResourceTypes /\ y.name = r.name /\ y.roles = t
        /\ y.parents = r.parents /\ y.permissions = r.permissions
    BY <2>5, ResourceFields
  <2> HIDE DEF y
  <2>8. ResourceSound(H, N, D, y)
    BY <1>4, <2>6, <2>7 DEF ResourceSound, PermissionSound, RelationSet
  <2> QED
    BY <2>3, <2>7, <2>8 DEF Stays
<1> HIDE DEF eg, er
<1>5. /\ gs \in [DOMAIN ir.groups -> GroupTypes]
      /\ \A i \in DOMAIN ir.groups : gs[i].name = ir.groups[i].name /\ RefsKnown(H, D, gs[i].memberTypes)
  BY <1>1, <1>3
<1>6. /\ rs \in [DOMAIN ir.resources -> ResourceTypes]
      /\ \A i \in DOMAIN ir.resources : rs[i].name = ir.resources[i].name /\ ResourceSound(H, N, D, rs[i])
  BY <1>1, <1>4 DEF Stays
<1>7. gs \in Seq(GroupTypes) /\ DOMAIN gs = DOMAIN ir.groups
  <2> DEFINE s == ir.groups
  <2>1. s \in Seq(GroupTypes) /\ gs \in [DOMAIN s -> GroupTypes]
    BY <1>1, <1>5
  <2> HIDE DEF s, gs
  <2>2. gs \in Seq(GroupTypes) /\ DOMAIN gs = DOMAIN s
    BY ONLY <2>1, FunctionOnList
  <2> QED
    BY <2>2 DEF s
<1>8. rs \in Seq(ResourceTypes) /\ DOMAIN rs = DOMAIN ir.resources
  <2> DEFINE s == ir.resources
  <2>1. s \in Seq(ResourceTypes) /\ rs \in [DOMAIN s -> ResourceTypes]
    BY <1>1, <1>6
  <2> HIDE DEF s, rs
  <2>2. rs \in Seq(ResourceTypes) /\ DOMAIN rs = DOMAIN s
    BY ONLY <2>1, FunctionOnList
  <2> QED
    BY <2>2 DEF s
<1>9. RefsThrough(ir, h) = x
  BY DEF RefsThrough, gs, rs, eg, er
<1> HIDE DEF gs, rs
<1>10. x \in ModelIRs /\ x.groups = gs /\ x.resources = rs /\ x.conditions = ir.conditions
  BY <1>1, <1>7, <1>8 DEF ModelIRs
<1> HIDE DEF x
<1>11. /\ Named(gs) = Named(ir.groups) /\ NameSet(gs) = H
       /\ Named(rs) = Named(ir.resources) /\ NameSet(rs) = N
  BY <1>5, <1>6, <1>7, <1>8 DEF Named, NameSet
<1>12. TypesDistinct(x)
  BY <1>10, <1>11 DEF SoundBut, TypesDistinct
<1>13. /\ \A g \in ToSet(gs) : RefsKnown(H, D, g.memberTypes)
       /\ \A r \in ToSet(rs) : ResourceSound(H, N, D, r)
  BY <1>5, <1>6, <1>7, <1>8 DEF ToSet
<1>14. ModelSound(x)
  BY <1>10, <1>11, <1>12, <1>13 DEF SoundBut, ModelSound
<1> QED
  BY <1>9, <1>10, <1>11, <1>14

-----------------------------------------------------------------------------
(* A type that is deleted, with every reference to it. *)
RefsGone(name) ==
  [refs \in Seq(SubjectRefs) |-> Kept(refs, LAMBDA ref : ~(ref.kind = "group" /\ ref.group = name))]

LEMMA RefsGoneThrough ==
  ASSUME NEW ir, NEW G, NEW name, G \ {name} \subseteq NameSet(ir.groups)
  PROVE  Through(ir, G, ToSet(ir.conditions), RefsGone(name))
<1> SUFFICES ASSUME NEW refs \in Seq(SubjectRefs)
             PROVE  /\ RefsGone(name)[refs] \in Seq(SubjectRefs)
                    /\ RefsKnown(G, ToSet(ir.conditions), refs) =>
                         RefsKnown(NameSet(ir.groups), ToSet(ir.conditions), RefsGone(name)[refs])
  BY DEF Through, RefsGone
<1> DEFINE t == RefsGone(name)[refs]
           T == {ref \in ToSet(refs) : ~(ref.kind = "group" /\ ref.group = name)}
<1>1. t = Those(refs, T)
  BY DEF RefsGone, Kept
<1>2. Those(refs, T) \in Seq(SubjectRefs) /\ ToSet(Those(refs, T)) = ToSet(refs) \cap T
  <2> HIDE DEF T
  <2> QED
    BY ThoseStay
<1> HIDE DEF t
<1>3. t \in Seq(SubjectRefs) /\ ToSet(t) = ToSet(refs) \cap T
  BY <1>1, <1>2
<1>4. RefsKnown(G, ToSet(ir.conditions), refs) => RefsKnown(NameSet(ir.groups), ToSet(ir.conditions), t)
  BY <1>3 DEF RefsKnown
<1> QED
  BY <1>3, <1>4 DEF t

LEMMA RemoveTypeSound ==
  ASSUME NEW ir, ModelSound(ir), NEW name
  PROVE  /\ ModelSound(RemoveType(ir, name))
         /\ NameSet(RemoveType(ir, name).resources) = NameSet(ir.resources) \ {name}
<1> DEFINE G == NameSet(ir.groups)
           N == NameSet(ir.resources)
           C == ToSet(ir.conditions)
           gs == Unnamed(ir.groups, name)
           us == Unnamed(ir.resources, name)
           f(r) == Disconnected(r, name, {p.relationName : p \in ToSet(r.parents)})
           rs == [i \in DOMAIN us |-> f(us[i])]
           left == [ir EXCEPT !.groups = gs, !.resources = rs]
<1>1. ir \in ModelIRs /\ ir.groups \in Seq(GroupTypes) /\ ir.resources \in Seq(ResourceTypes)
  BY SoundResources, IrRecords
<1>2. /\ gs \in Seq(GroupTypes) /\ ToSet(gs) = {g \in ToSet(ir.groups) : g.name # name}
      /\ Distinct(Named(gs))
  <2>1. /\ gs \in Seq(GroupTypes) /\ ToSet(gs) = ToSet(ir.groups) \cap {g \in ToSet(ir.groups) : g.name # name}
        /\ Distinct(Named(ir.groups)) => Distinct(Named(gs))
    BY <1>1, ThoseStay DEF Unnamed, Kept
  <2> QED
    BY <2>1 DEF ModelSound, TypesDistinct
<1>3. /\ us \in Seq(ResourceTypes) /\ ToSet(us) = {r \in ToSet(ir.resources) : r.name # name}
      /\ Distinct(Named(us))
  <2>1. /\ us \in Seq(ResourceTypes)
        /\ ToSet(us) = ToSet(ir.resources) \cap {r \in ToSet(ir.resources) : r.name # name}
        /\ Distinct(Named(ir.resources)) => Distinct(Named(us))
    BY <1>1, ThoseStay DEF Unnamed, Kept
  <2> QED
    BY <2>1 DEF ModelSound, TypesDistinct
<1>4. NameSet(gs) = G \ {name} /\ NameSet(us) = N \ {name}
  BY <1>2, <1>3, NamesOfItems
<1> HIDE DEF gs, us
<1>5. ASSUME NEW r \in ResourceTypes, ResourceSound(G, N, C, r) PROVE Stays(G, N \ {name}, C, r, f(r))
  <2> DEFINE relations == {p.relationName : p \in ToSet(r.parents)}
  <2>1. RelationSet(r) \subseteq relations
    BY DEF RelationSet
  <2> HIDE DEF relations
  <2>2. Stays(G, N \ {name}, C, r, Disconnected(r, name, relations))
    BY <1>5, <2>1, DisconnectedSound
  <2> QED
    BY <2>2 DEF relations
<1> HIDE DEF f
<1>6. \A i \in DOMAIN us : Stays(G, N \ {name}, C, us[i], rs[i])
  <2>1. \A i \in DOMAIN us : us[i] \in ToSet(us) /\ us[i] \in ResourceTypes
    BY <1>3 DEF ToSet
  <2>2. \A i \in DOMAIN us : ResourceSound(G, N, C, us[i])
    BY <1>3, <2>1 DEF ModelSound
  <2> QED
    BY <1>5, <2>1, <2>2
<1>7. rs \in Seq(ResourceTypes) /\ DOMAIN rs = DOMAIN us
  <2>1. rs \in [DOMAIN us -> ResourceTypes]
    BY <1>6 DEF Stays
  <2> HIDE DEF rs
  <2> QED
    BY ONLY <1>3, <2>1, FunctionOnList
<1> HIDE DEF rs
<1>8. Named(rs) = Named(us) /\ NameSet(rs) = N \ {name}
  BY <1>4, <1>6, <1>7 DEF Named, NameSet, Stays
<1>9. left \in ModelIRs /\ left.groups = gs /\ left.resources = rs /\ left.conditions = ir.conditions
  BY <1>1, <1>2, <1>7 DEF ModelIRs
<1>10. RemoveType(ir, name) = RefsThrough(left, RefsGone(name))
  <2>1. RemoveType(ir, name) = OnRefs(left, LAMBDA refs : Kept(refs, LAMBDA ref : ~(ref.kind = "group" /\ ref.group = name)))
    BY <1>1 DEF RemoveType, left, rs, f, us, gs, Each, ModelIRs
  <2> HIDE DEF left
  <2>2. /\ \A i \in DOMAIN left.groups : left.groups[i].memberTypes \in Seq(SubjectRefs)
        /\ \A i \in DOMAIN left.resources : \A j \in DOMAIN left.resources[i].roles :
             left.resources[i].roles[j].assignableBy \in Seq(SubjectRefs)
    <3>1. \A i \in DOMAIN left.groups : left.groups[i] \in GroupTypes
      BY <1>2, <1>9
    <3>2. \A i \in DOMAIN left.resources : left.resources[i] \in ResourceTypes
      BY <1>7, <1>9
    <3>3. \A r \in ResourceTypes : \A j \in DOMAIN r.roles : r.roles[j] \in Roles
      BY ResourceRecords
    <3> QED
      BY <3>1, <3>2, <3>3 DEF GroupTypes, Roles
  <2> QED
    BY <1>9, <2>1, <2>2 DEF OnRefs, Each, RefsThrough, RefsGone
<1> HIDE DEF left
<1>11. TypesDistinct(left)
  BY <1>2, <1>3, <1>4, <1>8, <1>9 DEF ModelSound, TypesDistinct
<1>12. SoundBut(left, G, C)
  <2>1. \A g \in ToSet(gs) : RefsKnown(G, C, g.memberTypes)
    BY <1>2 DEF ModelSound
  <2>2. \A r \in ToSet(rs) : ResourceSound(G, N \ {name}, C, r)
    BY <1>6, <1>7 DEF ToSet, Stays
  <2> QED
    BY <1>8, <1>9, <1>11, <2>1, <2>2 DEF SoundBut, ModelSound
<1>13. Through(left, G, C, RefsGone(name))
  BY <1>4, <1>9, RefsGoneThrough
<1> QED
  BY <1>8, <1>9, <1>10, <1>12, <1>13, RefsThroughSound

-----------------------------------------------------------------------------
(* Conditions, and the references to them. *)
RefsOver(from, to) == [refs \in Seq(SubjectRefs) |->
  [i \in DOMAIN refs |-> IF refs[i].condition = from THEN [refs[i] EXCEPT !.condition = to] ELSE refs[i]]]

LEMMA RefsOverThrough ==
  ASSUME NEW ir, NEW C, NEW from, NEW to \in STRING, to \in {"none"} \cup ToSet(ir.conditions),
         C \ {from} \subseteq ToSet(ir.conditions)
  PROVE  Through(ir, NameSet(ir.groups), C, RefsOver(from, to))
<1> DEFINE G == NameSet(ir.groups)
           D == ToSet(ir.conditions)
<1> SUFFICES ASSUME NEW refs \in Seq(SubjectRefs)
             PROVE  /\ RefsOver(from, to)[refs] \in Seq(SubjectRefs)
                    /\ RefsKnown(G, C, refs) => RefsKnown(G, D, RefsOver(from, to)[refs])
  BY DEF Through, RefsOver
<1> DEFINE f(ref) == IF ref.condition = from THEN [ref EXCEPT !.condition = to] ELSE ref
           t == [i \in DOMAIN refs |-> f(refs[i])]
<1>1. \A ref \in SubjectRefs : /\ f(ref) \in SubjectRefs /\ f(ref).kind = ref.kind /\ f(ref).group = ref.group
                               /\ f(ref).condition = IF ref.condition = from THEN to ELSE ref.condition
  BY DEF SubjectRefs
<1>2. RefsOver(from, to)[refs] = t
  BY DEF RefsOver
<1> HIDE DEF f
<1>3. t \in [DOMAIN refs -> SubjectRefs] /\ \A i \in DOMAIN refs : t[i] = f(refs[i]) /\ refs[i] \in SubjectRefs
  BY <1>1
<1>4. t \in Seq(SubjectRefs) /\ DOMAIN t = DOMAIN refs
  <2> HIDE DEF t
  <2> QED
    BY ONLY <1>3, FunctionOnList
<1> HIDE DEF t
<1>5. ASSUME RefsKnown(G, C, refs) PROVE RefsKnown(G, D, t)
  <2> SUFFICES ASSUME NEW i \in DOMAIN refs
               PROVE  (t[i].kind = "group" => t[i].group \in G) /\ t[i].condition \in {"none"} \cup D
    BY <1>4 DEF RefsKnown, ToSet
  <2>1. /\ refs[i].kind = "group" => refs[i].group \in G
        /\ refs[i].condition \in {"none"} \cup C
    BY <1>5 DEF RefsKnown, ToSet
  <2> QED
    BY <1>1, <1>3, <2>1
<1> QED
  BY <1>2, <1>4, <1>5

LEMMA ReconditionedKeeps ==
  ASSUME NEW ir, ModelSound(ir), NEW cs \in Seq(STRING), Distinct(cs), NEW from, NEW to \in STRING,
         to \in {"none"} \cup ToSet(cs), ToSet(ir.conditions) \ {from} \subseteq ToSet(cs)
  PROVE  Keeps(ir, Reconditioned([ir EXCEPT !.conditions = cs], from, to))
<1> DEFINE x == [ir EXCEPT !.conditions = cs]
           C == ToSet(ir.conditions)
<1>1. ir \in ModelIRs
  BY SoundResources
<1>2. x \in ModelIRs /\ x.groups = ir.groups /\ x.resources = ir.resources /\ x.conditions = cs
  BY <1>1 DEF ModelIRs
<1> HIDE DEF x
<1>3. SoundBut(x, NameSet(x.groups), C)
  BY <1>2 DEF SoundBut, ModelSound, TypesDistinct
<1>4. Through(x, NameSet(x.groups), C, RefsOver(from, to))
  BY <1>2, RefsOverThrough
<1>5. Reconditioned(x, from, to) = RefsThrough(x, RefsOver(from, to))
  <2>1. /\ \A i \in DOMAIN x.groups : x.groups[i].memberTypes \in Seq(SubjectRefs)
        /\ \A i \in DOMAIN x.resources : \A j \in DOMAIN x.resources[i].roles :
             x.resources[i].roles[j].assignableBy \in Seq(SubjectRefs)
    <3>1. \A i \in DOMAIN x.groups : x.groups[i] \in GroupTypes
      BY <1>2, IrRecords
    <3>2. \A i \in DOMAIN x.resources : x.resources[i] \in ResourceTypes
      BY <1>2, IrRecords
    <3>3. \A r \in ResourceTypes : \A j \in DOMAIN r.roles : r.roles[j] \in Roles
      BY ResourceRecords
    <3> QED
      BY <3>1, <3>2, <3>3 DEF GroupTypes, Roles
  <2> QED
    BY <1>2, <2>1 DEF Reconditioned, OnRefs, Each, RefsThrough, RefsOver
<1>6. ModelSound(RefsThrough(x, RefsOver(from, to))) /\ NameSet(RefsThrough(x, RefsOver(from, to)).resources) = NameSet(x.resources)
  BY <1>3, <1>4, RefsThroughSound
<1>7. Keeps(ir, Reconditioned(x, from, to))
  BY <1>2, <1>5, <1>6 DEF Keeps
<1> QED
  BY <1>7 DEF x

-----------------------------------------------------------------------------
(* Conditions. *)
LEMMA AddConditionKeeps ==
  ASSUME NEW ir, ModelSound(ir), NEW name \in NewConditions
  PROVE  Keeps(ir, AddCondition(ir, name))
<1>1. CASE name \in ToSet(ir.conditions)
  BY <1>1 DEF AddCondition, Keeps
<1>2. CASE name \notin ToSet(ir.conditions)
  <2> DEFINE cs == Append(ir.conditions, name)
             x == [ir EXCEPT !.conditions = cs]
             G == NameSet(ir.groups)
             N == NameSet(ir.resources)
             C == ToSet(ir.conditions)
  <2>1. ir \in ModelIRs /\ ir.conditions \in Seq(STRING) /\ name \in STRING
    BY SoundResources, IrRecords, EditorAssumption
  <2>2. cs \in Seq(STRING) /\ ToSet(cs) = C \cup {name} /\ Distinct(cs)
    BY <1>2, <2>1, AppendedList DEF ModelSound
  <2> HIDE DEF cs
  <2>3. x \in ModelIRs /\ x.groups = ir.groups /\ x.resources = ir.resources /\ x.conditions = cs
    BY <2>1, <2>2 DEF ModelIRs
  <2> HIDE DEF x
  <2>4. \A refs : RefsKnown(G, C, refs) => RefsKnown(G, ToSet(cs), refs)
    BY <2>2 DEF RefsKnown
  <2>5. \A r \in ToSet(ir.resources) : ResourceSound(G, N, ToSet(cs), r)
    BY <2>4 DEF ModelSound, ResourceSound
  <2>6. \A g \in ToSet(ir.groups) : RefsKnown(G, ToSet(cs), g.memberTypes)
    BY <2>4 DEF ModelSound
  <2>7. ModelSound(x)
    BY <2>2, <2>3, <2>5, <2>6 DEF ModelSound, TypesDistinct
  <2>8. Keeps(ir, x)
    BY <2>3, <2>7 DEF Keeps
  <2> QED
    BY <1>2, <2>8 DEF AddCondition, x, cs
<1> QED
  BY <1>1, <1>2

LEMMA RenameConditionKeeps ==
  ASSUME NEW ir, ModelSound(ir), NEW from \in ToSet(ir.conditions), NEW to \in NewConditions
  PROVE  Keeps(ir, RenameCondition(ir, from, to))
<1>1. CASE to \in ToSet(ir.conditions)
  BY <1>1 DEF RenameCondition, Keeps
<1>2. CASE to \notin ToSet(ir.conditions)
  <2> DEFINE s == ir.conditions
             f(c) == IF c = from THEN to ELSE c
             cs == [i \in DOMAIN s |-> f(s[i])]
  <2>1. s \in Seq(STRING) /\ to \in STRING /\ Distinct(s)
    BY SoundResources, IrRecords, EditorAssumption DEF ModelSound
  <2>2. cs \in [DOMAIN s -> STRING]
    BY <2>1
  <2>3. cs \in Seq(STRING) /\ DOMAIN cs = DOMAIN s
    <3> HIDE DEF cs, s
    <3> QED
      BY ONLY <2>1, <2>2, FunctionOnList
  <2>4. Distinct(cs)
    BY <1>2, <2>1 DEF Distinct, ToSet
  <2>5. to \in ToSet(cs) /\ ToSet(s) \ {from} \subseteq ToSet(cs)
    BY DEF ToSet
  <2>6. RenameCondition(ir, from, to) = Reconditioned([ir EXCEPT !.conditions = cs], from, to)
    <3>1. [ir EXCEPT !.conditions = Each(@, LAMBDA c : IF c = from THEN to ELSE c)] = [ir EXCEPT !.conditions = cs]
      BY DEF Each
    <3> QED
      BY <1>2, <3>1 DEF RenameCondition
  <2> HIDE DEF cs
  <2>7. Keeps(ir, Reconditioned([ir EXCEPT !.conditions = cs], from, to))
    BY <2>1, <2>3, <2>4, <2>5, ReconditionedKeeps
  <2> QED
    BY <2>6, <2>7
<1> QED
  BY <1>1, <1>2

LEMMA RemoveConditionKeeps ==
  ASSUME NEW ir, ModelSound(ir), NEW name
  PROVE  Keeps(ir, RemoveCondition(ir, name))
<1> DEFINE s == ir.conditions
           cs == Without(s, name)
<1>1. s \in Seq(STRING) /\ Distinct(s)
  BY SoundResources, IrRecords DEF ModelSound
<1>2. cs \in Seq(STRING) /\ ToSet(cs) = ToSet(s) \cap {c \in ToSet(s) : c # name} /\ Distinct(cs)
  <2> HIDE DEF s
  <2> QED
    BY <1>1, ThoseStay DEF Without, Kept
<1>3. RemoveCondition(ir, name) = Reconditioned([ir EXCEPT !.conditions = cs], name, "none")
  BY DEF RemoveCondition
<1> HIDE DEF cs
<1>4. ToSet(s) \ {name} \subseteq ToSet(cs)
  BY <1>2
<1>5. "none" \in STRING
  BY EditorAssumption
<1>6. Keeps(ir, Reconditioned([ir EXCEPT !.conditions = cs], name, "none"))
  <2> DEFINE n == "none"
  <2>1. n \in STRING /\ n \in {"none"} \cup ToSet(cs)
    BY <1>5
  <2> HIDE DEF n
  <2>2. Keeps(ir, Reconditioned([ir EXCEPT !.conditions = cs], name, n))
    BY <1>2, <1>4, <2>1, ReconditionedKeeps
  <2> QED
    BY <2>2 DEF n
<1> QED
  BY <1>3, <1>6

-----------------------------------------------------------------------------
(* The boxes of a role's subjects. *)
LEMMA BuiltRefs ==
  ASSUME NEW G, NEW C, NEW hasUser, NEW groups \in Seq(STRING), ToSet(groups) \subseteq G
  PROVE  BuildRefs(hasUser, groups) \in Seq(SubjectRefs) /\ RefsKnown(G, C, BuildRefs(hasUser, groups))
<1> DEFINE u == IF hasUser THEN <<AnyUser>> ELSE <<>>
           m == [i \in DOMAIN groups |-> GroupMember(groups[i])]
<1>1. u \in Seq(SubjectRefs) /\ RefsKnown(G, C, u)
  <2>1. <<>> \in Seq(SubjectRefs) /\ RefsKnown(G, C, <<>>)
    <3>1. ToSet(<<>>) = {}
      BY DEF ToSet
    <3> QED
      BY <3>1, EmptySeq DEF RefsKnown
  <2> QED
    BY <2>1, AnyoneIsKnown
<1>2. \A g \in STRING : GroupMember(g) \in SubjectRefs /\ GroupMember(g).group = g /\ GroupMember(g).condition = "none"
  <2>1. "none" \in STRING
    BY EditorAssumption
  <2> QED
    BY <2>1 DEF GroupMember, SubjectRefs
<1>3. m \in [DOMAIN groups -> SubjectRefs]
  <2>1. \A i \in DOMAIN groups : groups[i] \in STRING
    OBVIOUS
  <2>2. \A i \in DOMAIN groups : GroupMember(groups[i]) \in SubjectRefs
    BY ONLY <1>2, <2>1
  <2> QED
    BY <2>2
<1>4. m \in Seq(SubjectRefs) /\ DOMAIN m = DOMAIN groups
  <2> HIDE DEF m
  <2> QED
    BY ONLY <1>3, FunctionOnList
<1>5. RefsKnown(G, C, m)
  <2>1. \A i \in DOMAIN groups : groups[i] \in STRING /\ groups[i] \in G
    BY DEF ToSet
  <2>2. \A i \in DOMAIN groups : m[i].group \in G /\ m[i].condition = "none"
    BY <1>2, <2>1
  <2> HIDE DEF m
  <2> QED
    BY <1>4, <2>2 DEF RefsKnown, ToSet
<1>6. BuildRefs(hasUser, groups) = u \o m
  BY DEF BuildRefs, Each
<1> HIDE DEF u, m
<1>7. u \o m \in Seq(SubjectRefs) /\ ToSet(u \o m) = ToSet(u) \cup ToSet(m)
  BY <1>1, <1>4, ConcatSet
<1>8. RefsKnown(G, C, u \o m)
  BY <1>1, <1>5, <1>7 DEF RefsKnown
<1> QED
  BY <1>6, <1>7, <1>8

LEMMA SubjectsKeep ==
  ASSUME NEW ir, ModelSound(ir), NEW r \in ToSet(ir.resources), NEW role \in ToSet(r.roles),
         EditSubjects(ir, r.name, role)
  PROVE  \E x : Apply(x) /\ Keeps(ir, x)
<1> DEFINE G == NameSet(ir.groups)
           C == ToSet(ir.conditions)
           kept == Kept(role.assignableBy, LAMBDA ref : ref.kind = "group")
           groups == Each(kept, LAMBDA ref : ref.group)
           hasUser == \E ref \in ToSet(role.assignableBy) : ref.kind = "user"
<1>1. /\ role \in Roles /\ role.assignableBy \in Seq(SubjectRefs) /\ RefsKnown(G, C, role.assignableBy)
  <2>1. r \in ResourceTypes /\ SoundIn(ir, r)
    BY SoundResources DEF ToSet
  <2>2. role \in Roles
    BY <2>1, ResourceRecords
  <2> QED
    BY <2>1, <2>2, RoleFields DEF SoundIn, ResourceSound
<1>2. kept \in Seq(SubjectRefs) /\ ToSet(kept) = {ref \in ToSet(role.assignableBy) : ref.kind = "group"}
  <2> DEFINE s == role.assignableBy
             T == {ref \in ToSet(s) : ref.kind = "group"}
  <2>1. kept = Those(s, T) /\ s \in Seq(SubjectRefs)
    BY <1>1 DEF Kept
  <2> HIDE DEF s, T, kept
  <2>2. kept \in Seq(SubjectRefs) /\ ToSet(kept) = ToSet(s) \cap T
    BY <2>1, ThoseStay
  <2> QED
    BY <2>2 DEF s, T
<1> HIDE DEF kept
<1>3. groups \in Seq(STRING) /\ ToSet(groups) \subseteq G
  <2>0. groups = [i \in DOMAIN kept |-> kept[i].group]
    BY DEF Each
  <2> HIDE DEF groups
  <2>1. \A i \in DOMAIN kept : kept[i] \in SubjectRefs /\ kept[i] \in ToSet(kept)
    BY <1>2 DEF ToSet
  <2>2. \A i \in DOMAIN kept : kept[i].group \in STRING \cap G
    BY <1>1, <1>2, <2>1 DEF RefsKnown, SubjectRefs
  <2>3. groups \in [DOMAIN kept -> STRING \cap G]
    BY <2>0, <2>2
  <2>4. groups \in Seq(STRING) /\ ToSet(groups) \subseteq STRING \cap G
    <3> DEFINE Z == STRING \cap G
               Y == STRING
    <3>1. groups \in [DOMAIN kept -> Z] /\ Z \in SUBSET Y
      BY <2>3
    <3> HIDE DEF Z, Y
    <3>2. groups \in Seq(Y) /\ ToSet(groups) \subseteq Z
      BY ONLY <1>2, <3>1, MappedList
    <3> QED
      BY <3>2 DEF Z, Y
  <2> QED
    BY <2>4
<1>4. \/ Apply(SetRoleAssignableBy(ir, r.name, role.name, BuildRefs(~hasUser, groups)))
      \/ \E g \in G : Apply(SetRoleAssignableBy(ir, r.name, role.name, BuildRefs(hasUser, Toggle(groups, g))))
  BY DEF EditSubjects, kept
<1> HIDE DEF hasUser, groups
<1>5. ASSUME NEW b, NEW gs \in Seq(STRING), ToSet(gs) \subseteq G
      PROVE  Keeps(ir, SetRoleAssignableBy(ir, r.name, role.name, BuildRefs(b, gs)))
  <2> DEFINE refs == BuildRefs(b, gs)
  <2>1. refs \in Seq(SubjectRefs) /\ RefsKnown(G, C, refs)
    BY <1>5, BuiltRefs
  <2> HIDE DEF refs
  <2>2. Keeps(ir, SetRoleAssignableBy(ir, r.name, role.name, refs))
    BY <2>1, SetRoleAssignableByKeeps
  <2> QED
    BY <2>2 DEF refs
<1>6. CASE Apply(SetRoleAssignableBy(ir, r.name, role.name, BuildRefs(~hasUser, groups)))
  BY <1>3, <1>5, <1>6
<1>7. ASSUME NEW g \in G, Apply(SetRoleAssignableBy(ir, r.name, role.name, BuildRefs(hasUser, Toggle(groups, g))))
      PROVE  \E x : Apply(x) /\ Keeps(ir, x)
  <2>1. g \in STRING
    BY SoundResources, IrRecords, AllNamed DEF NameSet
  <2>2. Toggle(groups, g) \in Seq(STRING) /\ ToSet(Toggle(groups, g)) \subseteq G
    BY <1>3, <2>1, Toggled
  <2> QED
    BY <1>5, <1>7, <2>2
<1> QED
  BY <1>4, <1>6, <1>7

-----------------------------------------------------------------------------
(* What is read from a DSL text is a model. *)
LEMMA KeptStays ==
  ASSUME NEW X, NEW s \in Seq(X), NEW T
  PROVE  /\ Those(s, T) \in Seq(X) /\ DOMAIN Those(s, T) = 1..Len(Those(s, T))
         /\ \A i \in DOMAIN Those(s, T) : Those(s, T)[i] \in X /\ Those(s, T)[i] \in T
<1> DEFINE t == Those(s, T)
<1>1. t \in Seq(X) /\ ToSet(t) = ToSet(s) \cap T
  BY ThoseStay
<1> HIDE DEF t
<1>2. DOMAIN t = 1..Len(t) /\ \A i \in DOMAIN t : t[i] \in X /\ t[i] \in ToSet(t)
  BY <1>1 DEF ToSet
<1> QED
  BY <1>1, <1>2 DEF t

LEMMA RefsOfTyped ==
  ASSUME NEW rel \in DslRelations
  PROVE  RefsOf(rel) \in Seq(SubjectRefs)
<1> DEFINE X == [type : STRING, relation : STRING, condition : STRING]
           s == rel.subjects
           t == [i \in DOMAIN s |-> ToSubjectRef(s[i])]
<1>1. s \in Seq(X)
  BY DEF DslRelations
<1>2. \A u \in X : ToSubjectRef(u) \in SubjectRefs
  <2> SUFFICES ASSUME NEW u \in X PROVE ToSubjectRef(u) \in SubjectRefs
    OBVIOUS
  <2>1. u.type \in STRING /\ u.condition \in STRING
    OBVIOUS
  <2>2. AnyUser \in SubjectRefs
    BY AnyoneIsKnown
  <2>3. GroupMember(u.type) \in SubjectRefs
    <3>1. "none" \in STRING
      BY EditorAssumption
    <3> QED
      BY <2>1, <3>1 DEF GroupMember, SubjectRefs
  <2>4. \A ref \in SubjectRefs : [ref EXCEPT !.condition = u.condition] \in SubjectRefs
    BY <2>1 DEF SubjectRefs
  <2> QED
    BY <2>2, <2>3, <2>4 DEF ToSubjectRef
<1> HIDE DEF X
<1>3. \A i \in DOMAIN s : s[i] \in X
  BY <1>1
<1>4. t \in [DOMAIN s -> SubjectRefs]
  BY <1>2, <1>3
<1>5. RefsOf(rel) = t
  BY DEF RefsOf, Each
<1> HIDE DEF s, t
<1>6. t \in Seq(SubjectRefs)
  BY ONLY <1>1, <1>4, FunctionOnList
<1> QED
  BY <1>5, <1>6

LEMMA PermissionOfTyped ==
  ASSUME NEW rel \in DslRelations, \E p \in DOMAIN CanName : CanName[p] = rel.name
  PROVE  PermissionOf(rel) \in Permissions
<1> DEFINE X == [relation : STRING, from : STRING]
           s == rel.union
           T == {op \in ToSet(s) : op.from = "none"}
           U == {op \in ToSet(s) : op.from # "none"}
           own == Those(s, T)
           inherited == Those(s, U)
           g == [i \in DOMAIN own |-> own[i].relation]
           h == [i \in DOMAIN inherited |-> inherited[i].from]
           n == CHOOSE p \in DOMAIN CanName : CanName[p] = rel.name
<1>1. s \in Seq(X)
  BY DEF DslRelations
<1>2. \A op \in X : op.relation \in STRING /\ op.from \in STRING
  OBVIOUS
<1>3. n \in DOMAIN CanName
  OBVIOUS
<1>4. PermissionOf(rel) = [name |-> n, grantedByRoles |-> g, inheritFromParents |-> h]
  BY DEF PermissionOf, Kept, Each
<1> HIDE DEF X, s, T, U, n
<1>5. /\ own \in Seq(X) /\ \A i \in DOMAIN own : own[i] \in X
      /\ inherited \in Seq(X) /\ \A i \in DOMAIN inherited : inherited[i] \in X
  BY <1>1, KeptStays
<1> HIDE DEF own, inherited
<1>6. g \in [DOMAIN own -> STRING] /\ h \in [DOMAIN inherited -> STRING]
  BY <1>2, <1>5
<1> HIDE DEF g, h
<1>7. g \in Seq(STRING)
  <2> DEFINE Y == STRING
  <2>1. g \in [DOMAIN own -> Y]
    BY <1>6
  <2> HIDE DEF Y
  <2>2. g \in Seq(Y)
    BY ONLY <1>5, <2>1, FunctionOnList
  <2> QED
    BY <2>2 DEF Y
<1>8. h \in Seq(STRING)
  <2> DEFINE Y == STRING
  <2>1. h \in [DOMAIN inherited -> Y]
    BY <1>6
  <2> HIDE DEF Y
  <2>2. h \in Seq(Y)
    BY ONLY <1>5, <2>1, FunctionOnList
  <2> QED
    BY <2>2 DEF Y
<1> QED
  BY <1>3, <1>4, <1>7, <1>8 DEF Permissions

DslTypes == [name : STRING, relations : Seq(DslRelations)]

LEMMA ParentOfTyped ==
  ASSUME NEW rel \in DslRelations
  PROVE  [relationName |-> rel.name, parentTypes |-> Each(rel.subjects, LAMBDA s : s.type)] \in ParentRefs
<1> DEFINE X == [type : STRING, relation : STRING, condition : STRING]
           s == rel.subjects
           t == [i \in DOMAIN s |-> s[i].type]
           Y == STRING
<1>1. s \in Seq(X) /\ rel.name \in STRING
  BY DEF DslRelations
<1>2. \A i \in DOMAIN s : s[i] \in X
  <2> HIDE DEF X, s
  <2> QED
    BY <1>1
<1>3. t \in [DOMAIN s -> Y]
  BY <1>2
<1>4. Each(s, LAMBDA u : u.type) = t
  BY DEF Each
<1> HIDE DEF X, s, t, Y
<1>5. t \in Seq(Y)
  BY ONLY <1>1, <1>3, FunctionOnList
<1>6. [relationName |-> rel.name, parentTypes |-> t] \in ParentRefs
  BY <1>1, <1>5 DEF ParentRefs, Y
<1> QED
  BY <1>4, <1>6 DEF s

LEMMA ResourceOfTyped ==
  ASSUME NEW t \in DslTypes
  PROVE  ResourceOf(t) \in ResourceTypes
<1> DEFINE s == t.relations
           S1 == {rel \in ToSet(s) : ParentTypesOnly(rel)}
           S2 == {rel \in ToSet(s) : Subjects(rel)}
           S3 == {rel \in ToSet(s) : IsPermission(t, rel)}
           parent(rel) == [relationName |-> rel.name, parentTypes |-> Each(rel.subjects, LAMBDA u : u.type)]
           role(rel) == [name |-> rel.name, assignableBy |-> RefsOf(rel)]
           ps == Those(s, S1)
           rs == Those(s, S2)
           qs == Those(s, S3)
           p == [i \in DOMAIN ps |-> parent(ps[i])]
           r == [i \in DOMAIN rs |-> role(rs[i])]
           q == [i \in DOMAIN qs |-> PermissionOf(qs[i])]
<1>1. s \in Seq(DslRelations) /\ t.name \in STRING
  BY DEF DslTypes
<1>2. /\ \A rel \in DslRelations : parent(rel) \in ParentRefs /\ role(rel) \in Roles
      /\ \A rel \in DslRelations : rel \in S3 => PermissionOf(rel) \in Permissions
  <2>1. \A rel \in DslRelations : parent(rel) \in ParentRefs
    BY ParentOfTyped
  <2>2. \A rel \in DslRelations : rel.name \in STRING
    BY DEF DslRelations
  <2>3. \A rel \in DslRelations : role(rel) \in Roles
    BY <2>2, RefsOfTyped DEF Roles
  <2>4. \A rel \in DslRelations : rel \in S3 => PermissionOf(rel) \in Permissions
    BY PermissionOfTyped DEF IsPermission
  <2> QED
    BY <2>1, <2>3, <2>4
<1>3. ResourceOf(t) = [name |-> t.name, parents |-> p, roles |-> r, permissions |-> q]
  BY DEF ResourceOf, ParentsOf, RolesOf, Kept, Each
<1> HIDE DEF s, S1, S2, S3, parent, role
<1>4. /\ ps \in Seq(DslRelations) /\ \A i \in DOMAIN ps : ps[i] \in DslRelations
      /\ rs \in Seq(DslRelations) /\ \A i \in DOMAIN rs : rs[i] \in DslRelations
      /\ qs \in Seq(DslRelations) /\ \A i \in DOMAIN qs : qs[i] \in DslRelations /\ qs[i] \in S3
  BY <1>1, KeptStays
<1> HIDE DEF ps, rs, qs
<1>5. p \in [DOMAIN ps -> ParentRefs] /\ r \in [DOMAIN rs -> Roles] /\ q \in [DOMAIN qs -> Permissions]
  BY <1>2, <1>4
<1> HIDE DEF p, r, q
<1>6. p \in Seq(ParentRefs) /\ r \in Seq(Roles) /\ q \in Seq(Permissions)
  BY ONLY <1>4, <1>5, FunctionOnList
<1> QED
  BY <1>1, <1>3, <1>6 DEF ResourceTypes

LEMMA ParsedIsModel ==
  ASSUME NEW text \in DslDocuments
  PROVE  ParsedIr(text) \in ModelIRs
<1> DEFINE s == text.types
           T == {t \in ToSet(s) : t.name # "user"}
           named == Those(s, T)
           U == {t \in ToSet(named) : IsGroupType(t) /\ ~Advanced(t)}
           V == {t \in ToSet(named) : ~IsGroupType(t)}
           gs == Those(named, U)
           rs == Those(named, V)
           group(t) == [name |-> t.name, memberTypes |-> RefsOf(t.relations[1])]
           g == [i \in DOMAIN gs |-> group(gs[i])]
           r == [i \in DOMAIN rs |-> ResourceOf(rs[i])]
<1>1. s \in Seq(DslTypes) /\ text.conditions \in Seq(STRING)
  BY DEF DslDocuments, DslTypes
<1>2. \A t \in DslTypes : t \in U => group(t) \in GroupTypes
  <2> SUFFICES ASSUME NEW t \in DslTypes, IsGroupType(t) PROVE group(t) \in GroupTypes
    OBVIOUS
  <2>1. t.name \in STRING /\ t.relations \in Seq(DslRelations)
    BY DEF DslTypes
  <2>2. 1 \in DOMAIN t.relations
    <3>1. DOMAIN t.relations = DOMAIN Named(t.relations)
      BY DEF Named
    <3>2. Named(t.relations) = <<"member">>
      BY DEF IsGroupType
    <3>3. 1 \in DOMAIN <<"member">>
      OBVIOUS
    <3> QED
      BY <3>1, <3>2, <3>3
  <2>3. t.relations[1] \in DslRelations
    BY <2>1, <2>2
  <2>4. RefsOf(t.relations[1]) \in Seq(SubjectRefs)
    BY <2>3, RefsOfTyped
  <2> QED
    BY <2>1, <2>4 DEF GroupTypes
<1>3. ParsedIr(text) = [groups |-> g, resources |-> r, conditions |-> text.conditions]
  BY DEF ParsedIr, Kept, Each
<1> HIDE DEF s, T, U, V, group
<1>4. named \in Seq(DslTypes)
  BY <1>1, KeptStays
<1> HIDE DEF named
<1>5. /\ gs \in Seq(DslTypes) /\ \A i \in DOMAIN gs : gs[i] \in DslTypes /\ gs[i] \in U
      /\ rs \in Seq(DslTypes) /\ \A i \in DOMAIN rs : rs[i] \in DslTypes
  BY <1>4, KeptStays
<1> HIDE DEF gs, rs
<1>6. g \in [DOMAIN gs -> GroupTypes] /\ r \in [DOMAIN rs -> ResourceTypes]
  BY <1>2, <1>5, ResourceOfTyped
<1> HIDE DEF g, r
<1>7. g \in Seq(GroupTypes) /\ r \in Seq(ResourceTypes)
  BY ONLY <1>5, <1>6, FunctionOnList
<1> QED
  BY <1>1, <1>3, <1>7 DEF ModelIRs

-----------------------------------------------------------------------------
(* What is emitted reads back: references, parents, roles, permissions.    *)
LEMMA SameList ==
  ASSUME NEW X, NEW s \in Seq(X), NEW t, t = [i \in DOMAIN s |-> t[i]], \A i \in DOMAIN s : t[i] = s[i]
  PROVE  t = s
<1>1. s = [i \in DOMAIN s |-> s[i]]
  OBVIOUS
<1> QED
  BY <1>1

LEMMA SubjectBack ==
  ASSUME NEW ref \in SubjectRefs
  PROVE  /\ IsSubjectRef(SubjectOf(ref)) /\ ~IsResourceTypeRef(SubjectOf(ref))
         /\ ToSubjectRef(SubjectOf(ref)) = ref
<1> DEFINE s == SubjectOf(ref)
<1>1. CASE ref.kind = "user"
  <2>1. ref = [kind |-> "user", group |-> "", condition |-> ref.condition]
    BY <1>1 DEF SubjectRefs
  <2>2. s.type = "user" /\ s.relation = "none" /\ s.condition = ref.condition
    BY <1>1 DEF SubjectOf
  <2> HIDE DEF s
  <2>3. IsSubjectRef(s) /\ ~IsResourceTypeRef(s)
    BY <2>2 DEF IsSubjectRef, IsResourceTypeRef
  <2>4. ToSubjectRef(s) = [kind |-> "user", group |-> "", condition |-> ref.condition]
    <3>1. s.relation # "member"
      BY <2>2
    <3>2. ToSubjectRef(s) = [AnyUser EXCEPT !.condition = s.condition]
      BY <3>1 DEF ToSubjectRef
    <3> QED
      BY <2>2, <3>2 DEF AnyUser
  <2> QED
    BY <2>1, <2>3, <2>4 DEF s
<1>2. CASE ref.kind # "user"
  <2>1. ref = [kind |-> "group", group |-> ref.group, condition |-> ref.condition]
    BY <1>2 DEF SubjectRefs
  <2>2. s.type = ref.group /\ s.relation = "member" /\ s.condition = ref.condition
    BY <1>2 DEF SubjectOf
  <2> HIDE DEF s
  <2>3. IsSubjectRef(s) /\ ~IsResourceTypeRef(s)
    BY <2>2 DEF IsSubjectRef, IsResourceTypeRef
  <2>4. ToSubjectRef(s) = [kind |-> "group", group |-> ref.group, condition |-> ref.condition]
    BY <2>2 DEF ToSubjectRef, GroupMember
  <2> QED
    BY <2>1, <2>3, <2>4 DEF s
<1> QED
  BY <1>1, <1>2

(* A relation given to subjects reads as one, with the same subjects. *)
LEMMA SubjectsBack ==
  ASSUME NEW refs \in Seq(SubjectRefs), refs # <<>>, NEW name
  PROVE  LET rel == DirectRelation(name, SubjectsOf(refs)) IN
         /\ Subjects(rel) /\ ~ParentTypesOnly(rel) /\ rel.union = <<>> /\ rel.name = name
         /\ RefsOf(rel) = refs
<1> DEFINE rel == DirectRelation(name, SubjectsOf(refs))
           s == SubjectsOf(refs)
<1>1. rel.name = name /\ rel.subjects = s /\ rel.union = <<>>
  BY DEF DirectRelation
<1>2. DOMAIN s = DOMAIN refs /\ \A i \in DOMAIN refs : s[i] = SubjectOf(refs[i]) /\ refs[i] \in SubjectRefs
  BY DEF SubjectsOf
<1>3. 1 \in DOMAIN refs
  BY ListIsThere
<1> HIDE DEF rel, s
<1>4. s # <<>> /\ s[1] \in ToSet(s)
  <2>1. DOMAIN <<>> = {}
    OBVIOUS
  <2> QED
    BY <1>2, <1>3, <2>1 DEF ToSet
<1>5. \A u \in ToSet(s) : IsSubjectRef(u) /\ ~IsResourceTypeRef(u)
  BY <1>2, SubjectBack DEF ToSet
<1>6. Subjects(rel) /\ ~ParentTypesOnly(rel)
  BY <1>1, <1>4, <1>5 DEF Subjects, ParentTypesOnly
<1>7. RefsOf(rel) = refs
  <2> DEFINE t == RefsOf(rel)
  <2>1. t = [i \in DOMAIN s |-> ToSubjectRef(s[i])]
    BY <1>1 DEF RefsOf, Each
  <2> HIDE DEF t
  <2>2. t = [i \in DOMAIN refs |-> t[i]] /\ \A i \in DOMAIN refs : t[i] = refs[i]
    BY <1>2, <2>1, SubjectBack
  <2>3. t = refs
    BY <2>2, SameList
  <2> QED
    BY <2>3 DEF t
<1> QED
  BY <1>1, <1>6, <1>7 DEF rel

(* So does a relation to parents, of which no type is "user". *)
LEMMA ParentBack ==
  ASSUME NEW q \in ParentRefs, q.parentTypes # <<>>, "user" \notin ToSet(q.parentTypes)
  PROVE  LET rel == ParentRelation(q) IN
         /\ ParentTypesOnly(rel) /\ ~Subjects(rel) /\ rel.union = <<>> /\ rel.name = q.relationName
         /\ [relationName |-> rel.name, parentTypes |-> Each(rel.subjects, LAMBDA s : s.type)] = q
<1> DEFINE rel == ParentRelation(q)
           types == q.parentTypes
           s == ParentSubjects(types)
<1>1. rel.name = q.relationName /\ rel.subjects = s /\ rel.union = <<>>
  BY DEF ParentRelation, DirectRelation
<1>2. DOMAIN s = DOMAIN types
      /\ \A i \in DOMAIN types : s[i].type = types[i] /\ s[i].relation = "none" /\ s[i].condition = "none"
  BY DEF ParentSubjects
<1>3. q = [relationName |-> q.relationName, parentTypes |-> types] /\ types \in Seq(STRING)
  BY DEF ParentRefs
<1>4. 1 \in DOMAIN types
  <2> DEFINE Y == STRING
  <2>1. types \in Seq(Y) /\ types # <<>>
    BY <1>3
  <2> HIDE DEF types, Y
  <2> QED
    BY <2>1, ListIsThere
<1>5. \A i \in DOMAIN types : types[i] # "user"
  BY DEF ToSet
<1> HIDE DEF rel, s, types
<1>6. s # <<>> /\ s[1] \in ToSet(s)
  <2>1. DOMAIN <<>> = {}
    OBVIOUS
  <2> QED
    BY <1>2, <1>4, <2>1 DEF ToSet
<1>7. \A u \in ToSet(s) : IsResourceTypeRef(u) /\ ~IsSubjectRef(u)
  BY <1>2, <1>5 DEF ToSet, IsResourceTypeRef, IsSubjectRef
<1>8. ParentTypesOnly(rel) /\ ~Subjects(rel)
  BY <1>1, <1>6, <1>7 DEF Subjects, ParentTypesOnly
<1>9. Each(rel.subjects, LAMBDA u : u.type) = types
  <2> DEFINE t == Each(rel.subjects, LAMBDA u : u.type)
             Y == STRING
  <2>1. t = [i \in DOMAIN s |-> s[i].type]
    BY <1>1 DEF Each
  <2> HIDE DEF t, Y
  <2>2. t = [i \in DOMAIN types |-> t[i]] /\ \A i \in DOMAIN types : t[i] = types[i]
    BY <1>2, <2>1
  <2>3. types \in Seq(Y)
    BY <1>3 DEF Y
  <2>4. t = types
    BY <2>2, <2>3, SameList
  <2> QED
    BY <2>4 DEF t
<1> QED
  BY <1>1, <1>3, <1>8, <1>9 DEF rel

(* And a permission, whose roles are the operands without a "from": the mark
   of its absence is the name of no relation. *)
LEMMA PermissionBack ==
  ASSUME NEW p \in Permissions, p.grantedByRoles # <<>>, "none" \notin ToSet(p.inheritFromParents)
  PROVE  LET rel == PermissionRelation(p) IN
         /\ ~Subjects(rel) /\ ~ParentTypesOnly(rel) /\ rel.union # <<>>
         /\ rel.name = CanName[p.name] /\ PermissionOf(rel) = p
         /\ \E op \in ToSet(rel.union) : op.from = "none"
         /\ \A op \in ToSet(rel.union) :
              IF op.from = "none" THEN op.relation \in ToSet(p.grantedByRoles)
              ELSE op.from \in ToSet(p.inheritFromParents) /\ op.relation = rel.name
<1> DEFINE X == [relation : STRING, from : STRING]
           Y == STRING
           rel == PermissionRelation(p)
           g == p.grantedByRoles
           h == p.inheritFromParents
           a == [i \in DOMAIN g |-> [relation |-> g[i], from |-> "none"]]
           b == [i \in DOMAIN h |-> [relation |-> CanName[p.name], from |-> h[i]]]
           T == {op \in ToSet(rel.union) : op.from = "none"}
           U == {op \in ToSet(rel.union) : op.from # "none"}
           n == CHOOSE e \in DOMAIN CanName : CanName[e] = rel.name
           own == [i \in DOMAIN Those(rel.union, T) |-> Those(rel.union, T)[i].relation]
           inherited == [i \in DOMAIN Those(rel.union, U) |-> Those(rel.union, U)[i].from]
<1>1. /\ p = [name |-> p.name, grantedByRoles |-> g, inheritFromParents |-> h]
      /\ p.name \in DOMAIN CanName /\ g \in Seq(Y) /\ h \in Seq(Y)
  BY DEF Permissions
<1>2. CanName[p.name] \in STRING /\ "none" \in STRING
  BY <1>1, ModelContractAssumption, EditorAssumption
<1>3. rel.name = CanName[p.name] /\ rel.union = a \o b
  BY DEF PermissionRelation
<1>4. n = p.name
  BY <1>1, <1>3, ModelContractAssumption
<1>5. PermissionOf(rel) = [name |-> n, grantedByRoles |-> own, inheritFromParents |-> inherited]
  BY DEF PermissionOf, Kept, Each
<1>6. /\ \A i \in DOMAIN g : g[i] \in STRING /\ g[i] \in ToSet(g)
      /\ \A i \in DOMAIN h : h[i] \in STRING /\ h[i] \in ToSet(h) /\ h[i] # "none"
  <2>1. \A i \in DOMAIN h : h[i] \in STRING /\ h[i] \in ToSet(h)
    <3> HIDE DEF h
    <3> QED
      BY <1>1 DEF ToSet
  <2>2. \A i \in DOMAIN g : g[i] \in STRING /\ g[i] \in ToSet(g)
    <3> HIDE DEF g
    <3> QED
      BY <1>1 DEF ToSet
  <2> QED
    BY <2>1, <2>2
<1>7. g # <<>>
  OBVIOUS
<1> HIDE DEF rel, g, h, Y, n
<1>8. /\ DOMAIN a = DOMAIN g /\ \A i \in DOMAIN g : a[i].relation = g[i] /\ a[i].from = "none"
      /\ DOMAIN b = DOMAIN h /\ \A i \in DOMAIN h : b[i].relation = CanName[p.name] /\ b[i].from = h[i]
  OBVIOUS
<1>9. a \in [DOMAIN g -> X] /\ b \in [DOMAIN h -> X]
  BY <1>2, <1>6
<1> HIDE DEF a, b, X
<1>10. a \in Seq(X) /\ b \in Seq(X)
  BY ONLY <1>1, <1>9, FunctionOnList
<1>11. ToSet(a \o b) = ToSet(a) \cup ToSet(b)
  BY <1>10, ConcatSet
<1>12. 1 \in DOMAIN g
  BY <1>1, <1>7, ListIsThere
<1>13. a[1] \in ToSet(rel.union) /\ a[1].from = "none"
  BY <1>3, <1>8, <1>11, <1>12 DEF ToSet
<1>14. \A op \in ToSet(rel.union) :
         IF op.from = "none" THEN op.relation \in ToSet(g)
         ELSE op.from \in ToSet(h) /\ op.relation = rel.name
  <2> SUFFICES ASSUME NEW op \in ToSet(a) \cup ToSet(b)
               PROVE  IF op.from = "none" THEN op.relation \in ToSet(g)
                      ELSE op.from \in ToSet(h) /\ op.relation = rel.name
    BY <1>3, <1>11
  <2>1. CASE op \in ToSet(a)
    <3>1. PICK i \in DOMAIN g : op = a[i]
      BY <1>8, <2>1 DEF ToSet
    <3> QED
      BY <1>6, <1>8, <3>1
  <2>2. CASE op \in ToSet(b)
    <3>1. PICK i \in DOMAIN h : op = b[i]
      BY <1>8, <2>2 DEF ToSet
    <3> QED
      BY <1>3, <1>6, <1>8, <3>1
  <2> QED
    BY <2>1, <2>2
<1>15. rel.union # <<>>
  <2>1. ToSet(<<>>) = {}
    BY DEF ToSet
  <2> QED
    BY <1>13, <2>1
<1>16. ~Subjects(rel) /\ ~ParentTypesOnly(rel)
  BY <1>15 DEF Subjects, ParentTypesOnly
<1>17. /\ AllIn(a, T) /\ NoneIn(b, T) /\ NoneIn(a, U) /\ AllIn(b, U)
  <2>1. \A i \in DOMAIN a : a[i] \in ToSet(rel.union) /\ a[i].from = "none"
    <3>1. \A i \in DOMAIN a : a[i] \in ToSet(a)
      BY DEF ToSet
    <3> QED
      BY <1>3, <1>8, <1>11, <3>1
  <2>2. \A i \in DOMAIN b : b[i] \in ToSet(rel.union) /\ b[i].from # "none"
    <3>1. \A i \in DOMAIN b : b[i] \in ToSet(b)
      BY DEF ToSet
    <3> QED
      BY <1>3, <1>6, <1>8, <1>11, <3>1
  <2> QED
    BY <2>1, <2>2 DEF AllIn, NoneIn
<1> HIDE DEF T, U
<1>18. Those(rel.union, T) = a /\ Those(rel.union, U) = b
  BY <1>3, <1>10, <1>17, ThoseFormer, ThoseLatter
<1>19. own = g
  <2>1. own = [i \in DOMAIN g |-> own[i]] /\ \A i \in DOMAIN g : own[i] = g[i]
    BY <1>8, <1>18
  <2> HIDE DEF own
  <2> QED
    BY <1>1, <2>1, SameList
<1>20. inherited = h
  <2>1. inherited = [i \in DOMAIN h |-> inherited[i]] /\ \A i \in DOMAIN h : inherited[i] = h[i]
    BY <1>8, <1>18
  <2> HIDE DEF inherited
  <2> QED
    BY <1>1, <2>1, SameList
<1>21. PermissionOf(rel) = p
  BY ONLY <1>1, <1>4, <1>5, <1>19, <1>20
<1> QED
  BY <1>3, <1>13, <1>14, <1>15, <1>16, <1>21 DEF rel, g, h

(* What the reading of a compiled resource type rests on. *)
Readable(r) ==
  /\ r \in ResourceTypes
  /\ \A q \in ToSet(r.parents) : q.parentTypes # <<>> /\ "user" \notin ToSet(q.parentTypes)
  /\ \A role \in ToSet(r.roles) : role.assignableBy # <<>>
  /\ \A p \in ToSet(r.permissions) :
       /\ p.grantedByRoles # <<>> /\ ToSet(p.grantedByRoles) \subseteq NameSet(r.roles)
       /\ ToSet(p.inheritFromParents) \subseteq RelationSet(r) /\ "none" \notin ToSet(p.inheritFromParents)

LEMMA ValidIsReadable ==
  ASSUME NEW ir \in ModelIRs, ModelErrors(ir) = {}, NEW r \in ToSet(ir.resources)
  PROVE  Readable(r)
<1>1. r \in ResourceTypes
  BY IrRecords
<1>2. \A q \in ToSet(r.parents) : q.parentTypes # <<>> /\ "user" \notin ToSet(q.parentTypes)
  BY ParentsValid, ValidNames
<1>3. \A role \in ToSet(r.roles) : role.assignableBy # <<>>
  BY ValidRefs, NoSubjectErrors
<1>4. ASSUME NEW p \in ToSet(r.permissions)
      PROVE  /\ p.grantedByRoles # <<>> /\ ToSet(p.grantedByRoles) \subseteq NameSet(r.roles)
             /\ ToSet(p.inheritFromParents) \subseteq RelationSet(r) /\ "none" \notin ToSet(p.inheritFromParents)
  <2>1. /\ p.grantedByRoles # <<>> /\ ToSet(p.grantedByRoles) \subseteq NameSet(r.roles)
        /\ \A rel \in ToSet(p.inheritFromParents) : Inheritable(ir, r, p, rel)
    BY PermissionsValid
  <2>2. ToSet(p.inheritFromParents) \subseteq RelationSet(r)
    BY <2>1 DEF Inheritable, RelationSet
  <2>3. "none" \notin RelationSet(r)
    <3>1. ToSet(RelationNames(r)) \cap BadName = {}
      BY ValidLists
    <3>2. RelationSet(r) \subseteq ToSet(RelationNames(r))
      BY DEF RelationSet, RelationNames, ToSet
    <3> QED
      BY <3>1, <3>2, ModelContractAssumption
  <2> QED
    BY <2>1, <2>2, <2>3
<1> QED
  BY <1>1, <1>2, <1>3, <1>4 DEF Readable

(* The relations of a compiled resource type, kind by kind. *)
ParentsOut(r) == [i \in DOMAIN r.parents |-> ParentRelation(r.parents[i])]
RolesOut(r) == [i \in DOMAIN r.roles |-> RoleRelation(r.roles[i])]
PermissionsOut(r) == [i \in DOMAIN r.permissions |-> PermissionRelation(r.permissions[i])]

LEMMA RelationsOut ==
  ASSUME NEW r \in ResourceTypes
  PROVE  /\ ResourceTypeOf(r).name = r.name
         /\ ResourceTypeOf(r).relations = Joined3(ParentsOut(r), RolesOut(r), PermissionsOut(r))
         /\ \E X : ParentsOut(r) \in Seq(X) /\ RolesOut(r) \in Seq(X) /\ PermissionsOut(r) \in Seq(X)
<1> DEFINE P == ParentsOut(r)
           R == RolesOut(r)
           E == PermissionsOut(r)
           X == {ParentRelation(p) : p \in ToSet(r.parents)} \cup {RoleRelation(x) : x \in ToSet(r.roles)}
                \cup {PermissionRelation(p) : p \in ToSet(r.permissions)}
<1>1. /\ Len(r.parents) \in Nat /\ DOMAIN r.parents = 1..Len(r.parents)
      /\ Len(r.roles) \in Nat /\ DOMAIN r.roles = 1..Len(r.roles)
      /\ Len(r.permissions) \in Nat /\ DOMAIN r.permissions = 1..Len(r.permissions)
  BY ResourceRecords
<1>2. /\ \A i \in 1..Len(r.parents) : r.parents[i] \in ToSet(r.parents)
      /\ \A i \in 1..Len(r.roles) : r.roles[i] \in ToSet(r.roles)
      /\ \A i \in 1..Len(r.permissions) : r.permissions[i] \in ToSet(r.permissions)
  BY <1>1 DEF ToSet
<1>3. P \in [1..Len(r.parents) -> X] /\ R \in [1..Len(r.roles) -> X] /\ E \in [1..Len(r.permissions) -> X]
  BY <1>1, <1>2 DEF ParentsOut, RolesOut, PermissionsOut
<1>4. ResourceTypeOf(r).name = r.name /\ ResourceTypeOf(r).relations = (P \o R) \o E
  BY DEF ResourceTypeOf, ParentsOut, RolesOut, PermissionsOut, ParentRelation, RoleRelation
<1> HIDE DEF P, R, E, X
<1>5. P \in Seq(X) /\ R \in Seq(X) /\ E \in Seq(X)
  BY <1>1, <1>3, FunctionIsList
<1> QED
  BY <1>4, <1>5 DEF P, R, E, Joined3

(* What each kind of relation reads as. *)
IsRole(rel) == Subjects(rel) /\ ~ParentTypesOnly(rel) /\ rel.union = <<>>
IsParent(rel) == ParentTypesOnly(rel) /\ ~Subjects(rel) /\ rel.union = <<>>
IsUnion(rel) == ~Subjects(rel) /\ ~ParentTypesOnly(rel) /\ rel.union # <<>>

LEMMA KindsOut ==
  ASSUME NEW r, Readable(r)
  PROVE  /\ \A q \in ToSet(r.parents) : IsParent(ParentRelation(q))
         /\ \A role \in ToSet(r.roles) : IsRole(RoleRelation(role))
         /\ \A p \in ToSet(r.permissions) : IsUnion(PermissionRelation(p))
<1>1. \A q \in ToSet(r.parents) : IsParent(ParentRelation(q))
  <2> SUFFICES ASSUME NEW q \in ToSet(r.parents) PROVE IsParent(ParentRelation(q))
    OBVIOUS
  <2>1. q \in ParentRefs /\ q.parentTypes # <<>> /\ "user" \notin ToSet(q.parentTypes)
    BY ResourceRecords DEF Readable
  <2> QED
    BY <2>1, ParentBack DEF IsParent
<1>2. \A role \in ToSet(r.roles) : IsRole(RoleRelation(role))
  <2> SUFFICES ASSUME NEW role \in ToSet(r.roles) PROVE IsRole(RoleRelation(role))
    OBVIOUS
  <2>1. role.assignableBy \in Seq(SubjectRefs) /\ role.assignableBy # <<>>
    BY ResourceRecords, RoleFields DEF Readable
  <2> QED
    BY <2>1, SubjectsBack DEF IsRole, RoleRelation
<1>3. \A p \in ToSet(r.permissions) : IsUnion(PermissionRelation(p))
  <2> SUFFICES ASSUME NEW p \in ToSet(r.permissions) PROVE IsUnion(PermissionRelation(p))
    OBVIOUS
  <2>1. p \in Permissions /\ p.grantedByRoles # <<>> /\ "none" \notin ToSet(p.inheritFromParents)
    BY ResourceRecords DEF Readable
  <2> QED
    BY <2>1, PermissionBack DEF IsUnion
<1> QED
  BY <1>1, <1>2, <1>3

(* The roles and parents that are read are those that were written. *)
LEMMA RelationsBack ==
  ASSUME NEW r, Readable(r)
  PROVE  LET t == ResourceTypeOf(r) IN
         /\ ParentsOf(t) = ParentsOut(r) /\ RolesOf(t) = RolesOut(r)
         /\ NameSet(ParentsOf(t)) = RelationSet(r) /\ NameSet(RolesOf(t)) = NameSet(r.roles)
<1> DEFINE t == ResourceTypeOf(r)
           P == ParentsOut(r)
           R == RolesOut(r)
           E == PermissionsOut(r)
           L == t.relations
           S1 == {rel \in ToSet(L) : ParentTypesOnly(rel)}
           S2 == {rel \in ToSet(L) : Subjects(rel)}
<1>1. ParentsOf(t) = Those(L, S1) /\ RolesOf(t) = Those(L, S2)
  BY DEF ParentsOf, RolesOf, Kept
<1>2. /\ \A i \in DOMAIN P : IsParent(P[i])
      /\ \A i \in DOMAIN R : IsRole(R[i])
      /\ \A i \in DOMAIN E : IsUnion(E[i])
  BY KindsOut DEF ToSet, ParentsOut, RolesOut, PermissionsOut
<1>3. /\ DOMAIN P = DOMAIN r.parents /\ DOMAIN R = DOMAIN r.roles
      /\ \A i \in DOMAIN P : P[i].name = r.parents[i].relationName
      /\ \A i \in DOMAIN R : R[i].name = r.roles[i].name
  BY DEF ParentsOut, RolesOut, ParentRelation, RoleRelation, DirectRelation
<1>4. L = Joined3(P, R, E)
  BY RelationsOut DEF Readable
<1>5. PICK X : P \in Seq(X) /\ R \in Seq(X) /\ E \in Seq(X)
  BY RelationsOut DEF Readable
<1> HIDE DEF t, P, R, E, L
<1>6. ToSet(L) = (ToSet(P) \cup ToSet(R)) \cup ToSet(E)
  BY <1>4, <1>5, Concat3Set DEF Joined3
<1>7. /\ \A i \in DOMAIN P : P[i] \in ToSet(L) /\ IsParent(P[i])
      /\ \A i \in DOMAIN R : R[i] \in ToSet(L) /\ IsRole(R[i])
      /\ \A i \in DOMAIN E : E[i] \in ToSet(L) /\ IsUnion(E[i])
  <2>1. /\ \A i \in DOMAIN P : P[i] \in ToSet(P)
        /\ \A i \in DOMAIN R : R[i] \in ToSet(R)
        /\ \A i \in DOMAIN E : E[i] \in ToSet(E)
    BY DEF ToSet
  <2> QED
    BY <1>2, <1>6, <2>1
<1>8. AllIn(P, S1) /\ NoneIn(R, S1) /\ NoneIn(E, S1) /\ NoneIn(P, S2) /\ AllIn(R, S2) /\ NoneIn(E, S2)
  BY <1>7 DEF AllIn, NoneIn, IsParent, IsRole, IsUnion
<1> HIDE DEF S1, S2
<1>9. Those(L, S2) = R
  BY <1>4, <1>5, <1>8, ThoseMiddle
<1>10. Those(L, S1) = P
  <2>1. NoneIn(R \o E, S1) /\ R \o E \in Seq(X) /\ Joined3(P, R, E) = P \o (R \o E)
    <3>1. R \o E \in Seq(X) /\ ToSet(R \o E) = ToSet(R) \cup ToSet(E)
      BY <1>5, ConcatSet
    <3>2. NoneIn(R \o E, S1)
      <4> DEFINE u == R \o E
      <4>1. \A i \in DOMAIN u : u[i] \in ToSet(u)
        BY DEF ToSet
      <4>2. ToSet(u) = ToSet(R) \cup ToSet(E)
        BY <3>1
      <4> HIDE DEF u
      <4>3. \A x \in ToSet(R) \cup ToSet(E) : x \notin S1
        BY <1>8 DEF NoneIn, ToSet
      <4>4. NoneIn(u, S1)
        BY <4>1, <4>2, <4>3 DEF NoneIn
      <4> QED
        BY <4>4 DEF u
    <3>3. (P \o R) \o E = P \o (R \o E)
      BY <1>5, ConcatAssociative
    <3> QED
      BY <3>1, <3>2, <3>3 DEF Joined3
  <2> DEFINE v == R \o E
  <2>2. NoneIn(v, S1) /\ v \in Seq(X) /\ Joined3(P, R, E) = P \o v /\ P \in Seq(X) /\ AllIn(P, S1)
    BY <1>5, <1>8, <2>1
  <2> HIDE DEF v
  <2>3. Those(P \o v, S1) = P
    BY ONLY <2>2, ThoseFormer
  <2> QED
    BY ONLY <1>4, <2>2, <2>3
<1>11. NameSet(P) = RelationSet(r) /\ NameSet(R) = NameSet(r.roles)
  BY <1>3 DEF NameSet, RelationSet, ToSet
<1> QED
  BY <1>1, <1>9, <1>10, <1>11 DEF t, P, R

(* A permission is read as one, of the roles and parents it was written with. *)
LEMMA PermissionStays ==
  ASSUME NEW r, Readable(r), NEW p \in ToSet(r.permissions)
  PROVE  IsPermission(ResourceTypeOf(r), PermissionRelation(p)) /\ PermissionOf(PermissionRelation(p)) = p
<1> DEFINE t == ResourceTypeOf(r)
           rel == PermissionRelation(p)
<1>1. /\ p \in Permissions /\ p.grantedByRoles # <<>> /\ "none" \notin ToSet(p.inheritFromParents)
      /\ ToSet(p.grantedByRoles) \subseteq NameSet(r.roles) /\ ToSet(p.inheritFromParents) \subseteq RelationSet(r)
  BY ResourceRecords DEF Readable
<1>2. /\ rel.union # <<>> /\ rel.name = CanName[p.name] /\ PermissionOf(rel) = p
      /\ \E op \in ToSet(rel.union) : op.from = "none"
      /\ \A op \in ToSet(rel.union) :
           IF op.from = "none" THEN op.relation \in ToSet(p.grantedByRoles)
           ELSE op.from \in ToSet(p.inheritFromParents) /\ op.relation = rel.name
  BY <1>1, PermissionBack
<1>3. NameSet(ParentsOf(t)) = RelationSet(r) /\ NameSet(RolesOf(t)) = NameSet(r.roles)
  BY RelationsBack
<1>4. p.name \in DOMAIN CanName
  BY <1>1, AllNamed
<1> HIDE DEF t, rel
<1>5. \A op \in ToSet(rel.union) :
        IF op.from = "none" THEN op.relation \in NameSet(RolesOf(t))
        ELSE op.from \in NameSet(ParentsOf(t)) /\ op.relation = rel.name
  BY <1>1, <1>2, <1>3
<1>6. IsPermission(t, rel)
  BY <1>2, <1>4, <1>5 DEF IsPermission
<1> QED
  BY <1>2, <1>6 DEF t, rel

(* A compiled resource type reads as the resource type it was, all of it. *)
LEMMA ResourceBack ==
  ASSUME NEW r, Readable(r)
  PROVE  LET t == ResourceTypeOf(r) IN
         /\ ResourceOf(t) = r
         /\ \A rel \in ToSet(t.relations) : Subjects(rel) \/ ParentTypesOnly(rel) \/ IsPermission(t, rel)
<1> DEFINE t == ResourceTypeOf(r)
           P == ParentsOut(r)
           R == RolesOut(r)
           E == PermissionsOut(r)
           L == t.relations
           S3 == {rel \in ToSet(L) : IsPermission(t, rel)}
           Q == Those(L, S3)
           parent(rel) == [relationName |-> rel.name, parentTypes |-> Each(rel.subjects, LAMBDA u : u.type)]
           role(rel) == [name |-> rel.name, assignableBy |-> RefsOf(rel)]
           ps == [i \in DOMAIN P |-> parent(P[i])]
           rs == [i \in DOMAIN R |-> role(R[i])]
           qs == [i \in DOMAIN Q |-> PermissionOf(Q[i])]
<1>1. ParentsOf(t) = P /\ RolesOf(t) = R
  BY RelationsBack
<1>2. ResourceOf(t) = [name |-> t.name, parents |-> ps, roles |-> rs, permissions |-> qs]
  BY <1>1 DEF ResourceOf, Kept, Each
<1>3. L = Joined3(P, R, E) /\ t.name = r.name
  BY RelationsOut DEF Readable
<1>4. PICK X : P \in Seq(X) /\ R \in Seq(X) /\ E \in Seq(X)
  BY RelationsOut DEF Readable
<1>5. /\ r = [name |-> r.name, parents |-> r.parents, roles |-> r.roles, permissions |-> r.permissions]
      /\ r.parents \in Seq(ParentRefs) /\ r.roles \in Seq(Roles) /\ r.permissions \in Seq(Permissions)
  BY DEF Readable, ResourceTypes
<1>6. /\ DOMAIN P = DOMAIN r.parents /\ \A i \in DOMAIN r.parents : P[i] = ParentRelation(r.parents[i])
      /\ DOMAIN R = DOMAIN r.roles /\ \A i \in DOMAIN r.roles : R[i] = RoleRelation(r.roles[i])
      /\ DOMAIN E = DOMAIN r.permissions /\ \A i \in DOMAIN r.permissions : E[i] = PermissionRelation(r.permissions[i])
  BY DEF ParentsOut, RolesOut, PermissionsOut
<1>7. /\ \A i \in DOMAIN r.parents : r.parents[i] \in ToSet(r.parents)
      /\ \A i \in DOMAIN r.roles : r.roles[i] \in ToSet(r.roles)
      /\ \A i \in DOMAIN r.permissions : r.permissions[i] \in ToSet(r.permissions)
  BY DEF ToSet
<1>8. /\ \A i \in DOMAIN P : IsParent(P[i])
      /\ \A i \in DOMAIN R : IsRole(R[i])
      /\ \A i \in DOMAIN E : IsPermission(t, E[i]) /\ PermissionOf(E[i]) = r.permissions[i]
  <2> HIDE DEF t, P, R, E
  <2> QED
    BY <1>6, <1>7, KindsOut, PermissionStays DEF t
<1>9. ps = r.parents
  <2>1. \A i \in DOMAIN r.parents : parent(P[i]) = r.parents[i]
    <3> SUFFICES ASSUME NEW i \in DOMAIN r.parents PROVE parent(P[i]) = r.parents[i]
      OBVIOUS
    <3>1. /\ r.parents[i] \in ParentRefs /\ r.parents[i].parentTypes # <<>>
          /\ "user" \notin ToSet(r.parents[i].parentTypes)
      BY <1>5, <1>7 DEF Readable
    <3> QED
      BY <1>6, <3>1, ParentBack
  <2>2. ps = [i \in DOMAIN r.parents |-> ps[i]] /\ \A i \in DOMAIN r.parents : ps[i] = parent(P[i])
    BY <1>6
  <2> HIDE DEF ps, parent
  <2> QED
    BY ONLY <1>5, <2>1, <2>2, SameList
<1>10. rs = r.roles
  <2>1. \A i \in DOMAIN r.roles : role(R[i]) = r.roles[i]
    <3> SUFFICES ASSUME NEW i \in DOMAIN r.roles PROVE role(R[i]) = r.roles[i]
      OBVIOUS
    <3> DEFINE x == r.roles[i]
    <3>1. x \in Roles /\ x.assignableBy # <<>>
      BY <1>5, <1>7 DEF Readable
    <3>2. R[i] = RoleRelation(x)
      BY <1>6
    <3> HIDE DEF x
    <3>3. x = [name |-> x.name, assignableBy |-> x.assignableBy] /\ x.assignableBy \in Seq(SubjectRefs)
      BY <3>1 DEF Roles
    <3>4. RoleRelation(x).name = x.name /\ RefsOf(RoleRelation(x)) = x.assignableBy
      BY <3>1, <3>3, SubjectsBack DEF RoleRelation
    <3> QED
      BY <3>2, <3>3, <3>4 DEF x
  <2>2. rs = [i \in DOMAIN r.roles |-> rs[i]] /\ \A i \in DOMAIN r.roles : rs[i] = role(R[i])
    BY <1>6
  <2> HIDE DEF rs, role
  <2> QED
    BY ONLY <1>5, <2>1, <2>2, SameList
<1>11. ToSet(L) = (ToSet(P) \cup ToSet(R)) \cup ToSet(E)
  <2> HIDE DEF P, R, E, L
  <2> QED
    BY <1>3, <1>4, Concat3Set DEF Joined3
<1>12. Q = E
  <2>1. \A i \in DOMAIN E : E[i] \in ToSet(L)
    <3> HIDE DEF P, R, E, L
    <3>1. \A i \in DOMAIN E : E[i] \in ToSet(E)
      BY DEF ToSet
    <3> QED
      BY <1>11, <3>1
  <2> HIDE DEF t, P, R, E, L
  <2>2. AllIn(E, S3)
    BY <1>8, <2>1 DEF AllIn
  <2>3. NoneIn(P, S3) /\ NoneIn(R, S3)
    BY <1>8 DEF NoneIn, IsParent, IsRole, IsPermission
  <2> DEFINE u == P \o R
             e == <<>>
  <2>4. u \in Seq(X) /\ NoneIn(u, S3)
    <3>1. u \in Seq(X) /\ ToSet(u) = ToSet(P) \cup ToSet(R)
      BY <1>4, ConcatSet
    <3> HIDE DEF u, S3
    <3>2. \A x \in ToSet(P) \cup ToSet(R) : x \notin S3
      BY <2>3 DEF NoneIn, ToSet
    <3>3. \A i \in DOMAIN u : u[i] \in ToSet(u)
      BY DEF ToSet
    <3> QED
      BY <3>1, <3>2, <3>3 DEF NoneIn
  <2>5. L = u \o E
    BY <1>3 DEF Joined3
  <2> HIDE DEF u, S3
  <2>6. Those(u \o E, S3) = E
    BY ONLY <1>4, <2>2, <2>4, ThoseLatter
  <2> QED
    BY <2>5, <2>6
<1>13. qs = r.permissions
  <2>1. qs = [i \in DOMAIN r.permissions |-> qs[i]] /\ \A i \in DOMAIN r.permissions : qs[i] = r.permissions[i]
    BY <1>6, <1>8, <1>12
  <2> HIDE DEF qs
  <2> QED
    BY ONLY <1>5, <2>1, SameList
<1>14. \A rel \in ToSet(L) : Subjects(rel) \/ ParentTypesOnly(rel) \/ IsPermission(t, rel)
  <2> HIDE DEF t, P, R, E, L
  <2> QED
    BY <1>8, <1>11 DEF ToSet, IsParent, IsRole
<1>15. ResourceOf(t) = r
  <2> HIDE DEF t, ps, rs, qs
  <2> QED
    BY ONLY <1>2, <1>3, <1>5, <1>9, <1>10, <1>13
<1> QED
  BY <1>14, <1>15

(* Which types read as groups: those of the groups, and of the resource types
   only one that is like a group. *)
LEMMA GroupBack ==
  ASSUME NEW g \in GroupTypes, g.memberTypes # <<>>
  PROVE  LET t == GroupTypeOf(g) IN
         /\ t.name = g.name /\ IsGroupType(t) /\ Subjects(t.relations[1])
         /\ [name |-> t.name, memberTypes |-> RefsOf(t.relations[1])] = g
<1> DEFINE t == GroupTypeOf(g)
           m == DirectRelation("member", SubjectsOf(g.memberTypes))
<1>1. g = [name |-> g.name, memberTypes |-> g.memberTypes] /\ g.memberTypes \in Seq(SubjectRefs)
  BY DEF GroupTypes
<1>2. t.name = g.name /\ t.relations = <<m>> /\ m.name = "member"
  BY DEF GroupTypeOf, DirectRelation
<1>3. Subjects(m) /\ RefsOf(m) = g.memberTypes
  BY <1>1, SubjectsBack
<1> HIDE DEF t, m
<1>4. DOMAIN t.relations = {1} /\ t.relations[1] = m
  BY <1>2
<1>5. IsGroupType(t)
  <2>1. Named(t.relations) = [i \in {1} |-> "member"]
    BY <1>2, <1>4 DEF Named
  <2>2. <<"member">> = [i \in {1} |-> "member"]
    OBVIOUS
  <2> QED
    BY <2>1, <2>2 DEF IsGroupType
<1>6. [name |-> t.name, memberTypes |-> RefsOf(t.relations[1])] = g
  BY ONLY <1>1, <1>2, <1>3, <1>4
<1> QED
  BY <1>2, <1>3, <1>4, <1>5, <1>6 DEF t

LEMMA NotAGroup ==
  ASSUME NEW r, Readable(r), ~LikeAGroup(r)
  PROVE  ~IsGroupType(ResourceTypeOf(r))
<1> DEFINE L == ResourceTypeOf(r).relations
           P == ParentsOut(r)
           R == RolesOut(r)
           E == PermissionsOut(r)
<1> SUFFICES ASSUME Named(L) = <<"member">> PROVE FALSE
  BY DEF IsGroupType
<1>1. r.permissions # <<>>
  BY DEF LikeAGroup
<1>2. r.permissions \in Seq(Permissions) /\ r.roles \in Seq(Roles)
  BY ResourceRecords DEF Readable
<1>3. 1 \in DOMAIN r.permissions /\ r.permissions[1] \in ToSet(r.permissions)
  BY <1>1, <1>2, ListIsThere
<1>4. r.roles # <<>>
  <2> DEFINE p == r.permissions[1]
  <2>1. p.grantedByRoles # <<>> /\ ToSet(p.grantedByRoles) \subseteq NameSet(r.roles) /\ p \in Permissions
    BY <1>2, <1>3 DEF Readable
  <2> HIDE DEF p
  <2>2. p.grantedByRoles \in Seq(STRING)
    BY <2>1 DEF Permissions
  <2>3. p.grantedByRoles[1] \in ToSet(p.grantedByRoles)
    <3> DEFINE Y == STRING
               s == p.grantedByRoles
    <3>1. s \in Seq(Y) /\ s # <<>>
      BY <2>1, <2>2
    <3> HIDE DEF Y, s
    <3>2. s[1] \in ToSet(s)
      BY <3>1, ListIsThere
    <3> QED
      BY <3>2 DEF s
  <2>4. NameSet(<<>>) = {}
    BY DEF NameSet
  <2> QED
    BY <2>1, <2>3, <2>4
<1>5. L = Joined3(P, R, E)
  BY RelationsOut DEF Readable
<1>6. PICK X : P \in Seq(X) /\ R \in Seq(X) /\ E \in Seq(X)
  BY RelationsOut DEF Readable
<1>7. DOMAIN R = DOMAIN r.roles /\ DOMAIN E = DOMAIN r.permissions
  BY DEF RolesOut, PermissionsOut
<1>8. 1 \in DOMAIN R /\ 1 \in DOMAIN E
  BY <1>2, <1>3, <1>4, <1>7, ListIsThere
<1>9. DOMAIN L = {1}
  <2>1. DOMAIN Named(L) = DOMAIN L
    BY DEF Named
  <2>2. DOMAIN <<"member">> = {1}
    OBVIOUS
  <2> QED
    BY <2>1, <2>2
<1> HIDE DEF L, P, R, E
<1>10. Len(P) \in Nat /\ Len(R) \in Nat /\ Len(E) \in Nat /\ Len(R) >= 1 /\ Len(E) >= 1
  <2>1. /\ DOMAIN R = 1..Len(R) /\ DOMAIN E = 1..Len(E) /\ Len(P) \in Nat /\ Len(R) \in Nat /\ Len(E) \in Nat
    BY <1>6
  <2> QED
    BY <1>8, <2>1
<1>11. DOMAIN Joined3(P, R, E) = 1..(Len(P) + Len(R) + Len(E))
  BY <1>6 DEF Joined3
<1>12. 2 \in 1..(Len(P) + Len(R) + Len(E))
  BY <1>10
<1> QED
  BY <1>5, <1>9, <1>11, <1>12

(* A valid model is what its DSL reads as, and nothing of it is advanced. *)
LEMMA ModelBack ==
  ASSUME NEW ir \in ModelIRs, ModelErrors(ir) = {}, \A r \in ToSet(ir.resources) : ~LikeAGroup(r)
  PROVE  LET text == [types |-> EmitDsl(ir), conditions |-> ir.conditions]
         IN ParsedIr(text) = ir /\ FullyRepresentable(text)
<1> DEFINE text == [types |-> EmitDsl(ir), conditions |-> ir.conditions]
           types == EmitDsl(ir)
           u == <<UserType>>
           G == [i \in DOMAIN ir.groups |-> GroupTypeOf(ir.groups[i])]
           R == [i \in DOMAIN ir.resources |-> ResourceTypeOf(ir.resources[i])]
           X == {UserType} \cup {GroupTypeOf(g) : g \in ToSet(ir.groups)}
                \cup {ResourceTypeOf(r) : r \in ToSet(ir.resources)}
           T == {t \in ToSet(types) : t.name # "user"}
           named == Those(types, T)
           U == {t \in ToSet(named) : IsGroupType(t) /\ ~Advanced(t)}
           V == {t \in ToSet(named) : ~IsGroupType(t)}
           gs == Those(named, U)
           rs == Those(named, V)
           group(t) == [name |-> t.name, memberTypes |-> RefsOf(t.relations[1])]
           g == [i \in DOMAIN gs |-> group(gs[i])]
           r == [i \in DOMAIN rs |-> ResourceOf(rs[i])]
<1>1. /\ ir = [groups |-> ir.groups, resources |-> ir.resources, conditions |-> ir.conditions]
      /\ ir.groups \in Seq(GroupTypes) /\ ir.resources \in Seq(ResourceTypes)
      /\ Len(ir.groups) \in Nat /\ DOMAIN ir.groups = 1..Len(ir.groups)
      /\ Len(ir.resources) \in Nat /\ DOMAIN ir.resources = 1..Len(ir.resources)
  BY DEF ModelIRs
<1>2. /\ \A i \in DOMAIN ir.groups : ir.groups[i] \in ToSet(ir.groups) /\ ir.groups[i] \in GroupTypes
      /\ \A i \in DOMAIN ir.resources : ir.resources[i] \in ToSet(ir.resources)
  BY <1>1 DEF ToSet
<1>3. ParsedIr(text) = [groups |-> g, resources |-> r, conditions |-> ir.conditions]
  BY DEF ParsedIr, Kept, Each
<1>4. types = (u \o G) \o R
  BY DEF EmitDsl, UserType
<1>5. G \in [1..Len(ir.groups) -> X] /\ R \in [1..Len(ir.resources) -> X]
  BY <1>1, <1>2
<1>6. u \in Seq(X) /\ ToSet(u) = {UserType} /\ \A i \in DOMAIN u : u[i] = UserType
  BY DEF ToSet
<1>7. UserType.name = "user" /\ UserType.relations = <<>>
  BY DEF UserType
<1>8. /\ DOMAIN G = DOMAIN ir.groups /\ DOMAIN R = DOMAIN ir.resources
      /\ \A i \in DOMAIN ir.groups : G[i] = GroupTypeOf(ir.groups[i])
      /\ \A i \in DOMAIN ir.resources : R[i] = ResourceTypeOf(ir.resources[i])
  OBVIOUS
<1> HIDE DEF u, G, R, X, group
<1>9. G \in Seq(X) /\ R \in Seq(X)
  BY <1>1, <1>5, FunctionIsList
<1>10. \A i \in DOMAIN ir.groups :
         G[i].name # "user" /\ IsGroupType(G[i]) /\ ~Advanced(G[i]) /\ group(G[i]) = ir.groups[i]
  <2> SUFFICES ASSUME NEW i \in DOMAIN ir.groups
               PROVE  G[i].name # "user" /\ IsGroupType(G[i]) /\ ~Advanced(G[i]) /\ group(G[i]) = ir.groups[i]
    OBVIOUS
  <2> DEFINE x == ir.groups[i]
             t == G[i]
  <2>1. x \in GroupTypes /\ x.memberTypes # <<>> /\ x.name # "user"
    <3>1. x \in ToSet(ir.groups) /\ x \in GroupTypes
      BY <1>2
    <3> HIDE DEF x
    <3> QED
      BY <3>1, ValidRefs, NoSubjectErrors, ValidNames, NameSetIs
  <2>2. t = GroupTypeOf(x)
    BY <1>8
  <2> HIDE DEF x, t
  <2>3. t.name = x.name /\ IsGroupType(t) /\ Subjects(t.relations[1]) /\ group(t) = x
    BY <2>1, <2>2, GroupBack DEF group
  <2>4. ~Advanced(t)
    BY <2>1, <2>3 DEF Advanced
  <2> QED
    BY <2>1, <2>3, <2>4 DEF x, t
<1>11. \A i \in DOMAIN ir.resources :
         R[i].name # "user" /\ ~IsGroupType(R[i]) /\ ~Advanced(R[i]) /\ ResourceOf(R[i]) = ir.resources[i]
  <2> SUFFICES ASSUME NEW i \in DOMAIN ir.resources
               PROVE  R[i].name # "user" /\ ~IsGroupType(R[i]) /\ ~Advanced(R[i]) /\ ResourceOf(R[i]) = ir.resources[i]
    OBVIOUS
  <2> DEFINE x == ir.resources[i]
             t == R[i]
  <2>1. Readable(x) /\ ~LikeAGroup(x) /\ x.name # "user"
    <3>1. x \in ToSet(ir.resources)
      BY <1>2
    <3> HIDE DEF x
    <3> QED
      BY <3>1, ValidIsReadable, ValidNames, NameSetIs
  <2>2. t = ResourceTypeOf(x)
    BY <1>8
  <2> HIDE DEF x, t
  <2>3. t.name = x.name
    BY <2>1, <2>2, RelationsOut DEF Readable
  <2>4. ~IsGroupType(t)
    BY <2>1, <2>2, NotAGroup
  <2>5. ResourceOf(t) = x /\ \A rel \in ToSet(t.relations) : Subjects(rel) \/ ParentTypesOnly(rel) \/ IsPermission(t, rel)
    BY <2>1, <2>2, ResourceBack
  <2>6. ~Advanced(t)
    BY <2>1, <2>3, <2>4, <2>5 DEF Advanced
  <2> QED
    BY <2>1, <2>3, <2>4, <2>5, <2>6 DEF x, t
<1> DEFINE v == G \o R
<1>12. v \in Seq(X) /\ ToSet(v) = ToSet(G) \cup ToSet(R)
  BY <1>9, ConcatSet
<1>13. types = u \o v
  <2>1. (u \o G) \o R = u \o (G \o R)
    BY ONLY <1>6, <1>9, ConcatAssociative
  <2> HIDE DEF types
  <2> QED
    BY ONLY <1>4, <2>1
<1>14. \A t \in ToSet(v) : t.name # "user" /\ ~Advanced(t)
  <2> HIDE DEF v
  <2> QED
    BY <1>8, <1>10, <1>11, <1>12 DEF ToSet
<1>15. ToSet(types) = ToSet(u) \cup ToSet(v)
  <2> HIDE DEF v, types
  <2> QED
    BY <1>6, <1>12, <1>13, ConcatSet
<1>16. named = v
  <2>1. \A i \in DOMAIN v : v[i] \in ToSet(v)
    BY DEF ToSet
  <2> HIDE DEF v, types
  <2>2. NoneIn(u, T) /\ AllIn(v, T)
    BY <1>6, <1>7, <1>14, <1>15, <2>1 DEF NoneIn, AllIn
  <2> HIDE DEF T
  <2>3. Those(u \o v, T) = v
    BY ONLY <1>6, <1>12, <2>2, ThoseLatter
  <2> QED
    BY <1>13, <2>3
<1>17. /\ \A i \in DOMAIN G : G[i] \in ToSet(v)
       /\ \A i \in DOMAIN R : R[i] \in ToSet(v)
  <2>1. /\ \A i \in DOMAIN G : G[i] \in ToSet(G)
        /\ \A i \in DOMAIN R : R[i] \in ToSet(R)
    BY DEF ToSet
  <2> HIDE DEF v
  <2> QED
    BY <1>12, <2>1
<1>18. /\ U = {t \in ToSet(v) : IsGroupType(t) /\ ~Advanced(t)}
       /\ V = {t \in ToSet(v) : ~IsGroupType(t)}
  BY <1>16
<1>19. gs = Those(G \o R, U) /\ rs = Those(G \o R, V)
  BY <1>16
<1> HIDE DEF v, types, named, T, U, V
<1>20. AllIn(G, U) /\ NoneIn(R, U) /\ NoneIn(G, V) /\ AllIn(R, V)
  BY <1>8, <1>10, <1>11, <1>17, <1>18 DEF AllIn, NoneIn
<1>21. Those(G \o R, U) = G /\ Those(G \o R, V) = R
  BY ONLY <1>9, <1>20, ThoseFormer, ThoseLatter
<1> HIDE DEF gs, rs
<1>22. g = ir.groups
  <2>1. g = [i \in DOMAIN ir.groups |-> g[i]] /\ \A i \in DOMAIN ir.groups : g[i] = ir.groups[i]
    BY <1>8, <1>10, <1>19, <1>21
  <2> HIDE DEF g
  <2> QED
    BY ONLY <1>1, <2>1, SameList
<1>23. r = ir.resources
  <2>1. r = [i \in DOMAIN ir.resources |-> r[i]] /\ \A i \in DOMAIN ir.resources : r[i] = ir.resources[i]
    BY <1>8, <1>11, <1>19, <1>21
  <2> HIDE DEF r
  <2> QED
    BY ONLY <1>1, <2>1, SameList
<1> HIDE DEF g, r
<1>24. ParsedIr(text) = ir
  BY ONLY <1>1, <1>3, <1>22, <1>23
<1>25. text.types = types
  BY DEF types
<1>26. \A t \in ToSet(text.types) : ~Advanced(t)
  <2>1. ~Advanced(UserType)
    BY <1>7 DEF Advanced
  <2> HIDE DEF text
  <2> QED
    BY <1>6, <1>14, <1>15, <1>25, <2>1
<1> HIDE DEF text
<1>27. FullyRepresentable(text)
  BY <1>24, <1>26 DEF FullyRepresentable
<1> QED
  BY <1>24, <1>27 DEF text

-----------------------------------------------------------------------------
(* The store: what every edit leaves, and every import and reset. *)
EditorInv ==
  /\ editor = [ir |-> editor.ir, readOnly |-> editor.readOnly, selected |-> editor.selected, edits |-> editor.edits]
  /\ editor.readOnly \in BOOLEAN /\ editor.edits \in 0..EditsBound
  /\ editor.ir \in ModelIRs
  /\ ~editor.readOnly => ModelSound(editor.ir)
  /\ editor.selected \in {""} \cup NameSet(editor.ir.resources)

LEMMA EditorTypeFollows == EditorInv => EditorTypeOK
BY DEF EditorInv, EditorTypeOK, ModelIRs

LEMMA ImportFollows == EditorInv => ImportRestoresTheModel
<1> SUFFICES ASSUME EditorInv PROVE ImportRestoresTheModel
  OBVIOUS
<1> DEFINE ir == editor.ir
<1>1. ir \in ModelIRs
  BY DEF EditorInv
<1> SUFFICES ASSUME ModelErrors(ir) = {}, \A r \in ToSet(ir.resources) : ~LikeAGroup(r)
             PROVE  LET text == [types |-> EmitDsl(ir), conditions |-> ir.conditions]
                    IN ParsedIr(text) = ir /\ FullyRepresentable(text)
  BY DEF ImportRestoresTheModel
<1> HIDE DEF ir
<1> QED
  BY <1>1, ModelBack

LEMMA NoOrphanFollows == EditorInv => EditsLeaveNoOrphan
<1> SUFFICES ASSUME EditorInv PROVE EditsLeaveNoOrphan
  OBVIOUS
<1>1. ~editor.readOnly => ModelErrors(editor.ir) \cap Orphaned = {}
  <2> DEFINE ir == editor.ir
  <2>1. ~editor.readOnly => ir \in ModelIRs /\ ModelSound(ir)
    BY DEF EditorInv, ModelSound
  <2> HIDE DEF ir
  <2>2. ~editor.readOnly => ModelErrors(ir) \cap Orphaned = {}
    BY <2>1, ModelSoundMeans
  <2> QED
    BY <2>2 DEF ir
<1> QED
  BY <1>1 DEF EditorInv, EditsLeaveNoOrphan

LEMMA DraftsAreSound ==
  ASSUME NEW ir \in Drafts
  PROVE  ModelSound(ir) /\ ir \in ModelIRs
BY DraftsAssumption, ModelSoundMeans

LEMMA BoundIsThere == EditsBound \in Nat
BY EditorAssumption

LEMMA OneMoreEdit ==
  ASSUME NEW n \in 0..EditsBound, n < EditsBound
  PROVE  n + 1 \in 0..EditsBound
BY BoundIsThere

LEMMA OpenedHolds ==
  ASSUME NEW ir \in ModelIRs, NEW readOnly \in BOOLEAN, ~readOnly => ModelSound(ir), editor' = Opened(ir, readOnly)
  PROVE  EditorInv'
<1>1. 0 \in 0..EditsBound
  BY BoundIsThere
<1> QED
  BY <1>1 DEF EditorInv, Opened

LEMMA EditorInitHolds == EditorInit => EditorInv
<1> SUFFICES ASSUME NEW ir \in Drafts, editor = Opened(ir, FALSE) PROVE EditorInv
  BY DEF EditorInit
<1>1. ModelSound(ir) /\ ir \in ModelIRs
  BY DraftsAreSound
<1>2. 0 \in 0..EditsBound
  BY BoundIsThere
<1> QED
  BY <1>1, <1>2 DEF EditorInv, Opened

(* An edit that keeps the model keeps the store. *)
LEMMA ApplyHolds == EditorInv /\ (\E x : Apply(x) /\ Keeps(editor.ir, x)) => EditorInv'
<1> SUFFICES ASSUME EditorInv, NEW x, Apply(x), Keeps(editor.ir, x) PROVE EditorInv'
  OBVIOUS
<1>1. ModelSound(x) /\ x \in ModelIRs
  BY DEF Keeps, ModelSound
<1>2. editor.edits + 1 \in 0..EditsBound
  <2>1. editor.edits \in 0..EditsBound /\ editor.edits < EditsBound
    BY DEF EditorInv, Apply
  <2> QED
    BY <2>1, OneMoreEdit
<1>3. editor' = [ir |-> x, readOnly |-> editor.readOnly, selected |-> editor.selected, edits |-> editor.edits + 1]
  BY DEF EditorInv, Apply
<1>4. editor.selected \in {""} \cup NameSet(x.resources)
  BY DEF EditorInv, Keeps
<1> QED
  BY <1>1, <1>2, <1>3, <1>4 DEF EditorInv

LEMMA EditTypesHolds == EditorInv /\ EditTypes => EditorInv'
<1> SUFFICES ASSUME EditorInv, EditTypes, ModelSound(editor.ir) PROVE \E x : Apply(x) /\ Keeps(editor.ir, x)
  BY ApplyHolds DEF EditorInv, EditTypes, Apply
<1>1. CASE \E name \in NewTypes : Apply(AddResource(editor.ir, name)) \/ Apply(AddGroup(editor.ir, name))
  BY <1>1, AddResourceKeeps, AddGroupKeeps
<1>2. CASE \E child, parent \in NamesOfTypes(editor.ir) : Apply(ConnectParent(editor.ir, child, parent))
  BY <1>2, ConnectParentKeeps
<1>3. CASE \E r \in ToSet(editor.ir.resources) : \E p \in ToSet(r.parents) : \E t \in ToSet(p.parentTypes) :
             Apply(DisconnectParent(editor.ir, r.name, p.relationName, t))
  BY <1>3, DisconnectParentKeeps
<1> QED
  BY <1>1, <1>2, <1>3 DEF EditTypes

LEMMA DeleteTypeHolds == EditorInv /\ DeleteType => EditorInv'
<1> SUFFICES ASSUME EditorInv, ~editor.readOnly, editor.edits < EditsBound, NEW name \in NamesOfTypes(editor.ir),
                    editor' = [editor EXCEPT !.ir = RemoveType(@, name), !.edits = @ + 1,
                                             !.selected = IF @ = name THEN "" ELSE @]
             PROVE  EditorInv'
  BY DEF DeleteType
<1> DEFINE x == RemoveType(editor.ir, name)
           chosen == IF editor.selected = name THEN "" ELSE editor.selected
<1>1. ModelSound(x) /\ NameSet(x.resources) = NameSet(editor.ir.resources) \ {name}
  BY RemoveTypeSound DEF EditorInv
<1>2. editor' = [ir |-> x, readOnly |-> editor.readOnly, selected |-> chosen, edits |-> editor.edits + 1]
  BY DEF EditorInv
<1> HIDE DEF x
<1>3. x \in ModelIRs
  BY <1>1 DEF ModelSound
<1>4. editor.edits + 1 \in 0..EditsBound
  <2>1. editor.edits \in 0..EditsBound /\ editor.edits < EditsBound
    BY DEF EditorInv
  <2> QED
    BY <2>1, OneMoreEdit
<1>5. chosen \in {""} \cup NameSet(x.resources)
  BY <1>1 DEF EditorInv
<1> HIDE DEF chosen
<1>6. /\ editor'.ir = x /\ editor'.readOnly = editor.readOnly
      /\ editor'.selected = chosen /\ editor'.edits = editor.edits + 1
      /\ editor' = [ir |-> editor'.ir, readOnly |-> editor'.readOnly, selected |-> editor'.selected,
                    edits |-> editor'.edits]
  BY ONLY <1>2
<1>7. editor.readOnly \in BOOLEAN
  BY DEF EditorInv
<1> QED
  BY ONLY <1>1, <1>3, <1>4, <1>5, <1>6, <1>7 DEF EditorInv

LEMMA SelectTypeHolds == EditorInv /\ SelectType => EditorInv'
<1> SUFFICES ASSUME EditorInv, NEW name \in NameSet(editor.ir.resources) \cup {""},
                    editor' = [editor EXCEPT !.selected = name]
             PROVE  EditorInv'
  BY DEF SelectType
<1>1. editor' = [ir |-> editor.ir, readOnly |-> editor.readOnly, selected |-> name, edits |-> editor.edits]
  BY DEF EditorInv
<1> QED
  BY <1>1 DEF EditorInv

LEMMA EditRolesKeep ==
  ASSUME NEW ir, ModelSound(ir), NEW r \in ToSet(ir.resources), EditRoles(ir, r)
  PROVE  \E x : Apply(x) /\ Keeps(ir, x)
<1>1. CASE \E n \in NewRoles : Apply(AddRole(ir, r.name, n))
  BY <1>1, AddRoleKeeps
<1>2. ASSUME NEW role \in ToSet(r.roles), Apply(RemoveRole(ir, r.name, role.name))
      PROVE  \E x : Apply(x) /\ Keeps(ir, x)
  BY <1>2, RemoveRoleKeeps
<1>3. ASSUME NEW role \in ToSet(r.roles), EditSubjects(ir, r.name, role)
      PROVE  \E x : Apply(x) /\ Keeps(ir, x)
  BY <1>3, SubjectsKeep
<1>4. ASSUME NEW role \in ToSet(r.roles), NEW to \in NewRoles, Apply(RenameRole(ir, r.name, role.name, to))
      PROVE  \E x : Apply(x) /\ Keeps(ir, x)
  BY <1>4, RenameRoleKeeps
<1> QED
  BY <1>1, <1>2, <1>3, <1>4 DEF EditRoles

LEMMA EditPermissionsKeep ==
  ASSUME NEW ir, ModelSound(ir), NEW r \in ToSet(ir.resources), EditPermissions(ir, r)
  PROVE  \E x : Apply(x) /\ Keeps(ir, x)
<1>1. CASE \E n \in NewPermissions : Apply(AddPermission(ir, r.name, n))
  BY <1>1, AddPermissionKeeps
<1>2. ASSUME NEW p \in ToSet(r.permissions), Apply(RemovePermission(ir, r.name, p.name))
      PROVE  \E x : Apply(x) /\ Keeps(ir, x)
  BY <1>2, RemovePermissionKeeps
<1>3. ASSUME NEW p \in ToSet(r.permissions), NEW to \in NewPermissions,
             Apply(RenamePermission(ir, r.name, p.name, to))
      PROVE  \E x : Apply(x) /\ Keeps(ir, x)
  BY <1>3, RenamePermissionKeeps
<1>4. ASSUME NEW p \in ToSet(r.permissions), NEW role \in ToSet(r.roles),
             Apply(ToggleCell(ir, r.name, p.name, role.name))
      PROVE  \E x : Apply(x) /\ Keeps(ir, x)
  <2>1. role.name \in NameSet(r.roles)
    BY NamesOfItems
  <2> QED
    BY <1>4, <2>1, ToggleCellKeeps
<1>5. ASSUME NEW p \in ToSet(r.permissions), NEW rel \in ToSet(r.parents),
             Apply(ToggleInherit(ir, r.name, p.name, rel.relationName))
      PROVE  \E x : Apply(x) /\ Keeps(ir, x)
  <2>1. rel.relationName \in RelationSet(r)
    BY DEF RelationSet
  <2> QED
    BY <1>5, <2>1, ToggleInheritKeeps
<1> QED
  BY <1>1, <1>2, <1>3, <1>4, <1>5 DEF EditPermissions

LEMMA EditMatrixHolds == EditorInv /\ EditMatrix => EditorInv'
<1> SUFFICES ASSUME EditorInv, NEW r \in ToSet(editor.ir.resources),
                    EditRoles(editor.ir, r) \/ EditPermissions(editor.ir, r)
             PROVE  EditorInv'
  BY DEF EditMatrix
<1>1. ModelSound(editor.ir)
  BY DEF EditorInv, EditRoles, EditSubjects, EditPermissions, Apply
<1>2. \E x : Apply(x) /\ Keeps(editor.ir, x)
  BY <1>1, EditRolesKeep, EditPermissionsKeep
<1> QED
  BY <1>2, ApplyHolds

LEMMA EditConditionsHolds == EditorInv /\ EditConditions => EditorInv'
<1> SUFFICES ASSUME EditorInv, EditConditions, ModelSound(editor.ir) PROVE \E x : Apply(x) /\ Keeps(editor.ir, x)
  BY ApplyHolds DEF EditorInv, EditConditions, Apply
<1>1. CASE \E name \in NewConditions : Apply(AddCondition(editor.ir, name))
  BY <1>1, AddConditionKeeps
<1>2. ASSUME NEW c \in ToSet(editor.ir.conditions), NEW to \in NewConditions, Apply(RenameCondition(editor.ir, c, to))
      PROVE  \E x : Apply(x) /\ Keeps(editor.ir, x)
  BY <1>2, RenameConditionKeeps
<1>3. ASSUME NEW c \in ToSet(editor.ir.conditions), Apply(RemoveCondition(editor.ir, c))
      PROVE  \E x : Apply(x) /\ Keeps(editor.ir, x)
  BY <1>3, RemoveConditionKeeps
<1>4. ASSUME NEW c \in ToSet(editor.ir.conditions), NEW r \in ToSet(editor.ir.resources), NEW role \in ToSet(r.roles),
             NEW n \in DOMAIN role.assignableBy, NEW to \in {c, "none"},
             Apply(SetAssignmentCondition(editor.ir, r.name, role.name, n, to))
      PROVE  \E x : Apply(x) /\ Keeps(editor.ir, x)
  <2>1. to \in {"none"} \cup ToSet(editor.ir.conditions)
    OBVIOUS
  <2> QED
    BY <1>4, <2>1, SetAssignmentConditionKeeps
<1> QED
  BY <1>1, <1>2, <1>3, <1>4 DEF EditConditions

LEMMA LoadFromDslHolds == LoadFromDsl => EditorInv'
<1> SUFFICES ASSUME NEW text \in DslTexts, editor' = Opened(ParsedIr(text), ~FullyRepresentable(text))
             PROVE  EditorInv'
  BY DEF LoadFromDsl
<1> DEFINE ir == ParsedIr(text)
           readOnly == ~FullyRepresentable(text)
<1>1. ir \in ModelIRs
  BY ParsedIsModel, EditorAssumption
<1>2. ~readOnly => ModelErrors(ir) = {}
  BY DEF FullyRepresentable
<1>3. readOnly \in BOOLEAN
  BY DEF FullyRepresentable
<1>4. editor' = Opened(ir, readOnly)
  OBVIOUS
<1> HIDE DEF ir, readOnly
<1>5. ~readOnly => ModelSound(ir)
  BY <1>1, <1>2, ModelSoundMeans
<1> QED
  BY <1>1, <1>3, <1>4, <1>5, OpenedHolds

LEMMA ResetToHolds == ResetTo => EditorInv'
BY DraftsAreSound, OpenedHolds DEF ResetTo

LEMMA EditorStepHolds == EditorInv /\ [EditorNext]_editor => EditorInv'
<1>1. EditorInv /\ UNCHANGED editor => EditorInv'
  BY DEF EditorInv
<1> QED
  BY <1>1, EditTypesHolds, DeleteTypeHolds, SelectTypeHolds, EditMatrixHolds, EditConditionsHolds,
     LoadFromDslHolds, ResetToHolds DEF EditorNext

LEMMA EditorInvHolds == EditorSpec => []EditorInv
BY EditorInitHolds, EditorStepHolds, PTL DEF EditorSpec

(* The store stays what its type says: a model of three lists, a count of
   edits within its bound (apply, loadFromDsl, resetTo). *)
THEOREM EditorIsTyped == EditorSpec => []EditorTypeOK
BY EditorInvHolds, EditorTypeFollows, PTL

(* No sequence of edits, imports and resets of the web application leaves a
   reference to a group, a role, a parent type, a parent relation or a
   condition that is not there, or a type, a condition or a parent relation
   twice, and the matrix is never open on a type that is gone.  Of inherited
   permissions it says that the relation they go over is there, not that the
   parent type has a permission of that name. *)
THEOREM NoEditOrphans == EditorSpec => []EditsLeaveNoOrphan
BY EditorInvHolds, NoOrphanFollows, PTL

(* Whatever edits a user has made, and whatever text was imported before: a
   model the validation has nothing to say about, none of whose resource types
   is like a group, is what its own DSL text reads as, relation by relation
   and in its order, and the text opens editable (emitDsl, parseDslToIr). *)
THEOREM ImportsRestoreTheModel == EditorSpec => []ImportRestoresTheModel
BY EditorInvHolds, ImportFollows, PTL
=============================================================================
