----------------------------- MODULE ModelDiff ------------------------------
(***************************************************************************)
(* GET /model/diff: what changed between two published versions.  The      *)
(* changes are a set here; the code sorts them by their JSON.              *)
(***************************************************************************)
EXTENDS ModelContract

CONSTANT Stored  \* the ModelIRs of the versions

(* A version is published after it has passed the validation. *)
ASSUME StoredAssumption == \A ir \in Stored : ir \in ModelIRs /\ ModelErrors(ir) = {}

VARIABLE comparison  \* one diff request

SubjectKey(ref) == IF ref.kind = "group" THEN <<ref.group, "member">> ELSE <<"user", "none">>
SubjectKeys(refs) == {SubjectKey(ref) : ref \in ToSet(refs)}

ParentPairs(r) == UNION {{<<p.relationName, t>> : t \in ToSet(p.parentTypes)}
                           : p \in ToSet(r.parents)}

TypeNames(ir) == NameSet(ir.groups) \cup NameSet(ir.resources)

ByName(s, name) == CHOOSE x \in ToSet(s) : x.name = name

(* The lists of a role and of a permission, as sets. *)
Assignable(r, role) == SubjectKeys(ByName(r.roles, role).assignableBy)
Granting(r, permission) == ToSet(ByName(r.permissions, permission).grantedByRoles)
Inheriting(r, permission) == ToSet(ByName(r.permissions, permission).inheritFromParents)

(* A list that has changed: one change with both sides. *)
RoleChanges(name, from, to) ==
  LET both == NameSet(from.roles) \cap NameSet(to.roles)
  IN {[kind |-> "ROLE_ADDED", type |-> name, role |-> r] : r \in NameSet(to.roles) \ NameSet(from.roles)}
     \cup {[kind |-> "ROLE_REMOVED", type |-> name, role |-> r]
             : r \in NameSet(from.roles) \ NameSet(to.roles)}
     \cup {[kind |-> "ROLE_ASSIGNABLE_CHANGED", type |-> name, role |-> r,
             added |-> Assignable(to, r) \ Assignable(from, r),
             removed |-> Assignable(from, r) \ Assignable(to, r)]
             : r \in {r \in both : Assignable(from, r) # Assignable(to, r)}}

PermissionChanges(name, from, to) ==
  LET both == NameSet(from.permissions) \cap NameSet(to.permissions)
  IN {[kind |-> "PERMISSION_ADDED", type |-> name, permission |-> p]
        : p \in NameSet(to.permissions) \ NameSet(from.permissions)}
     \cup {[kind |-> "PERMISSION_REMOVED", type |-> name, permission |-> p]
             : p \in NameSet(from.permissions) \ NameSet(to.permissions)}
     \cup {[kind |-> "GRANT_CHANGED", type |-> name, permission |-> p,
             added |-> Granting(to, p) \ Granting(from, p),
             removed |-> Granting(from, p) \ Granting(to, p)]
             : p \in {p \in both : Granting(from, p) # Granting(to, p)}}
     \cup {[kind |-> "PERMISSION_INHERIT_CHANGED", type |-> name, permission |-> p,
             added |-> Inheriting(to, p) \ Inheriting(from, p),
             removed |-> Inheriting(from, p) \ Inheriting(to, p)]
             : p \in {p \in both : Inheriting(from, p) # Inheriting(to, p)}}

(* Seeded bug: only the relations are compared, not the types behind them. *)
ParentChangesByRelation(name, from, to) ==
  LET relations(r) == {p.relationName : p \in ToSet(r.parents)}
  IN {[kind |-> "PARENT_ADDED", type |-> name, pair |-> p]
        : p \in {p \in ParentPairs(to) : p[1] \notin relations(from)}}
     \cup {[kind |-> "PARENT_REMOVED", type |-> name, pair |-> p]
             : p \in {p \in ParentPairs(from) : p[1] \notin relations(to)}}

ParentChanges(name, from, to) ==
  {[kind |-> "PARENT_ADDED", type |-> name, pair |-> p] : p \in ParentPairs(to) \ ParentPairs(from)}
  \cup {[kind |-> "PARENT_REMOVED", type |-> name, pair |-> p]
          : p \in ParentPairs(from) \ ParentPairs(to)}

DiffModels(from, to) ==
  {[kind |-> "TYPE_ADDED", type |-> t] : t \in TypeNames(to) \ TypeNames(from)}
  \cup {[kind |-> "TYPE_REMOVED", type |-> t] : t \in TypeNames(from) \ TypeNames(to)}
  \cup UNION {LET fr == ByName(from.resources, name)
                  tr == ByName(to.resources, name)
              IN RoleChanges(name, fr, tr) \cup PermissionChanges(name, fr, tr)
                 \cup ParentChanges(name, fr, tr)
                : name \in NameSet(from.resources) \cap NameSet(to.resources)}

-----------------------------------------------------------------------------
DiffInit == \E from, to \in Stored :
  comparison = [at |-> "asked", from |-> from, to |-> to, changes |-> {}]

(* The two versions are rows that never change; a version that is not there
   is a 404 and changes nothing. *)
CompareVersions ==
  /\ comparison.at = "asked"
  /\ comparison' = [comparison EXCEPT !.at = "told",
                                      !.changes = DiffModels(comparison.from, comparison.to)]

DiffSpec == DiffInit /\ [][CompareVersions]_comparison

-----------------------------------------------------------------------------
(* A model as a set of facts, each with the fact it belongs to: what a
   reader of two models would compare. *)
RoleFacts(type, role) ==
  {<<"role", type, role.name>>}
  \cup {<<"subject", type, role.name, k>> : k \in SubjectKeys(role.assignableBy)}
PermissionFacts(type, p) ==
  {<<"permission", type, p.name>>}
  \cup {<<"grant", type, p.name, k>> : k \in ToSet(p.grantedByRoles)}
  \cup {<<"inherit", type, p.name, k>> : k \in ToSet(p.inheritFromParents)}
ResourceFacts(r) ==
  {<<"parent", r.name, pair>> : pair \in ParentPairs(r)}
  \cup (UNION {RoleFacts(r.name, role) : role \in ToSet(r.roles)})
  \cup (UNION {PermissionFacts(r.name, p) : p \in ToSet(r.permissions)})
Facts(ir) ==
  {<<"type", t>> : t \in TypeNames(ir)}
  \cup (UNION {ResourceFacts(r) : r \in ToSet(ir.resources)})

Owner(fact) == CASE fact[1] \in {"role", "permission", "parent"} -> <<"type", fact[2]>>
                 [] fact[1] = "subject" -> <<"role", fact[2], fact[3]>>
                 [] fact[1] \in {"grant", "inherit"} -> <<"permission", fact[2], fact[3]>>

(* The facts of one model that the other lacks, without those that came or
   went with what they belong to. *)
OnlyIn(ir, other) == {f \in Facts(ir) \ Facts(other) : f[1] = "type" \/ Owner(f) \in Facts(other)}

(* The facts a change says were added, or removed. *)
Told(changes, added) ==
  LET side(c) == IF added THEN c.added ELSE c.removed
      listed(kind) == {c \in changes : c.kind = kind}
      of(kind, other) == listed(IF added THEN kind ELSE other)
  IN {<<"type", c.type>> : c \in of("TYPE_ADDED", "TYPE_REMOVED")}
     \cup {<<"role", c.type, c.role>> : c \in of("ROLE_ADDED", "ROLE_REMOVED")}
     \cup {<<"permission", c.type, c.permission>> : c \in of("PERMISSION_ADDED", "PERMISSION_REMOVED")}
     \cup {<<"parent", c.type, c.pair>> : c \in of("PARENT_ADDED", "PARENT_REMOVED")}
     \cup (UNION {{<<"subject", c.type, c.role, k>> : k \in side(c)}
                    : c \in listed("ROLE_ASSIGNABLE_CHANGED")})
     \cup (UNION {{<<"grant", c.type, c.permission, k>> : k \in side(c)}
                    : c \in listed("GRANT_CHANGED")})
     \cup (UNION {{<<"inherit", c.type, c.permission, k>> : k \in side(c)}
                    : c \in listed("PERMISSION_INHERIT_CHANGED")})

(* A name that was a group and is a resource type, or the other way: the code
   then says nothing of the type (see the README). *)
KindKept(from, to) ==
  /\ NameSet(from.groups) \cap NameSet(to.resources) = {}
  /\ NameSet(from.resources) \cap NameSet(to.groups) = {}

(* The diff tells every difference between the two models, once and on the
   right side, and nothing else: replaying it leads from one to the other. *)
DiffTellsEveryChange ==
  comparison.at = "told" /\ KindKept(comparison.from, comparison.to) =>
    /\ Told(comparison.changes, TRUE) = OnlyIn(comparison.to, comparison.from)
    /\ Told(comparison.changes, FALSE) = OnlyIn(comparison.from, comparison.to)
=============================================================================
