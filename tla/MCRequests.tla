----------------------------- MODULE MCRequests ------------------------------
(***************************************************************************)
(* The requests that stand for themselves, one part of the API at a time:  *)
(* the parts share no state, so a behavior is one of one part, and the     *)
(* variables of the others keep a value that says nothing.                 *)
(***************************************************************************)
EXTENDS Explain, ConditionContract, ModelDiff, GrantListing, AuthTokens, AuditLog, EventMapping, ModelEditor

CONSTANTS base, branch, joint, tip, crew, asker

VARIABLE part   \* which part this behavior is about

requestVars == <<explainVars, condition, publishing, comparison, granting, listingVars,
                 tokenVars, auditVars, verifying, intake, editor, part>>

-----------------------------------------------------------------------------
(* Explain: a diamond of parents with a chain below it, a group, a tuple
   whose condition fails. *)
LinkOf(s, r, p) == [user |-> s, relation |-> r, object |-> p, holds |-> TRUE, fits |-> TRUE]
MCTuple == {LinkOf(branch, "up", base), LinkOf(joint, "up", base), LinkOf(joint, "up", branch), LinkOf(tip, "up", joint),
            LinkOf(branch, "in", tip), LinkOf(asker, "viewer", tip), LinkOf(crew, "viewer", joint), LinkOf(asker, "member", crew),
            [LinkOf(asker, "editor", branch) EXCEPT !.holds = FALSE]}
MCGrantedBy == [p \in {base, branch, joint, tip} |-> <<"editor", "viewer">>]
MCInherits == [p \in {base, branch, joint, tip} |-> IF p = tip THEN <<"in">> ELSE <<"in", "up">>]

(* Conditions: every kind of leaf, each mistake of its shape or its types,
   and groups of them two and three deep. *)
Text(s) == [str |-> s]
Doc(f) == [obj |-> f]
TimeLeaf(rhs) == Doc([kind |-> Text("time"), param |-> Text("now"), op |-> Text("lt"), rhs |-> Doc(rhs)])
ValueLeaf(p, v) == Doc([kind |-> Text("value"), param |-> Text(p), op |-> Text("lte"), value |-> v])
IpLeaf(c) == Doc([kind |-> Text("ip"), param |-> Text("from"), op |-> Text("in_cidr"), cidr |-> c])
GroupOf(op, ch) == Doc([op |-> Text(op), children |-> [arr |-> ch]])
Also(d, k, v) == Doc([i \in DOMAIN d.obj \cup {k} |-> IF i = k THEN v ELSE d.obj[i]])
AtTime == TimeLeaf([kind |-> Text("literal"), rfc3339 |-> Text("2026-01-01T00:00:00Z")])
Small == ValueLeaf("level", [num |-> 4])
MCLeaves == {AtTime, Small, IpLeaf(Text("10.0.0.0/8")), IpLeaf(Text("10.0.0.0/33")), IpLeaf([num |-> 2]),
  TimeLeaf([kind |-> Text("param"), param |-> Text("now")]), TimeLeaf([kind |-> Text("param"), param |-> Text("level")]),
  TimeLeaf([kind |-> Text("literal"), rfc3339 |-> Text("today")]), TimeLeaf([kind |-> Text("literal")]),
  ValueLeaf("level", [num |-> 3]), ValueLeaf("level", [num |-> 20]), ValueLeaf("level", Text("high")), ValueLeaf("flag", [bool |-> TRUE]),
  Also(ValueLeaf("flag", [bool |-> TRUE]), "op", Text("eq")), ValueLeaf("gone", Text("x")),
  ValueLeaf("level", [arr |-> <<>>]), Doc([kind |-> Text("geo"), param |-> Text("now")]), Text("x"),
  Also(Small, "children", [arr |-> <<AtTime>>]), Also(AtTime, "cidr", [num |-> 2]),
  Also(Small, "rhs", Doc([kind |-> Text("param"), param |-> [num |-> 2]]))}
NodesOver(inner) == inner \cup {GroupOf(op, ch) : op \in {"and", "or", "not"},
  ch \in {<<>>} \cup {<<c>> : c \in inner} \cup {<<c, d>> : c, d \in inner}}
Odd == Also(AtTime, "cidr", [num |-> 2])
Wrapped == {GroupOf(op, <<GroupOf(p, <<AtTime, Small>>)>>) : op \in {"and", "or"}, p \in {"and", "or"}}
MCConditionDocs == NodesOver(MCLeaves) \cup NodesOver(NodesOver({AtTime, Small}))
  \cup NodesOver({Small} \cup Wrapped)
  \cup {Also(Also(Also(GroupOf("and", <<Odd>>), "kind", Text(k)), "param", Text("level")), "value", [num |-> 2])
          : k \in {"time", "value"}}
MCParamLists == {<<[name |-> "now", type |-> "timestamp"], [name |-> "level", type |-> t],
   [name |-> "flag", type |-> "bool"], [name |-> "from", type |-> "ipaddress"]>> : t \in {"int", "string"}}
 \cup {<<[name |-> "now", type |-> "timestamp"], [name |-> "now", type |-> "int"]>>,
       <<[name |-> "level", type |-> "double"], [name |-> "if", type |-> "bool"]>>}

(* Models: groups that have users and groups that do not, parents, roles and
   permissions that collide, are missing or are named as OpenFGA forbids. *)
UserRef(c) == [kind |-> "user", group |-> "", condition |-> c]
GroupRef(n, c) == [kind |-> "group", group |-> n, condition |-> c]
GroupDef(n, m) == [name |-> n, memberTypes |-> m]
ParentDef(n, t) == [relationName |-> n, parentTypes |-> t]
RoleDef(n, by) == [name |-> n, assignableBy |-> by]
PermDef(n, by, i) == [name |-> n, grantedByRoles |-> by, inheritFromParents |-> i]
ResourceDef(n, p, r, e) == [name |-> n, parents |-> p, roles |-> r, permissions |-> e]
Ir(gs, rs, cs) == [groups |-> gs, resources |-> rs, conditions |-> cs]
Viewer == RoleDef("viewer", <<UserRef("none")>>)
View == PermDef("view", <<"viewer">>, <<>>)
Folder == ResourceDef("folder", <<ParentDef("up", <<"folder">>)>>, <<Viewer>>, <<View>>)
GroupLists == {<<>>, <<GroupDef("team", <<UserRef("none")>>)>>,
  <<GroupDef("team", <<GroupRef("org", "none")>>), GroupDef("org", <<GroupRef("team", "none")>>)>>,
  <<GroupDef("team", <<GroupRef("org", "none"), GroupRef("team", "none")>>), GroupDef("org", <<UserRef("night")>>)>>,
  <<GroupDef("team", <<>>)>>, <<GroupDef("doc", <<UserRef("none")>>)>>}
ParentLists == {<<>>, <<ParentDef("up", <<"folder">>)>>, <<ParentDef("up", <<"folder", "doc">>)>>,
  <<ParentDef("up", <<"folder">>), ParentDef("up", <<"doc">>)>>,
  <<ParentDef("up", <<>>)>>, <<ParentDef("define", <<"team">>)>>}
RoleLists == {<<Viewer>>, <<RoleDef("viewer", <<GroupRef("team", "none"), UserRef("night")>>)>>,
  <<Viewer, RoleDef("can_view", <<UserRef("none")>>)>>, <<RoleDef("viewer", <<>>)>>,
  <<RoleDef("up", <<UserRef("none")>>), Viewer>>}
PermissionLists == {<<>>, <<View>>, <<PermDef("view", <<>>, <<"up">>)>>,
  <<PermDef("edit", <<"viewer">>, <<"up">>), View>>, <<View, View>>, <<PermDef("view", <<"up">>, <<>>)>>}
IrsOver(gs, ps, rs, es, cs) ==
  {Ir(gl, fs \o <<ResourceDef("doc", p, r, e)>>, c)
     : gl \in gs, fs \in {<<>>, <<Folder>>}, p \in ps, r \in rs, e \in es, c \in cs}
MCIrs == IrsOver(GroupLists, ParentLists, RoleLists, PermissionLists, {<<"night">>})
  \cup IrsOver({<<>>}, {<<>>}, RoleLists, {<<View>>}, {<<>>, <<"night", "night">>, <<"night", "define">>, <<"longnight">>})
  \cup IrsOver({<<>>, <<GroupDef("longteam", <<UserRef("none")>>)>>}, {<<>>, <<ParentDef("longup", <<"doc">>)>>},
               {<<Viewer>>, <<Viewer, RoleDef("longrole", <<UserRef("none")>>)>>},
               {<<View>>, <<PermDef("longview", <<"viewer">>, <<>>)>>}, {<<>>})
MCStored == {ir \in IrsOver({<<GroupDef("team", <<UserRef("none")>>)>>, <<GroupDef("folder", <<UserRef("none")>>)>>},
     {<<>>, <<ParentDef("up", <<"folder">>)>>, <<ParentDef("up", <<"folder", "doc">>)>>,
      <<ParentDef("up", <<"folder">>), ParentDef("over", <<"doc">>)>>},
     {<<Viewer>>, <<RoleDef("viewer", <<GroupRef("team", "none"), UserRef("night")>>)>>, <<RoleDef("editor", <<UserRef("none")>>), Viewer>>},
     {<<View>>, <<PermDef("view", <<"viewer">>, <<"up">>)>>, <<PermDef("edit", <<"viewer">>, <<"up">>), View>>},
     {<<"night">>}) : ModelErrors(ir) = {}}
MCCanName == [p \in {"view", "edit", "viewer", "longview"} |-> "can_" \o p]
MCTooLong == [type |-> {"longteam"}, relation |-> {"longup", "longrole", "can_longview"}, condition |-> {"longnight"}]

(* Grants: every subject a request may name, with and without conditions. *)
Team == GroupDef("team", <<UserRef("none"), GroupRef("team", "night")>>)
MCGrantIrs == {Ir(<<Team>>, <<Folder, ResourceDef("doc", <<ParentDef("up", <<"folder">>)>>, <<Viewer, RoleDef("editor", by)>>, <<View>>)>>,
                 <<"night", "day">>)
  : by \in {<<UserRef("none")>>, <<UserRef("night"), GroupRef("team", "none")>>,
            <<UserRef("none"), UserRef("night"), GroupRef("team", "day")>>}}
With(r, k, v) == r @@ [i \in {k} |-> v]
PlainSubjects == {[type |-> t, id |-> i] : t \in {"user", "team", "folder"}, i \in {"a", "*"}}
SubjectDocs == PlainSubjects \cup {With(s, "relation", r) : s \in PlainSubjects, r \in {"member", "define", "a b"}} \cup {[type |-> "user"]}
GrantDocs == {[subject |-> s, relation |-> r, resource |-> [type |-> t, id |-> "x"]]
  : s \in SubjectDocs, r \in {"viewer", "editor", "member", "up", "can_view"}, t \in {"doc", "team", "gone"}}
EditorDocs == {[subject |-> [type |-> "user", id |-> s], relation |-> "editor", resource |-> [type |-> "doc", id |-> o]]
  : s, o \in {"a", "long"}}
MCGrantRequests == GrantDocs \cup EditorDocs \cup {[relation |-> "viewer"]}
  \cup {With(b, "condition", [name |-> c]) : b \in GrantDocs, c \in {"night", "day", "gone", "a b"}}
  \cup {With(b, "condition", [name |-> c, context |-> x]) : b \in EditorDocs, c \in {"night", "day"}, x \in {"hour", "text"}}
  \cup {With(b, "condition", [context |-> "hour"]) : b \in EditorDocs}
MCFitting == {<<"night", "hour">>}
MCOversized == {[type |-> "user", id |-> "long", relation |-> "none"], [type |-> "doc", id |-> "long"]}
Held(s, r, t, i) == [user |-> s, relation |-> r, type |-> t, id |-> i]
MCGrantable == {Held("ann", "viewer", "doc", "x"), Held("ann", "editor", "doc", "x"),
                Held("ann", "member", "team", "y"), Held("bob", "viewer", "doc", "x")}
MCListedIrs == {Ir(<<Team>>, <<ResourceDef("doc", <<>>, rs, <<>>)>>, <<>>)
  : rs \in {<<Viewer>>, <<Viewer, RoleDef("editor", <<UserRef("none")>>)>>}}
MCListings == {[by |-> "malformed"], [by |-> "resource", type |-> "doc", id |-> "x"], [by |-> "subject", user |-> "ann"],
               [by |-> "subject", user |-> "ann", type |-> "team"]}

(* The audit log: one actor, two actions that LIKE could confuse. *)
QueryOf(s) == [action |-> s, actor |-> "", from |-> <<>>, to |-> <<>>]
MCAction == {<<"a", "_">>, <<"a", "b">>}
MCQueries == {QueryOf(<<>>), [QueryOf(<<"a", "_", "*">>) EXCEPT !.to = <<1>>],
  [QueryOf(<<"a", "b">>) EXCEPT !.from = <<1>>, !.actor = "system"]}
MCLimitParams == {<<-25>>, <<9>>}

(* Signatures: the presets' specs and three of the tests', signatures of the
   right and of wrong secrets, times at both ends of the tolerance. *)
MCNumber == ("1000" :> 1000) @@ ("01000" :> 1000) @@ ("700" :> 700) @@ ("699" :> 699) @@ ("1300" :> 1300)
            @@ ("1301" :> 1301) @@ ("1300999" :> 1300999) @@ ("699999" :> 699999)
GitHub == [ZitadelSignature EXCEPT !.format = "scheme_hex", !.timestampSource = "none", !.unit = "none",
            !.payload = <<"{body}">>, !.allowMultiple = FALSE]
InMillis == [ZitadelSignature EXCEPT !.unit = "millis", !.allowMultiple = FALSE]
TimeUnsigned == [ZitadelSignature EXCEPT !.timestampSource = "separate_header", !.payload = <<"{body}">>]
MCSpecs == {ZitadelSignature, StandardSignature, GitHub, InMillis, TimeUnsigned}
SecretOf(prefixed, text, base64) == [prefixed |-> prefixed, text |-> text, base64 |-> base64]
MCSecrets == {SecretOf(FALSE, "k1", TRUE), SecretOf(TRUE, "k2", TRUE), SecretOf(TRUE, "k 3", FALSE)}
SignedPart(k, as, f) == [key |-> k, value |-> [as |-> as, of |-> Hmac(SendersKey(f.spec, f.secret), SendersText(f))], facts |-> f]
TextPart(k, text) == [key |-> k, value |-> [as |-> IF text = "" THEN "" ELSE "text", of |-> text],
                      facts |-> [spec |-> ZitadelSignature, secret |-> "nobody"]]
Signing(secrets, times) == [spec : MCSpecs, secret : secrets, id : {"i1"}, body : {"b1"}, time : times]
SigningFacts == Signing(MCSecrets \cup {NoSecret}, {"1000"})
  \cup Signing({s \in MCSecrets : s.base64}, {"1300", "1301", "700", "699", "1300999", "699999"})
FewFacts == {f \in SigningFacts : f.secret.text = "k1" /\ f.time = "1000"}
SameTime == {f \in SigningFacts : f.time = "1000" /\ (f.secret.base64 \/ f.spec.secretEncoding = "base64")}
Times == DOMAIN MCNumber \cup {"1e3", ""}
Sent(parts, t, id, b) == [signature |-> parts, timestamp |-> t, id |-> id, body |-> b]
MCDeliveries == UNION {
  {Sent(<<TextPart("t", f.time), SignedPart("v1", as, f)>>, f.time, "i1", "b1") : f \in SigningFacts, as \in {"hex", "base64", "rawbase64", "junk"}},
  {Sent(<<TextPart("t", t), SignedPart("v1", "hex", f)>>, s, "i1", "b1") : t \in Times, s \in {"", "1000"}, f \in FewFacts},
  {Sent(<<SignedPart("v1", "base64", f)>>, s, id, b) : s \in Times, id \in {"i1", "i2", ""}, b \in {"b1", "b2"}, f \in FewFacts},
  {Sent(<<SignedPart(k, "hex", f)>>, "1000", "i1", b) : k \in {"sha256", "sha1", ""}, b \in {"b1", "b2"}, f \in FewFacts},
  {Sent(<<TextPart("t", "1000"), SignedPart("v1", "hex", e), TextPart("v1", ""), SignedPart("v1", "hex", f)>>, "1000", "i1", "b1") : e, f \in SameTime},
  {Sent(<<>>, "", "", "b1"), Sent(<<TextPart("v1", "")>>, "1000", "i1", "b1"), Sent(<<TextPart("sha256", "")>>, "1000", "i1", "b1")}}

(* Bodies and rules: subjects and attributes of every JSON kind, values that
   are empty, forbidden in a tuple, or look like a placeholder. *)
JStr(s) == [kind |-> "string", text |-> s]
JObj(f) == [kind |-> "object", fields |-> f]
JArr(s) == [kind |-> "array", items |-> s]
JNull == [kind |-> "null"]
JNum == [kind |-> "number", text |-> <<"7">>]
Texts == {<<"a">>, <<"b", "-">>, <<"a", ":", "b">>, <<"{{subject}}">>, <<>>}
Granted(s, p, r) == JObj([event_type |-> JStr(<<"user.grant.added">>),
   event_payload |-> JObj([userId |-> s, projectId |-> p, roleKeys |-> r])])
MCBodies ==
  {Granted(s, p, r) : s \in {JStr(t) : t \in Texts} \cup {JNum, JNull},
     p \in {JStr(t) : t \in Texts} \cup {JNull, JArr(<<JStr(<<"a">>)>>)},
     r \in {JArr(<<>>), JArr(<<JNum, JNull, JStr(<<"b", "-">>)>>), JArr(<<JStr(<<"a">>), JArr(<<>>), JStr(<<"a", ":", "b">>)>>),
            JStr(<<"a">>), JNull}}
  \cup {[kind |-> "invalid"], JNull, JArr(<<>>), JObj([event_type |-> JNum]), JObj([event_type |-> JStr(<<"other">>)]),
        JObj([event_type |-> JStr(<<"user.grant.removed">>), event_payload |-> JArr(<<JStr(<<"a">>)>>)]),
        JObj([event_type |-> JStr(<<"user.human.added">>), aggregateID |-> JStr(<<"a">>), resourceOwner |-> JNum]),
        JObj([type |-> JStr(<<"user.updated">>), data |-> JObj([id |-> JStr(<<"a">>), orgId |-> JStr(<<"b">>)])])}
(* These with what is in them, as deep as they are. *)
ValuesIn(v) == IF v.kind = "object" THEN {v.fields[key] : key \in DOMAIN v.fields}
               ELSE IF v.kind = "array" THEN ToSet(v.items) ELSE {}
WithParts(S) == S \cup UNION {ValuesIn(v) : v \in S}
MCJsonValues == WithParts(WithParts(WithParts(MCBodies)))
TemplateOf(s, r, p) == [user |-> s, relation |-> r, object |-> p]
RuleFor(e, m, t, f, n) == [eventType |-> <<e>>, match |-> m, template |-> t, fanOut |-> f, priority |-> n]
OfSubject == <<"user", ":", "{{subject}}">>
MCRuleSets == {
  <<RuleFor("user.grant.added", <<>>, TemplateOf(OfSubject, <<"member">>, <<"project", ":", "{{project}}", "_", "{{subject}}">>), "", 2),
    RuleFor("user.grant.added", <<>>, TemplateOf(OfSubject, <<"{{item}}">>, <<"project", ":", "{{project}}">>), "roleKeys", 1)>>,
  <<RuleFor("user.grant.added", <<[field |-> <<"attributes", "project">>, equals |-> <<"a">>]>>,
            TemplateOf(<<"{{project}}", ":", "{{subject}}">>, <<"member">>, <<"team", ":", "x">>), "", 1),
    RuleFor("user.grant.added", <<[field |-> <<"subject">>, equals |-> <<"a">>]>>,
            TemplateOf(OfSubject, <<"{{roles}}">>, <<"team", ":", "{{item}}">>), "project", 1),
    RuleFor("user.grant.added", <<>>, TemplateOf(OfSubject, <<"in", "_", "{{kind}}">>, <<"team", ":", "{{item}}", "{{item}}">>), "roleKeys", 1)>>,
  <<RuleFor("user.grant.added", <<>>, TemplateOf(<<"x", ":", "{{type}}">>, <<"{{item}}">>, <<"team", ":", "{{what}}">>), "", 1),
    RuleFor("user.updated", <<>>, TemplateOf(OfSubject, <<"member">>, <<"org", ":", "{{org}}">>), "", 1)>>}
MCPlaceholder == ("{{subject}}" :> <<"subject">>) @@ ("{{project}}" :> <<"attributes", "project">>)
  @@ ("{{org}}" :> <<"attributes", "org">>) @@ ("{{item}}" :> <<"item">>) @@ ("{{roles}}" :> <<"attributes", "roleKeys">>)
  @@ ("{{type}}" :> <<"type">>) @@ ("{{kind}}" :> <<"subject.type">>) @@ ("{{what}}" :> <<"what">>)
MCNonWord == {":", " ", "-"} \cup DOMAIN MCPlaceholder

(* What ZITADEL sends, the same with another body, and a standard webhook. *)
ZitadelSecret == SecretOf(FALSE, "k1", TRUE)
StandardSecret == SecretOf(TRUE, "k2", TRUE)
ByZitadel(b) == Sent(ZitadelHeader("b1", ZitadelSecret, "1000"), "", "", b)
ByStandard == Sent(<<SignedPart("v1", "base64", [spec |-> StandardSignature, secret |-> StandardSecret,
                                                 id |-> "i1", body |-> "b1", time |-> "1000"])>>, "1000", "i1", "b1")
RowOf(enabled, preset) == <<[enabled |-> enabled, preset |-> preset]>>
Arrival(row, d, secret) == [row |-> row, delivery |-> d, secret |-> secret]
MCArrivals ==
  {Arrival(row, ByZitadel("b1"), ZitadelSecret)
     : row \in {<<>>, RowOf(TRUE, <<>>), RowOf(FALSE, <<>>), RowOf(TRUE, <<"zitadel">>), RowOf(TRUE, <<"gone">>)}}
  \cup {Arrival(RowOf(TRUE, <<"standard-webhooks">>), ByStandard, StandardSecret),
        Arrival(RowOf(TRUE, <<>>), ByZitadel("b2"), ZitadelSecret)}

(* The editor: a sample with parents, inheritance, a nested group and a
   condition, and texts with something the editor has no form for. *)
EditedTeam == GroupDef("team", <<UserRef("none"), GroupRef("team", "night")>>)
MCSample == Ir(<<EditedTeam>>,
  <<ResourceDef("folder", <<>>, <<RoleDef("viewer", <<UserRef("night"), GroupRef("team", "none")>>)>>, <<View>>),
    ResourceDef("doc", <<ParentDef("parent", <<"folder", "doc">>)>>, <<Viewer>>, <<PermDef("view", <<"viewer">>, <<"parent">>)>>)>>,
  <<"night">>)
MCDrafts == {MCSample}
TextOf(ir) == [types |-> EmitDsl(ir), conditions |-> ir.conditions]
MCDslTexts == {TextOf(MCSample),
  TextOf(Ir(<<>>, <<ResourceDef("doc", <<>>, <<RoleDef("member", <<UserRef("none")>>), Viewer>>, <<View>>)>>, <<>>)),
  TextOf(Ir(<<>>, <<ResourceDef("doc", <<ParentDef("parent", <<"doc">>)>>, <<>>, <<PermDef("view", <<>>, <<"parent">>)>>)>>, <<>>)),
  TextOf(Ir(<<>>, <<ResourceDef("doc", <<ParentDef("member", <<"doc">>)>>, <<>>, <<>>)>>, <<>>)),
  TextOf(Ir(<<>>, <<ResourceDef("doc", <<>>, <<RoleDef("viewer", <<GroupRef("gone", "none")>>)>>, <<>>)>>, <<>>))}

-----------------------------------------------------------------------------
Quietly(v, at) == v = [at |-> at]

ExplainIdle == /\ search = [NoSearch EXCEPT !.at = "told"]
               /\ tuples = {} /\ ever = {} /\ changes = 0
ListingIdle == /\ held = {} /\ places = 0 /\ steady = {} /\ seen = {}
               /\ listing = Idle([by |-> "nobody"])
TokensIdle == /\ rows = [t \in Token |-> [state |-> "none", used |-> FALSE]]
              /\ handed = {} /\ touching = {} /\ tokenLog = {}
              /\ call = [c \in Call |-> Unmade]
AuditIdle == /\ now = 0 /\ inserting = {} /\ log = {} /\ atStart = {}
             /\ reader = [at |-> "refused", shown |-> <<>>]

RequestsInit ==
  /\ part \in {"explain", "condition", "model", "diff", "grant", "listing",
               "tokens", "audit", "signature", "event", "editor"}
  /\ IF part = "explain" THEN ExplainInit ELSE ExplainIdle
  /\ IF part = "condition" THEN ConditionInit ELSE Quietly(condition, "received")
  /\ IF part = "model" THEN PublishingInit ELSE Quietly(publishing, "received")
  /\ IF part = "diff" THEN DiffInit ELSE Quietly(comparison, "asked")
  /\ IF part = "grant" THEN GrantingInit ELSE Quietly(granting, "asked")
  /\ IF part = "listing" THEN ListingInit ELSE ListingIdle
  /\ IF part = "tokens" THEN TokenInit ELSE TokensIdle
  /\ IF part = "audit" THEN AuditInit ELSE AuditIdle
  /\ IF part = "signature" THEN SignatureInit ELSE Quietly(verifying, "asked")
  /\ IF part = "event" THEN MappingInit ELSE Quietly(intake, "arrived")
  /\ IF part = "editor" THEN EditorInit ELSE editor = Opened(NoIr, TRUE)

(* A step of the part, after which the variables of the others are as before. *)
RequestsNext ==
  /\ \/ part = "explain" /\ ExplainNext
     \/ part = "condition" /\ PublishCondition
     \/ part = "model" /\ PublishIr
     \/ part = "diff" /\ CompareVersions
     \/ part = "grant" /\ AnswerGrant
     \/ part = "listing" /\ ListingNext
     \/ part = "tokens" /\ TokenNext
     \/ part = "audit" /\ AuditNext
     \/ part = "signature" /\ VerifyDelivery
     \/ part = "event" /\ MappingNext
     \/ part = "editor" /\ EditorNext
  /\ part # "explain" => UNCHANGED explainVars
  /\ part # "condition" => UNCHANGED condition
  /\ part # "model" => UNCHANGED publishing
  /\ part # "diff" => UNCHANGED comparison
  /\ part # "grant" => UNCHANGED granting
  /\ part # "listing" => UNCHANGED listingVars
  /\ part # "tokens" => UNCHANGED tokenVars
  /\ part # "audit" => UNCHANGED auditVars
  /\ part # "signature" => UNCHANGED verifying
  /\ part # "event" => UNCHANGED intake
  /\ part # "editor" => UNCHANGED editor
  /\ UNCHANGED part

RequestsSpec == RequestsInit /\ [][RequestsNext]_requestVars /\ WF_explainVars(Searching)

(* The variables of every part that has state of its own have their types. *)
RequestsTypeOK == ExplainTypeOK /\ ListingTypeOK /\ TokenTypeOK /\ AuditTypeOK /\ EditorTypeOK
=============================================================================
