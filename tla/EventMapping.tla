----------------------------- MODULE EventMapping ----------------------------
(***************************************************************************)
(* From the body of a webhook to the tuples of its rules: ExtractEvent     *)
(* takes from the JSON what the preset names, matchRule chooses the rules, *)
(* renderTuple fills their templates.  TupleSync takes the result of this  *)
(* as given and models the writes.                                         *)
(*                                                                         *)
(* A text is a sequence of characters, of which only the kinds that the    *)
(* guards tell apart matter; a placeholder such as {{subject}} counts as   *)
(* one character, wherever it stands.  A JSON value has a kind: "object"   *)
(* with fields, "array" with items, or a scalar with its text (a number's  *)
(* is what JavaScript makes of it), or "null".                             *)
(***************************************************************************)
EXTENDS WebhookSignature, Lists

CONSTANTS
  Arrivals,    \* [row, delivery, secret]: the row of the provider's connection, <<>> when
               \* there is none, or <<[enabled : BOOLEAN, preset : <<>> or <<key>>]>>
  Bodies,      \* JSON bodies, with kind "invalid" for what is no JSON
  JsonValues,  \* these and all that is in them
  RuleSets,    \* sequences of rules [eventType, match, template, fanOut, priority];
               \* a fanOut of "" is none
  Placeholder, \* [placeholder -> path]
  Forbidden,   \* the characters :, #, * and white space
  NonWord      \* the characters outside [A-Za-z0-9_]

IsScalarValue(v) == v.kind \in {"string", "number", "bool"}

Template == [user : Seq(STRING), relation : Seq(STRING), object : Seq(STRING)]
Rule == [eventType : Seq(STRING), match : Seq([field : Seq(STRING), equals : Seq(STRING)]),
         template : Template, fanOut : STRING, priority : Int]

ASSUME MappingAssumption ==
  /\ Forbidden \cup DOMAIN Placeholder \subseteq NonWord
  /\ ":" \in Forbidden \ DOMAIN Placeholder
  /\ RuleSets \subseteq Seq(Rule)
  /\ Bodies \subseteq JsonValues
  /\ \A v \in JsonValues :
       /\ v.kind = "object" => \A key \in DOMAIN v.fields : v.fields[key] \in JsonValues
       /\ v.kind = "array" => v.items \in Seq(JsonValues)
       /\ IsScalarValue(v) => v.text \in Seq(STRING)

VARIABLE intake   \* one delivery

(* The presets' extraction. *)
Path(name, path) == [name |-> name, path |-> path]

ZitadelPreset ==
  [signature |-> ZitadelSignature, typePath |-> <<"event_type">>, extraction |-> <<
     [match |-> {<<"user.human.added">>, <<"user.human.selfregistered">>}, subjectType |-> <<"user">>,
      subjectPath |-> <<"aggregateID">>, attributes |-> <<Path("org", <<"resourceOwner">>)>>],
     [match |-> {<<"user.grant.added">>}, subjectType |-> <<"user">>,
      subjectPath |-> <<"event_payload", "userId">>,
      attributes |-> <<Path("project", <<"event_payload", "projectId">>),
                       Path("roleKeys", <<"event_payload", "roleKeys">>)>>],
     [match |-> {<<"user.grant.removed">>}, subjectType |-> <<"user">>,
      subjectPath |-> <<"event_payload", "userId">>,
      attributes |-> <<Path("project", <<"event_payload", "projectId">>)>>]>>]

StandardPreset ==
  [signature |-> StandardSignature, typePath |-> <<"type">>, extraction |-> <<
     [match |-> {<<"user.created">>, <<"user.updated">>}, subjectType |-> <<"user">>,
      subjectPath |-> <<"data", "id">>, attributes |-> <<Path("org", <<"data", "orgId">>)>>]>>]

PresetByKey == [key \in {"zitadel", "standard-webhooks"} |->
                  IF key = "zitadel" THEN ZitadelPreset ELSE StandardPreset]

-----------------------------------------------------------------------------
(* getPath: an object's own keys, an array's canonical indices and its length. *)
Missing == [kind |-> "missing"]
DangerousKeys == {"__proto__", "constructor", "prototype"}
ArrayIndex == [key \in {"0", "1", "2"} |-> CASE key = "0" -> 1 [] key = "1" -> 2 [] OTHER -> 3]

Descend(node, key) ==
  CASE key \in DangerousKeys -> Missing
    [] node.kind = "object" /\ key \in DOMAIN node.fields -> node.fields[key]
    [] node.kind = "array" /\ key = "length" -> [kind |-> "number", text |-> <<ToString(Len(node.items))>>]
    [] node.kind = "array" /\ key \in DOMAIN ArrayIndex /\ ArrayIndex[key] <= Len(node.items) ->
         node.items[ArrayIndex[key]]
    [] OTHER -> Missing

GetPath(body, path) ==
  LET node[n \in 0..Len(path)] == IF n = 0 THEN body ELSE Descend(node[n - 1], path[n])
  IN node[Len(path)]

NonEmptyString(v) == v.kind = "string" /\ v.text # <<>>

(* An attribute: the scalars of an array, in order, or one scalar. *)
AttributeValue(v) ==
  IF v.kind = "array"
  THEN LET kept == Kept(v.items, IsScalarValue)
       IN [array |-> TRUE, values |-> [i \in DOMAIN kept |-> kept[i].text]]
  ELSE [array |-> FALSE, values |-> <<v.text>>]

NoEvent == [type |-> <<>>]

(* ExtractEvent: the first extraction that knows the event's type.  The
   attributes that are there are a function on their names. *)
ExtractEvent(preset, body) ==
  LET type == GetPath(body, preset.typePath)
      mine == Kept(preset.extraction, LAMBDA y : type.text \in y.match)
      x == Head(mine)
      subject == GetPath(body, x.subjectPath)
      there == {i \in DOMAIN x.attributes :
                  LET v == GetPath(body, x.attributes[i].path) IN v.kind = "array" \/ IsScalarValue(v)}
      at(name) == CHOOSE i \in there : x.attributes[i].name = name
  IN IF body.kind # "object" THEN NoEvent
     ELSE IF ~NonEmptyString(type) THEN NoEvent
     ELSE IF mine = <<>> THEN NoEvent
     ELSE IF ~NonEmptyString(subject) THEN NoEvent
     ELSE [type |-> type.text, subject |-> subject.text, subjectType |-> x.subjectType,
           attributes |-> [name \in {x.attributes[i].name : i \in there} |->
                             AttributeValue(GetPath(body, x.attributes[at(name)].path))]]

AttributeNamesForEvent(preset, type) ==
  UNION {{x.attributes[i].name : i \in DOMAIN x.attributes} :
           x \in {x \in ToSet(preset.extraction) : type \in x.match}}

-----------------------------------------------------------------------------
(* scalarValue: <<value>>, or <<>> when there is none to be had.  item is
   <<>> outside a fan-out. *)
ScalarValue(ev, path, item) ==
  CASE path = <<"item">> -> item
    [] path = <<"type">> -> <<ev.type>>
    [] path \in {<<"subject">>, <<"subject.id">>} -> <<ev.subject>>
    [] path = <<"subject.type">> -> <<ev.subjectType>>
    [] path[1] = "attributes" /\ path[2] \in DOMAIN ev.attributes ->
         IF ev.attributes[path[2]].array THEN <<>> ELSE ev.attributes[path[2]].values
    [] OTHER -> <<>>

MatchRule(rule, ev) ==
  /\ rule.eventType = ev.type
  /\ \A m \in ToSet(rule.match) : ScalarValue(ev, m.field, <<>>) = <<m.equals>>
  /\ rule.fanOut # "" =>
       /\ rule.fanOut \in DOMAIN ev.attributes
       /\ ev.attributes[rule.fanOut].array /\ ev.attributes[rule.fanOut].values # <<>>

IsPlaceholder(c) == c \in DOMAIN Placeholder
AllWord(s) == s # <<>> /\ ToSet(s) \cap NonWord = {}

(* ^[A-Za-z0-9_]+: *)
PrefixLength(s) == LET colons == {i \in DOMAIN s : s[i] = ":"}
                   IN IF colons = {} THEN 0 ELSE CHOOSE i \in colons : \A j \in colons : i <= j
LiteralTypePrefix(s) == PrefixLength(s) > 1 /\ AllWord(SubSeq(s, 1, PrefixLength(s) - 1))
IsTypeId(s) ==
  /\ LiteralTypePrefix(s)
  /\ LET id == SubSeq(s, PrefixLength(s) + 1, Len(s)) IN id # <<>> /\ ToSet(id) \cap Forbidden = {}

FillIn(s, c, value) == FlattenSeq([i \in DOMAIN s |-> IF s[i] = c THEN value ELSE <<s[i]>>])

(* Every placeholder of the template in turn, each in all that has become of
   the text so far: <<text>>, or <<>> for an error. *)
FillNext(done, c, value) ==
  IF done = <<>> \/ value = <<>> THEN <<>>
  ELSE IF ToSet(value[1]) \cap Forbidden # {} THEN <<>> ELSE <<FillIn(done[1], c, value[1])>>
Substitute(s, ev, item) ==
  LET marks == Kept(s, IsPlaceholder)
      done[n \in 0..Len(marks)] ==
        IF n = 0 THEN <<s>>
        ELSE FillNext(done[n - 1], marks[n], ScalarValue(ev, Placeholder[marks[n]], item))
  IN done[Len(marks)]

(* renderTuple: <<tuple>>, or <<>> for an error.
   Seeded bug: a template need not begin with a literal type. *)
RenderWithoutLiteral(t, ev, item) ==
  LET u == Substitute(t.user, ev, item)
      r == Substitute(t.relation, ev, item)
      o == Substitute(t.object, ev, item)
  IN IF <<>> \in {u, r, o} THEN <<>>
     ELSE IF IsTypeId(u[1]) /\ IsTypeId(o[1]) /\ AllWord(r[1])
          THEN <<[user |-> u[1], relation |-> r[1], object |-> o[1]]>> ELSE <<>>

RenderTuple(t, ev, item) ==
  LET u == Substitute(t.user, ev, item)
      r == Substitute(t.relation, ev, item)
      o == Substitute(t.object, ev, item)
  IN IF ~LiteralTypePrefix(t.user) \/ ~LiteralTypePrefix(t.object) \/ <<>> \in {u, r, o} THEN <<>>
     ELSE IF IsTypeId(u[1]) /\ IsTypeId(o[1]) /\ AllWord(r[1])
          THEN <<[user |-> u[1], relation |-> r[1], object |-> o[1]]>> ELSE <<>>

FanOutItems(rule, ev) ==
  IF rule.fanOut = "" THEN <<<<>>>>
  ELSE [i \in DOMAIN ev.attributes[rule.fanOut].values |-> <<ev.attributes[rule.fanOut].values[i]>>]

(* ApplyEvents up to the writes: what the matching rules render, by priority
   and then as they were stored; [rule, item, tuple], with the rule's place
   and <<>> for a failure. *)
Sooner(rules) == {p \in (DOMAIN rules) \X (DOMAIN rules) :
  \/ rules[p[1]].priority < rules[p[2]].priority
  \/ rules[p[1]].priority = rules[p[2]].priority /\ p[1] < p[2]}
RenderedBy(rules, i, ev) ==
  LET items == FanOutItems(rules[i], ev)
  IN [k \in DOMAIN items |-> [rule |-> i, item |-> items[k],
                              tuple |-> RenderTuple(rules[i].template, ev, items[k])]]
Renderings(rules, ev) ==
  LET matching == Kept(InOrder(DOMAIN rules, Sooner(rules)), LAMBDA i : MatchRule(rules[i], ev))
  IN FlattenSeq([n \in DOMAIN matching |-> RenderedBy(rules, matching[n], ev)])

-----------------------------------------------------------------------------
MappingInit ==
  \E arrival \in Arrivals, body \in Bodies, rules \in RuleSets :
    intake = [at |-> "arrived", row |-> arrival.row, delivery |-> arrival.delivery,
              secret |-> arrival.secret, body |-> body, rules |-> rules, status |-> 0,
              event |-> NoEvent, renderings |-> <<>>]

Reply(status) == intake' = [intake EXCEPT !.at = "answered", !.status = status]

(* The connection of the provider "zitadel"; its preset, or the one its name
   stands for. *)
PresetKey == IF intake.row[1].preset = <<>> THEN "zitadel" ELSE intake.row[1].preset[1]

RejectDelivery ==
  /\ intake.at = "arrived"
  /\ \/ intake.row = <<>> /\ Reply(404)
     \/ intake.row # <<>> /\ ~intake.row[1].enabled /\ Reply(403)
     \/ /\ intake.row # <<>> /\ intake.row[1].enabled
        /\ \/ Reply(500)   \* no such preset, or the body or the rules cannot be read
           \/ PresetKey \in DOMAIN PresetByKey /\ Reply(413)    \* a body too large to be read
           \/ /\ PresetKey \in DOMAIN PresetByKey
              /\ ~Verify(PresetByKey[PresetKey].signature, intake.delivery, intake.secret)
              /\ Reply(401)
           \/ /\ PresetKey \in DOMAIN PresetByKey
              /\ Verify(PresetByKey[PresetKey].signature, intake.delivery, intake.secret)
              /\ intake.body.kind = "invalid" /\ Reply(400)

Admitted ==
  /\ intake.at = "arrived" /\ intake.row # <<>> /\ intake.row[1].enabled
  /\ PresetKey \in DOMAIN PresetByKey
  /\ Verify(PresetByKey[PresetKey].signature, intake.delivery, intake.secret)
  /\ intake.body.kind # "invalid"

IgnoreEvent ==
  /\ Admitted
  /\ ExtractEvent(PresetByKey[PresetKey], intake.body) = NoEvent
  /\ Reply(200)

RenderEvent ==
  /\ Admitted
  /\ LET ev == ExtractEvent(PresetByKey[PresetKey], intake.body)
     IN /\ ev # NoEvent
        /\ intake' = [intake EXCEPT !.at = "rendered", !.event = ev,
                                    !.renderings = Renderings(intake.rules, ev)]

MappingNext == RejectDelivery \/ IgnoreEvent \/ RenderEvent

MappingSpec == MappingInit /\ [][MappingNext]_intake

-----------------------------------------------------------------------------
(* The value an event gives a placeholder, and a template with every
   placeholder filled at once. *)
Filled(s, ev, item) ==
  FlattenSeq([i \in DOMAIN s |-> IF IsPlaceholder(s[i])
                                 THEN ScalarValue(ev, Placeholder[s[i]], item)[1] ELSE <<s[i]>>])

Plain(s, ev, item) == \A c \in ToSet(s) \cap DOMAIN Placeholder :
  ~\E x \in ToSet(ScalarValue(ev, Placeholder[c], item)[1]) : IsPlaceholder(x)

TypeOf(s) == SubSeq(s, 1, PrefixLength(s))

(* What a rendered tuple says is what its rule says of the event: the types
   of its user and its object are those the rule's author wrote, none of its
   parts has a character that would make it another reference, and, unless a
   value itself looks like a placeholder, it is the template with every
   placeholder filled.  A rule with a fan-out renders one tuple, or failure,
   for every scalar of its array; a rule without it one; no event has an
   empty subject. *)
RenderedTupleSaysItsRule ==
  intake.at = "rendered" =>
    /\ intake.event.subject # <<>>
    /\ DOMAIN intake.event.attributes
         \subseteq AttributeNamesForEvent(PresetByKey[PresetKey], intake.event.type)
    /\ \A x \in ToSet(intake.renderings) : x.tuple # <<>> =>
         LET rule == intake.rules[x.rule]
             t == rule.template
             told == x.tuple[1]
             same(given, text) == Plain(given, intake.event, x.item) =>
                                    text = Filled(given, intake.event, x.item)
         IN /\ rule.eventType = intake.event.type
            /\ TypeOf(told.user) = TypeOf(t.user) /\ TypeOf(told.object) = TypeOf(t.object)
            /\ \A s \in {told.user, told.object} :
                 ToSet(SubSeq(s, PrefixLength(s) + 1, Len(s))) \cap Forbidden = {}
            /\ ToSet(told.relation) \cap NonWord = {}
            /\ same(t.user, told.user) /\ same(t.object, told.object) /\ same(t.relation, told.relation)
    /\ \A i \in DOMAIN intake.rules :
         LET rule == intake.rules[i]
             mine == {k \in DOMAIN intake.renderings : intake.renderings[k].rule = i}
         IN MatchRule(rule, intake.event) => Cardinality(mine) =
              IF rule.fanOut = "" THEN 1 ELSE Len(intake.event.attributes[rule.fanOut].values)
=============================================================================
