----------------------------- MODULE IdpConfig ------------------------------
(***************************************************************************)
(* The configuration of the IdP webhooks: connections and their mapping    *)
(* rules, edited by several admins through /idp/connections and /idp/rules.*)
(*                                                                         *)
(* A PUT on a rule reads the rule, then its connection, checks the merged  *)
(* rule, and writes only the columns its body names: three statements      *)
(* without a transaction, between which other requests run.                *)
(***************************************************************************)
EXTENDS Naturals, FiniteSets

CONSTANTS
  Connection,   \* connection ids
  Rule,         \* mapping rule ids
  Provider,     \* provider names, the {provider} of the webhook's URL
  Produces,     \* array attributes each preset of the registry produces
  Secret,       \* signing secrets
  Attribute,    \* names a rule may give as fanOut
  Template,     \* event type, predicates and tuple template of a rule
  UsesItem,     \* the templates that refer to {{item}}
  Priority,
  Editor,       \* admin requests that may be in progress at one time
  Blank,        \* the empty string, as a fanOut
  Keep,         \* a field that a PUT leaves out
  Gone,         \* where a deleted row was: ids are UUIDs and never come back
  None

Preset == DOMAIN Produces
Op == {"write", "delete"}
FanOut == Attribute \cup {Blank, None}

ConnectionRow == [provider : Provider, preset : Preset \cup {None},
                  secret : Secret, enabled : BOOLEAN]
RuleRow == [connection : Connection, template : Template, fanOut : FanOut,
            op : Op, priority : Priority]
RulePatch == [template : Template \cup {Keep}, op : Op \cup {Keep},
              fanOut : (FanOut \ {Blank}) \cup {Keep}, priority : Priority \cup {Keep}]

ASSUME IdpAssumption ==
  /\ Produces \in [Preset -> SUBSET Attribute]
  /\ UsesItem \subseteq Template
  /\ Priority \subseteq Nat
  /\ None \notin Attribute \cup Template \cup Connection \cup Rule
                 \cup Preset \cup Provider
  /\ Blank \notin Attribute \cup {None}
  /\ Keep \notin Template \cup FanOut /\ Keep \notin Op /\ Keep \notin Priority
  /\ None \notin ConnectionRow \cup RuleRow
  /\ Gone \notin ConnectionRow \cup RuleRow \cup {None}

VARIABLES
  connections,  \* the table: the row of each connection id, None before it
                \* is inserted and Gone after it is deleted
  rules,        \* the table of the rules, likewise
  editor        \* where each admin request stands, and what it has read

configVars == <<connections, rules, editor>>

Idle == [at |-> "idle"]

EditorState ==
  {Idle}
  \cup [at : {"new_rule"}, seen : ConnectionRow, row : RuleRow]
  \cup [at : {"owner"}, rule : Rule, was : RuleRow, patch : RulePatch]
  \cup [at : {"update"}, rule : Rule, patch : RulePatch, checked : BOOLEAN]

ConfigTypeOK ==
  /\ connections \in [Connection -> ConnectionRow \cup {None, Gone}]
  /\ rules \in [Rule -> RuleRow \cup {None, Gone}]
  /\ editor \in [Editor -> EditorState]

ConfigInit ==
  /\ connections = [c \in Connection |-> None]
  /\ rules = [r \in Rule |-> None]
  /\ editor = [a \in Editor |-> Idle]

Connected == {c \in Connection : connections[c] \notin {None, Gone}}
Stored == {r \in Rule : rules[r] \notin {None, Gone}}

-----------------------------------------------------------------------------
(* Connections: one statement each, after checks of the body alone.        *)

(* UNIQUE (provider) turns a second connection of a provider into a 409. *)
CreateConnection(c, row) ==
  /\ connections[c] = None
  /\ \A d \in Connected : connections[d].provider # row.provider
  /\ connections' = [connections EXCEPT ![c] = row]
  /\ UNCHANGED <<rules, editor>>

(* The columns of the patch are written; provider is not among them.  That
   the connection existed a statement earlier decides nothing more: an UPDATE
   that finds no row is the same 404. *)
UpdateConnection(c, row) ==
  /\ c \in Connected
  /\ row.provider = connections[c].provider
  /\ row.preset = None => connections[c].preset = None
  /\ connections' = [connections EXCEPT ![c] = row]
  /\ UNCHANGED <<rules, editor>>

(* ON DELETE CASCADE takes the rules along. *)
DeleteConnection(c) ==
  /\ c \in Connected
  /\ connections' = [connections EXCEPT ![c] = Gone]
  /\ rules' = [r \in Rule |->
       IF r \in Stored /\ rules[r].connection = c THEN Gone ELSE rules[r]]
  /\ UNCHANGED editor

-----------------------------------------------------------------------------
(* fanOutError: a template that refers to {{item}} needs a fanOut, a fanOut
   needs such a template, and it names an attribute the preset produces (when
   the preset, or the provider's name in its stead, is in the registry). *)

PresetOf(c) == IF c.preset # None THEN c.preset ELSE c.provider

FanOutFits(c, template, fanOut) ==
  IF fanOut \in {None, Blank}
    THEN template \notin UsesItem
    ELSE /\ template \in UsesItem
         /\ PresetOf(c) \in Preset => fanOut \in Produces[PresetOf(c)]

Merge(old, new) == IF new = Keep THEN old ELSE new

Refuse(a) ==
  /\ editor' = [editor EXCEPT ![a] = Idle]
  /\ UNCHANGED <<connections, rules>>

-----------------------------------------------------------------------------
(* createRule.                                                             *)

BeginCreateRule(a, row) ==
  /\ editor[a].at = "idle"
  /\ row.connection \in Connected
  /\ editor' = [editor EXCEPT ![a] =
       [at |-> "new_rule", seen |-> connections[row.connection], row |-> row]]
  /\ UNCHANGED <<connections, rules>>

(* The foreign key refuses a rule whose connection has gone meanwhile.
   Seeded bug: there is no foreign key. *)
CreateRuleUnowned(a, r) ==
  /\ editor[a].at = "new_rule"
  /\ FanOutFits(editor[a].seen, editor[a].row.template, editor[a].row.fanOut)
  /\ rules[r] = None
  /\ rules' = [rules EXCEPT ![r] = editor[a].row]
  /\ editor' = [editor EXCEPT ![a] = Idle]
  /\ UNCHANGED connections

CreateRule(a, r) ==
  /\ editor[a].at = "new_rule"
  /\ LET row == editor[a].row
     IN  /\ FanOutFits(editor[a].seen, row.template, row.fanOut)
         /\ row.connection \in Connected
         /\ rules[r] = None
         /\ rules' = [rules EXCEPT ![r] = row]
  /\ editor' = [editor EXCEPT ![a] = Idle]
  /\ UNCHANGED connections

CreateRuleRefused(a) ==
  /\ editor[a].at = "new_rule"
  /\ \/ ~FanOutFits(editor[a].seen, editor[a].row.template, editor[a].row.fanOut)
     \/ editor[a].row.connection \notin Connected
  /\ Refuse(a)

-----------------------------------------------------------------------------
(* updateRule and deleteRule.                                              *)

BeginUpdateRule(a, r, patch) ==
  /\ editor[a].at = "idle"
  /\ r \in Stored
  /\ editor' = [editor EXCEPT ![a] =
       [at |-> "owner", rule |-> r, was |-> rules[r], patch |-> patch]]
  /\ UNCHANGED <<connections, rules>>

MergedFits(a, c) ==
  FanOutFits(c, Merge(editor[a].was.template, editor[a].patch.template),
                Merge(editor[a].was.fanOut, editor[a].patch.fanOut))

(* The merged rule is checked against the connection; when the connection has
   gone since, it is not checked at all.
   Seeded bug: a failed read of the connection is taken for its absence. *)
CheckMergedLeniently(a) ==
  /\ editor[a].at = "owner"
  /\ editor' = [editor EXCEPT ![a] =
       [at |-> "update", rule |-> editor[a].rule, patch |-> editor[a].patch,
        checked |-> FALSE]]
  /\ UNCHANGED <<connections, rules>>

CheckMerged(a) ==
  /\ editor[a].at = "owner"
  /\ LET c == editor[a].was.connection
     IN  /\ c \in Connected => MergedFits(a, connections[c])
         /\ editor' = [editor EXCEPT ![a] =
              [at |-> "update", rule |-> editor[a].rule,
               patch |-> editor[a].patch, checked |-> c \in Connected]]
  /\ UNCHANGED <<connections, rules>>

MergedRefused(a) ==
  /\ editor[a].at = "owner"
  /\ LET c == editor[a].was.connection
     IN  c \in Connected /\ ~MergedFits(a, connections[c])
  /\ Refuse(a)

(* UPDATE of the columns the body names, whatever the row holds by now. *)
UpdateRule(a) ==
  /\ editor[a].at = "update"
  /\ LET r == editor[a].rule
     IN  /\ r \in Stored
         /\ rules' = [rules EXCEPT
              ![r].template = Merge(@, editor[a].patch.template),
              ![r].fanOut = Merge(@, editor[a].patch.fanOut),
              ![r].op = Merge(@, editor[a].patch.op),
              ![r].priority = Merge(@, editor[a].patch.priority)]
  /\ editor' = [editor EXCEPT ![a] = Idle]
  /\ UNCHANGED connections

UpdateRuleGone(a) ==
  /\ editor[a].at = "update"
  /\ editor[a].rule \notin Stored
  /\ Refuse(a)

DeleteRule(r) ==
  /\ r \in Stored
  /\ rules' = [rules EXCEPT ![r] = Gone]
  /\ UNCHANGED <<connections, editor>>

-----------------------------------------------------------------------------
ConfigStep ==
  \/ \E c \in Connection :
       \/ \E row \in ConnectionRow : CreateConnection(c, row) \/ UpdateConnection(c, row)
       \/ DeleteConnection(c)
  \/ \E a \in Editor :
       \/ \E row \in RuleRow : BeginCreateRule(a, row)
       \/ \E r \in Rule : CreateRule(a, r)
       \/ CreateRuleRefused(a)
       \/ \E r \in Rule, patch \in RulePatch : BeginUpdateRule(a, r, patch)
       \/ CheckMerged(a) \/ MergedRefused(a) \/ UpdateRule(a) \/ UpdateRuleGone(a)
  \/ \E r \in Rule : DeleteRule(r)

ConfigSpec == ConfigInit /\ [][ConfigStep]_configVars

-----------------------------------------------------------------------------
(* Properties.                                                             *)

(* Rules do not outlive their connection, so the webhook's join and the
   cascade agree: whatever creations, edits and deletions race. *)
RulesAreOwned ==
  \A r \in Stored : rules[r].connection \in Connected

(* An edit that found the connection gone skips the check of the merged rule;
   it never reaches the table. *)
UncheckedEditsAreLost ==
  \A a \in Editor :
    editor[a].at = "update" /\ ~editor[a].checked => editor[a].rule \notin Stored

(* The check of the merged rule prevents an orphaned {{item}}: no stored rule
   refers to {{item}} without a fanOut to bind it. *)
NoOrphanItem ==
  \A r \in Stored : rules[r].template \in UsesItem => rules[r].fanOut \notin {None, Blank}
=============================================================================
