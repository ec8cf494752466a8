----------------------------- MODULE TupleSync ------------------------------
(***************************************************************************)
(* The two ways tuples change: identity events that an IdP delivers to     *)
(* POST /idp/webhook/{provider}, and the grants and revokes of admins.     *)
(*                                                                         *)
(* A delivery reads the connection, then the rules, and then writes the    *)
(* tuples of the matching rules one by one, each in a call of its own that *)
(* OpenFGA validates against the newest model it holds.  What a failed     *)
(* write means is decided by ClassifyWriteError: already done, try the     *)
(* whole delivery again (502), or hopeless (counted as failed).  The IdP   *)
(* delivers an event until it gets a 2xx, and again when the 2xx is lost.  *)
(*                                                                         *)
(* The audit record of a change is handed over once OpenFGA has answered:  *)
(* other handlers may have changed the same tuple by then, and a crash in  *)
(* between loses the record.                                               *)
(***************************************************************************)
EXTENDS IdpConfig, Integers, FiniteSets

CONSTANTS
  Model,       \* authorization models
  Accepts,     \* the tuples each model allows to be written
  Event,       \* the IdP's events
  From,        \* the provider an event comes from
  Signed,      \* the secret its provider signs it with
  Applicable,  \* the templates whose event type and predicates an event meets
  Values,      \* the elements an event has in each array attribute
  Item,
  Tuple,
  Render,      \* the tuple a template gives for an event and an item, or None
  Delivery,    \* deliveries that may be in progress at one time
  Request      \* grants and revokes that may be in progress at one time

ASSUME SyncAssumption ==
  /\ None \notin Model \cup Item \cup Tuple \cup Event \cup Int
  /\ IsFiniteSet(Delivery) /\ IsFiniteSet(Request)
  /\ Accepts \in [Model -> SUBSET Tuple]
  /\ From \in [Event -> Provider]
  /\ Signed \in [Event -> Secret]
  /\ Applicable \in [Event -> SUBSET Template]
  /\ Values \in [Event -> [Attribute -> SUBSET Item]]
  /\ Render \in [Event \X Template \X (Item \cup {None}) -> Tuple \cup {None}]
  /\ \A e \in Event, t \in UsesItem : Render[<<e, t, None>>] = None

VARIABLES
  current,       \* the published model
  published,     \* every model with a model_version row
  written,       \* the models OpenFGA holds, published or orphaned
  latest,        \* the newest of them: what an unpinned write is checked by
  bound,         \* does the gateway have its client?
  up,            \* does OpenFGA answer?
  tuples,        \* the tuples in OpenFGA
  sent,          \* events the IdP has sent
  acknowledged,  \* events it has got a 2xx for
  delivery,      \* where each delivery stands
  request,       \* where each grant or revoke stands
  trail,         \* the audit records about each tuple: its writes less its
                 \* deletions, None once a change of it went unrecorded
  author         \* who changed each tuple last

modelVars == <<current, published, written, latest>>
serviceVars == <<bound, up>>
webhookVars == <<sent, acknowledged, delivery>>
tupleVars == <<tuples, trail, author>>
vars == <<configVars, modelVars, serviceVars, webhookVars, request, tupleVars>>

P == INSTANCE PublishedModel

(* A tuple a rule wants written or deleted; None when it does not render. *)
Effect == [rule : Rule, priority : Priority, op : Op, tuple : Tuple \cup {None}]

(* A change that was answered and awaits its record. *)
Change == [op : Op, tuple : Tuple]

NoDelivery == [at |-> "idle", event |-> None, todo |-> {}, made |-> None]
NoRequest == [at |-> "idle", op |-> "write", tuple |-> None, pin |-> None]

TypeOK ==
  /\ ConfigTypeOK
  /\ current \in Model \cup {None} /\ latest \in Model \cup {None}
  /\ written \subseteq Model /\ published \subseteq written
  /\ bound \in BOOLEAN /\ up \in BOOLEAN
  /\ tuples \subseteq Tuple
  /\ sent \subseteq Event /\ acknowledged \subseteq sent
  /\ delivery \in [Delivery -> [at : {"idle", "rules", "apply", "record"},
                                event : Event \cup {None}, todo : SUBSET Effect,
                                made : Change \cup {None}]]
  /\ request \in [Request -> [at : {"idle", "write", "record"}, op : Op,
                              tuple : Tuple \cup {None}, pin : Model \cup {None}]]
  /\ trail \in [Tuple -> Int \cup {None}]
  /\ author \in [Tuple -> {"idp", "admin", None}]

Init ==
  /\ ConfigInit
  /\ P!ModelInit
  /\ written = {} /\ latest = None
  /\ bound = FALSE /\ up = TRUE
  /\ tuples = {}
  /\ sent = {} /\ acknowledged = {}
  /\ delivery = [d \in Delivery |-> NoDelivery]
  /\ request = [q \in Request |-> NoRequest]
  /\ trail = [t \in Tuple |-> 0]
  /\ author = [t \in Tuple |-> None]

-----------------------------------------------------------------------------
(* The records.                                                            *)

(* The handlers that have made such a change and are about to record it. *)
DeliveriesAwaiting(op, t) ==
  {d \in Delivery : delivery[d].at = "record" /\ delivery[d].made = [op |-> op, tuple |-> t]}
RequestsAwaiting(op, t) ==
  {q \in Request : request[q].at = "record" /\ request[q].op = op /\ request[q].tuple = t}

Awaited(op, t) ==
  Cardinality(DeliveriesAwaiting(op, t)) + Cardinality(RequestsAwaiting(op, t))

(* What a record of each operation adds to the count. *)
Weight(op) == IF op = "write" THEN 1 ELSE -1

(* Recorder.Record: a goroutine of its own inserts the record, or fails to. *)
Record(op, t) ==
  \/ trail' = [trail EXCEPT ![t] = IF @ = None THEN None ELSE @ + Weight(op)]
  \/ trail' = [trail EXCEPT ![t] = None]

(* The records of these tuples' changes never come. *)
Unrecorded(T) == trail' = [t \in Tuple |-> IF t \in T THEN None ELSE trail[t]]

-----------------------------------------------------------------------------
(* What goes on around: the boot, outages of OpenFGA, publishes.           *)

BindGateway ==
  /\ ~bound /\ up
  /\ bound' = TRUE
  /\ UNCHANGED <<configVars, modelVars, up, webhookVars, request, tupleVars>>

(* The process dies with everything in progress, the records that were about
   to be handed over included, and starts again unbound. *)
Restart ==
  /\ bound
  /\ bound' = FALSE
  /\ delivery' = [d \in Delivery |-> NoDelivery]
  /\ request' = [q \in Request |-> NoRequest]
  /\ editor' = [a \in Editor |-> Idle]
  /\ Unrecorded({t \in Tuple : \E op \in Op :
                    DeliveriesAwaiting(op, t) # {} \/ RequestsAwaiting(op, t) # {}})
  /\ UNCHANGED <<connections, rules, modelVars, up, sent, acknowledged, tuples, author>>

GoesDown ==
  /\ up /\ up' = FALSE
  /\ UNCHANGED <<configVars, modelVars, bound, webhookVars, request, tupleVars>>

ComesBack ==
  /\ ~up /\ up' = TRUE
  /\ UNCHANGED <<configVars, modelVars, bound, webhookVars, request, tupleVars>>

(* A publish is a write to OpenFGA and a transaction; without the second the
   model is an orphan that OpenFGA nevertheless takes for the latest.
   Seeded bug: the transaction comes first. *)
WriteModel(m) ==
  /\ bound /\ up
  /\ m \notin written
  /\ written' = written \cup {m}
  /\ latest' = m
  /\ UNCHANGED <<configVars, current, published, serviceVars, webhookVars,
                 request, tupleVars>>

CommitModelFirst(m) ==
  /\ P!Publish(m)
  /\ UNCHANGED <<configVars, written, latest, serviceVars, webhookVars,
                 request, tupleVars>>

CommitModel(m) ==
  /\ m \in written
  /\ P!Publish(m)
  /\ UNCHANGED <<configVars, written, latest, serviceVars, webhookVars,
                 request, tupleVars>>

-----------------------------------------------------------------------------
(* Gateway.Write of one tuple, and ClassifyWriteError.                     *)

After(op, t) == IF op = "write" THEN tuples \cup {t} ELSE tuples \ {t}

(* OpenFGA checks a write against the model m, then against the tuples. *)
Verdict(op, t, m) ==
  IF op = "write" /\ (m = None \/ t \notin Accepts[m]) THEN "invalid_tuple"
  ELSE IF op = "write" /\ t \in tuples THEN "already_exists"
  ELSE IF op = "delete" /\ t \notin tuples THEN "does_not_exist"
  ELSE "ok"

Answer(op, t, m) ==
  IF ~bound THEN "not_bootstrapped"
  ELSE IF ~up THEN "unreachable"
  ELSE Verdict(op, t, m)

Absorbed(op, answer) ==
  <<op, answer>> \in {<<"write", "already_exists">>, <<"delete", "does_not_exist">>}

(* 5xx, 429 and network errors.
   Seeded bugs: only errors with a status count; a tuple that the model
   refuses counts as well. *)
TransientByStatus(answer) == FALSE
TransientOrInvalid(answer) == answer \in {"unreachable", "invalid_tuple"}

Transient(answer) == answer = "unreachable"

Hopeless(op, answer) ==
  answer # "ok" /\ ~Absorbed(op, answer) /\ ~Transient(answer)

(* The tuples when a call fails on the way: the effect may have happened. *)
Ambiguous(op, t, m) ==
  {tuples} \cup IF bound /\ Verdict(op, t, m) = "ok" THEN {After(op, t)} ELSE {}

ChangedBy(who, t) ==
  author' = IF tuples' = tuples THEN author ELSE [author EXCEPT ![t] = who]

(* A call that failed on the way is not recorded, whatever it did. *)
MayHaveChanged(who, op, t, m) ==
  /\ tuples' \in Ambiguous(op, t, m)
  /\ ChangedBy(who, t)
  /\ Unrecorded(IF tuples' = tuples THEN {} ELSE {t})

-----------------------------------------------------------------------------
(* The webhook.                                                            *)

Send(e) ==
  /\ e \notin sent
  /\ sent' = sent \cup {e}
  /\ UNCHANGED <<configVars, modelVars, serviceVars, acknowledged, delivery,
                 request, tupleVars>>

(* The connection is known, enabled, its preset is in the registry and the
   signature is right.  Otherwise the answer is not a 2xx and nothing changes. *)
Admits(c, e) ==
  /\ connections[c].provider = From[e]
  /\ connections[c].enabled
  /\ PresetOf(connections[c]) \in Preset
  /\ connections[c].secret = Signed[e]

Deliver(d, e) ==
  /\ e \in sent
  /\ delivery[d].at = "idle"
  /\ \E c \in Connected : Admits(c, e)
  /\ delivery' = [delivery EXCEPT ![d] =
                    [at |-> "rules", event |-> e, todo |-> {}, made |-> None]]
  /\ UNCHANGED <<configVars, modelVars, serviceVars, sent, acknowledged,
                 request, tupleVars>>

(* GetRulesByProvider joins rules and connections. *)
RulesOf(p) ==
  {r \in Stored : /\ rules[r].connection \in Connected
                  /\ connections[rules[r].connection].provider = p}

(* fanOutItems: one item per element, or none to bind. *)
Items(e, r) ==
  IF rules[r].fanOut = None THEN {None}
  ELSE IF rules[r].fanOut = Blank THEN {}
  ELSE Values[e][rules[r].fanOut]

EffectsOf(e) ==
  UNION {{[rule |-> r, priority |-> rules[r].priority, op |-> rules[r].op,
           tuple |-> Render[<<e, rules[r].template, i>>]] : i \in Items(e, r)} :
         r \in {s \in RulesOf(From[e]) : rules[s].template \in Applicable[e]}}

LoadRules(d) ==
  /\ delivery[d].at = "rules"
  /\ delivery' = [delivery EXCEPT ![d].at = "apply",
                                  ![d].todo = EffectsOf(delivery[d].event)]
  /\ UNCHANGED <<configVars, modelVars, serviceVars, sent, acknowledged,
                 request, tupleVars>>

(* The effects of the lowest priority are next. *)
Due(d) ==
  {k \in delivery[d].todo : \A j \in delivery[d].todo : k.priority <= j.priority}

Drop(d, k) == delivery' = [delivery EXCEPT ![d].todo = @ \ {k}]

Abandon(d) == delivery' = [delivery EXCEPT ![d] = NoDelivery]

RenderFails(d, k) ==
  /\ k.tuple = None
  /\ Drop(d, k)
  /\ UNCHANGED <<configVars, modelVars, serviceVars, sent, acknowledged,
                 request, tupleVars>>

(* The effect is done with, and its change waits for its record. *)
Made(d, k) ==
  delivery' = [delivery EXCEPT ![d].at = "record", ![d].todo = @ \ {k},
                               ![d].made = [op |-> k.op, tuple |-> k.tuple]]

Apply(d, k) ==
  /\ k.tuple # None
  /\ Answer(k.op, k.tuple, latest) = "ok"
  /\ tuples' = After(k.op, k.tuple)
  /\ ChangedBy("idp", k.tuple)
  /\ Made(d, k)
  /\ UNCHANGED <<configVars, modelVars, serviceVars, sent, acknowledged, request, trail>>

RecordApplied(d) ==
  /\ delivery[d].at = "record"
  /\ Record(delivery[d].made.op, delivery[d].made.tuple)
  /\ delivery' = [delivery EXCEPT ![d].at = "apply", ![d].made = None]
  /\ UNCHANGED <<configVars, modelVars, serviceVars, sent, acknowledged, request,
                 tuples, author>>

(* Seeded bug: a skipped effect is recorded like an applied one. *)
SkipRecorded(d, k) ==
  /\ k.tuple # None
  /\ Absorbed(k.op, Answer(k.op, k.tuple, latest))
  /\ Made(d, k)
  /\ UNCHANGED <<configVars, modelVars, serviceVars, sent, acknowledged,
                 request, tupleVars>>

Skip(d, k) ==
  /\ k.tuple # None
  /\ Absorbed(k.op, Answer(k.op, k.tuple, latest))
  /\ Drop(d, k)
  /\ UNCHANGED <<configVars, modelVars, serviceVars, sent, acknowledged,
                 request, tupleVars>>

GiveUp(d, k) ==
  /\ k.tuple # None
  /\ Hopeless(k.op, Answer(k.op, k.tuple, latest))
  /\ Drop(d, k)
  /\ UNCHANGED <<configVars, modelVars, serviceVars, sent, acknowledged,
                 request, tupleVars>>

(* The 502 that makes the IdP deliver the event again. *)
Interrupt(d, k) ==
  /\ k.tuple # None
  /\ Transient(Answer(k.op, k.tuple, latest))
  /\ MayHaveChanged("idp", k.op, k.tuple, latest)
  /\ Abandon(d)
  /\ UNCHANGED <<configVars, modelVars, serviceVars, sent, acknowledged, request>>

Acknowledge(d) ==
  /\ delivery[d].at = "apply" /\ delivery[d].todo = {}
  /\ acknowledged' = acknowledged \cup {delivery[d].event}
  /\ Abandon(d)
  /\ UNCHANGED <<configVars, modelVars, serviceVars, sent, request, tupleVars>>

(* The rules cannot be read, or the IdP hangs up: an answered change is still
   recorded. *)
DeliveryLost(d) ==
  /\ delivery[d].at \in {"rules", "apply"}
  /\ Abandon(d)
  /\ UNCHANGED <<configVars, modelVars, serviceVars, sent, acknowledged,
                 request, tupleVars>>

Webhook(d) ==
  \/ LoadRules(d)
  \/ delivery[d].at = "apply" /\ \E k \in Due(d) :
       RenderFails(d, k) \/ Apply(d, k) \/ Skip(d, k) \/ GiveUp(d, k) \/ Interrupt(d, k)
  \/ RecordApplied(d) \/ Acknowledge(d)

-----------------------------------------------------------------------------
(* POST and DELETE /grants.                                                *)

(* ValidateGrant and ValidateRevoke against the published model, which is
   pinned for the write.
   Seeded bug: only OpenFGA validates, with its latest model. *)
BeginRequestUnchecked(q, op, t) ==
  /\ request[q].at = "idle"
  /\ current # None
  /\ request' = [request EXCEPT ![q] =
       [at |-> "write", op |-> op, tuple |-> t, pin |-> latest]]
  /\ UNCHANGED <<configVars, modelVars, serviceVars, webhookVars, tupleVars>>

BeginRequest(q, op, t) ==
  /\ request[q].at = "idle"
  /\ current # None /\ t \in Accepts[current]
  /\ request' = [request EXCEPT ![q] =
       [at |-> "write", op |-> op, tuple |-> t, pin |-> current]]
  /\ UNCHANGED <<configVars, modelVars, serviceVars, webhookVars, tupleVars>>

EndRequest(q) == request' = [request EXCEPT ![q] = NoRequest]

RequestDone(q) ==
  LET r == request[q] IN
  /\ r.at = "write"
  /\ Answer(r.op, r.tuple, r.pin) = "ok"
  /\ tuples' = After(r.op, r.tuple)
  /\ ChangedBy("admin", r.tuple)
  /\ request' = [request EXCEPT ![q].at = "record"]
  /\ UNCHANGED <<configVars, modelVars, serviceVars, webhookVars, trail>>

(* 201, or 200 with deleted: true. *)
RecordRequest(q) ==
  /\ request[q].at = "record"
  /\ Record(request[q].op, request[q].tuple)
  /\ EndRequest(q)
  /\ UNCHANGED <<configVars, modelVars, serviceVars, webhookVars, tuples, author>>

(* A no-op (200), or a refusal (400): nothing changes and nothing is recorded. *)
RequestIdle(q) ==
  LET r == request[q] IN
  /\ r.at = "write"
  /\ Answer(r.op, r.tuple, r.pin) \notin {"ok", "unreachable"}
  /\ EndRequest(q)
  /\ UNCHANGED <<configVars, modelVars, serviceVars, webhookVars, tupleVars>>

(* 502. *)
RequestInterrupted(q) ==
  LET r == request[q] IN
  /\ r.at = "write"
  /\ Transient(Answer(r.op, r.tuple, r.pin))
  /\ MayHaveChanged("admin", r.op, r.tuple, r.pin)
  /\ EndRequest(q)
  /\ UNCHANGED <<configVars, modelVars, serviceVars, webhookVars>>

Grants(q) ==
  \/ \E op \in Op, t \in Tuple : BeginRequest(q, op, t)
  \/ RequestDone(q) \/ RecordRequest(q) \/ RequestIdle(q) \/ RequestInterrupted(q)

-----------------------------------------------------------------------------
Configure == ConfigStep /\ UNCHANGED <<modelVars, serviceVars, webhookVars,
                                       request, tupleVars>>

Surroundings ==
  \/ BindGateway \/ Restart \/ GoesDown \/ ComesBack
  \/ \E m \in Model : WriteModel(m) \/ CommitModel(m)

Next ==
  \/ Configure \/ Surroundings
  \/ \E e \in Event : Send(e)
  \/ \E d \in Delivery :
       Webhook(d) \/ DeliveryLost(d) \/ \E e \in Event : Deliver(d, e)
  \/ \E q \in Request : Grants(q)

Spec == Init /\ [][Next]_vars

(* OpenFGA comes back from an outage, the handler goes on, and the IdP
   delivers an event again for as long as it is not acknowledged. *)
Redeliver(e) ==
  /\ e \notin acknowledged
  /\ \E d \in Delivery : Deliver(d, e)

Fairness ==
  /\ WF_vars(ComesBack)
  /\ \A d \in Delivery : WF_vars(Webhook(d))
  /\ \A e \in Event : SF_vars(Redeliver(e))

FairSpec == Spec /\ Fairness

-----------------------------------------------------------------------------
(* Properties.                                                             *)

Holds(k) == k.op = "write" <=> k.tuple \in tuples

(* A delivery lets go of an effect and still acknowledges the event only when
   nothing is left to wait for: the tuple is as the rule wants it, the rule
   gave no tuple, or OpenFGA's model refuses it.  This is what makes a 200
   final for the IdP. *)
LetsGoOf(d, k) ==
  /\ k \in delivery[d].todo
  /\ delivery'[d].event = delivery[d].event
  /\ k \notin delivery'[d].todo

Settled(k) ==
  \/ k.tuple = None
  \/ Holds(k)'
  \/ k.op = "write" /\ (latest = None \/ k.tuple \notin Accepts[latest])

NothingIsDropped ==
  [][\A d \in Delivery : \A k \in delivery[d].todo : LetsGoOf(d, k) => Settled(k)]_vars

(* The same of a gateway that has been bound: what the code does once its boot
   is over. *)
NothingIsDroppedOnceBound ==
  [][bound => \A d \in Delivery : \A k \in delivery[d].todo : LetsGoOf(d, k) => Settled(k)]_vars

(* The audit trail accounts for every tuple: its records, with those about to
   be handed over, come to one for a tuple that is there and to none for one
   that is not.  So each change is recorded once and by the handler that made
   it, though others changed the tuple between the answer and the record, and
   redeliveries and repeated grants leave no false record.  The exception is a
   tuple one of whose changes lost its answer or its record. *)
RecordsAreChanges ==
  \A t \in Tuple : trail[t] # None =>
    trail[t] + Awaited("write", t) - Awaited("delete", t) = IF t \in tuples THEN 1 ELSE 0

(* Whatever an admin granted fits a published model, even while an orphaned
   model is OpenFGA's latest. *)
GrantsFitPublished ==
  \A t \in tuples : author[t] = "admin" => \E m \in published : t \in Accepts[m]

(* With an IdP that delivers until it gets a 2xx and finite outages, an event
   is acknowledged in the end, if its connection comes to stay. *)
EventIsAcknowledged ==
  \A e \in Event :
    <>[](\E c \in Connected : Admits(c, e)) => (e \in sent ~> e \in acknowledged)

(* A webhook delivered again does no damage: a delivery of an event that was
   acknowledged before does not bring back a tuple that the IdP has had
   deleted since. *)
RedeliveryIsHarmless ==
  [][\A d \in Delivery, t \in Tuple :
       /\ delivery[d].event \in acknowledged /\ delivery'[d] # delivery[d]
       /\ author[t] = "idp" /\ t \notin tuples
       => t \notin tuples']_vars
=============================================================================
