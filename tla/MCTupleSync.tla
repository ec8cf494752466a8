---------------------------- MODULE MCTupleSync -----------------------------
(* Small instance of TupleSync.  One provider; an event "added" that a plain
   rule and a fan-out rule map to the tuples t1 and t2, and an event "removed"
   that a third rule maps to the deletion of t1.  The second role of "added"
   does not render.  t2 is allowed by the second model only.

   A process starts with the connection and its first three rules configured
   and the first model published earlier; admins grant and revoke t2.

   Each behaviour is in one of two scenarios: "traffic" has faults
   (restarts, outages and lost deliveries, FaultBound of them together), admin
   requests and a publish; "edits" has EditBound admin requests on the
   configuration beside the deliveries. *)
EXTENDS TupleSync, TLC

CONSTANTS FaultBound, EditBound,
  idp, k1, k2, r1, r2, r3, r4, add, each, remove, roles, role1, role2, t1, t2,
  added, removed, key, m1, m2

MCProduces == idp :> {roles}
MCFrom == [e \in Event |-> idp]
MCSigned == [e \in Event |-> key]
MCApplicable == [e \in Event |-> IF e = added THEN {add, each} ELSE {remove}]
MCValues == [e \in Event |-> roles :> IF e = added THEN {role1, role2} ELSE {}]
MCRender == [x \in Event \X Template \X (Item \cup {None}) |->
  IF x[2] = each THEN (IF x[3] = role1 THEN t2 ELSE None) ELSE t1]
MCAccepts == [m \in Model |-> IF m = m1 THEN {t1} ELSE {t1, t2}]

ConnRow(on) == [provider |-> idp, preset |-> None, secret |-> key, enabled |-> on]
RowOf(r) ==
  IF r = r1 THEN [connection |-> k1, template |-> add, fanOut |-> None,
                  op |-> "write", priority |-> 1]
  ELSE IF r = r2 THEN [connection |-> k1, template |-> each, fanOut |-> roles,
                       op |-> "write", priority |-> 2]
  ELSE IF r = r3 THEN [connection |-> k1, template |-> remove, fanOut |-> None,
                       op |-> "delete", priority |-> 1]
  ELSE [connection |-> k1, template |-> each, fanOut |-> roles,
        op |-> "write", priority |-> 1]

VARIABLES scenario, faults, edits
MCvars == <<vars, scenario, faults, edits>>

MCInit ==
  /\ connections = [k \in Connection |-> IF k = k1 THEN ConnRow(TRUE) ELSE None]
  /\ rules = [r \in Rule |-> IF r # r4 THEN RowOf(r) ELSE None]
  /\ editor = [a \in Editor |-> Idle]
  /\ current = m1 /\ published = {m1}
  /\ written = {m1} /\ latest = m1
  /\ bound = FALSE /\ up = TRUE
  /\ tuples = {}
  /\ sent = {} /\ acknowledged = {}
  /\ delivery = [d \in Delivery |-> NoDelivery]
  /\ request = [q \in Request |-> NoRequest]
  /\ trail = [t \in Tuple |-> 0]
  /\ author = [t \in Tuple |-> None]
  /\ scenario \in {"traffic", "edits"} /\ faults = 0 /\ edits = 0

(* Turn a fan-out rule into a plain one; drop its fanOut only, which is
   refused; put another fan-out template in. *)
Patch(template, fanOut) ==
  [template |-> template, fanOut |-> fanOut, op |-> Keep, priority |-> Keep]
MCPatch == {Patch(add, None), Patch(Keep, None),
            [Patch(each, Keep) EXCEPT !.priority = 1]}

Edit ==
  \/ \E k \in Connection, on \in BOOLEAN :
       CreateConnection(k, ConnRow(on)) \/ UpdateConnection(k, ConnRow(on))
  \/ \E k \in Connection : DeleteConnection(k)
  \/ \E a \in Editor :
       \/ \E f \in {roles, None} : BeginCreateRule(a, [RowOf(r4) EXCEPT !.fanOut = f])
       \/ \E r \in {r2, r4}, p \in MCPatch : BeginUpdateRule(a, r, p)
  \/ \E r \in {r1, r2, r4} : DeleteRule(r)

EditGoesOn ==
  \E a \in Editor :
    \/ \E r \in Rule : CreateRule(a, r)
    \/ CreateRuleRefused(a) \/ CheckMerged(a) \/ MergedRefused(a)
    \/ UpdateRule(a) \/ UpdateRuleGone(a)

Beside(counters) == UNCHANGED <<modelVars, serviceVars, webhookVars, request,
                                 tupleVars, scenario, counters>>
Bounds == <<scenario, faults, edits>>

MCEdit ==
  /\ scenario = "edits" /\ edits < EditBound
  /\ edits' = edits + 1
  /\ Edit /\ Beside(faults)

MCFault ==
  /\ scenario = "traffic" /\ faults < FaultBound
  /\ faults' = faults + 1
  /\ Restart \/ GoesDown \/ \E d \in Delivery : DeliveryLost(d)
  /\ UNCHANGED <<scenario, edits>>

MCPublish ==
  /\ scenario = "traffic"
  /\ \E m \in Model : WriteModel(m) \/ CommitModel(m)
  /\ UNCHANGED Bounds

MCGrants ==
  /\ scenario = "traffic"
  /\ \E q \in Request :
       \/ \E op \in Op : BeginRequest(q, op, t2)
       \/ RequestDone(q) \/ RecordRequest(q) \/ RequestIdle(q) \/ RequestInterrupted(q)
  /\ UNCHANGED Bounds

MCNext ==
  \/ MCEdit
  \/ EditGoesOn /\ Beside(<<faults, edits>>)
  \/ MCFault \/ MCPublish \/ MCGrants
  \/ (BindGateway \/ ComesBack) /\ UNCHANGED Bounds
  \/ \E e \in Event : Send(e) /\ UNCHANGED Bounds
  \/ \E d \in Delivery, e \in Event : Deliver(d, e) /\ UNCHANGED Bounds
  \/ \E d \in Delivery : Webhook(d) /\ UNCHANGED Bounds

MCSpec == MCInit /\ [][MCNext]_MCvars
MCFairSpec == MCSpec /\ Fairness
=============================================================================
