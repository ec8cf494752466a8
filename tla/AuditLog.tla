------------------------------ MODULE AuditLog ------------------------------
(***************************************************************************)
(* The audit log: records that handlers hand over and goroutines insert,   *)
(* and GET /audit, which an admin pages through from the newest record to  *)
(* the oldest with the cursor of the page before.                          *)
(*                                                                         *)
(* A record has the time its INSERT began and is seen from its commit on,  *)
(* so records become visible out of the order of their times, also behind  *)
(* a reader's cursor.  Times are in half milliseconds: even ones are whole *)
(* milliseconds, all that the column and the cursor keep.                  *)
(***************************************************************************)
EXTENDS Lists

CONSTANTS
  Action,       \* names of recorded actions, as sequences of characters
  Actor,        \* who may have acted; "" is nobody
  Queries,      \* [action : Seq(character), actor : Actor, from, to : <<>> or <<time>>]
  LimitParams,  \* limit, in tenths: <<>> when it is not a number
  TimeBound, RecordBound

ASSUME AuditAssumption ==
  /\ TimeBound \in Nat /\ RecordBound \in Nat
  /\ \A a \in Action \cup {q.action : q \in Queries} : a \in Seq(ToSet(a))
  /\ \A q \in Queries : \A t \in {q.from, q.to} : t = <<>> \/ t[1] \in Int
  /\ \A p \in LimitParams : p = <<>> \/ p[1] \in Int

VARIABLES
  now,         \* the database's clock
  inserting,   \* records whose INSERT has begun
  log,         \* audit_log, committed
  reader,      \* one admin paging
  atStart      \* the log when the first page was asked for

auditVars == <<now, inserting, log, reader, atStart>>

Ids == 1..RecordBound   \* uuids: in no order with time
Record == [id : Ids, at : 0..(TimeBound + 1), action : Action, actor : (Actor \ {""}) \cup {"system"}]

(* The column occurred_at keeps milliseconds, rounded.
   Seeded bug: it keeps what the clock gives. *)
StoredAtFull(t) == t
StoredAt(t) == 2 * ((t + 1) \div 2)

AuditTypeOK ==
  /\ now \in 0..TimeBound
  /\ inserting \subseteq Record /\ log \subseteq Record /\ atStart \subseteq log
  /\ \A r, s \in inserting \cup log : r.id = s.id => r = s
  /\ inserting \cap log = {}
  /\ \A r \in inserting \cup log : r.at <= now + 1
  /\ reader.at \in {"asks", "pages", "done", "refused"}
  /\ \A i \in DOMAIN reader.shown : reader.shown[i] \in log

AuditInit ==
  /\ now = 0 /\ inserting = {} /\ log = {} /\ atStart = {}
  /\ \E q \in Queries, n \in LimitParams :
       reader = [at |-> "asks", query |-> q, limit |-> n, cursor |-> <<>>, shown |-> <<>>]

-----------------------------------------------------------------------------
ClockTicks ==
  /\ now < TimeBound
  /\ now' = now + 1
  /\ UNCHANGED <<inserting, log, reader, atStart>>

(* Record: the goroutine's INSERT takes its time when it begins. *)
BeginInsert ==
  /\ \E a \in Action, w \in Actor, i \in Ids \ {r.id : r \in inserting \cup log} :
       inserting' = inserting \cup
         {[id |-> i, at |-> StoredAt(now), action |-> a, actor |-> IF w = "" THEN "system" ELSE w]}
  /\ UNCHANGED <<now, log, reader, atStart>>

CommitInsert ==
  /\ \E r \in inserting : inserting' = inserting \ {r} /\ log' = log \cup {r}
  /\ UNCHANGED <<now, reader, atStart>>

(* Logged, and nobody is told. *)
InsertFails ==
  /\ \E r \in inserting : inserting' = inserting \ {r}
  /\ UNCHANGED <<now, log, reader, atStart>>

-----------------------------------------------------------------------------
(* Math.min(Math.max(Math.trunc(n) || 50, 1), 200) *)
Trunc(x) == IF x < 0 THEN -((-x) \div 10) ELSE x \div 10
LimitOf(p) ==
  LET n == IF p = <<>> THEN 0 ELSE Trunc(p[1])
  IN IF n = 0 THEN 50 ELSE IF n < 1 THEN 1 ELSE IF n > 200 THEN 200 ELSE n

(* Times given and times told keep whole milliseconds, cut off. *)
Millis(t) == 2 * (t \div 2)

(* The characters LIKE reads otherwise are escaped. *)
EscapeLike(s) == FlattenSeq([i \in DOMAIN s |-> IF s[i] \in {"\\", "%", "_"}
                                                THEN <<"\\", s[i]>> ELSE <<s[i]>>])

(* LIKE of the database: the places of s from where on the pattern fits, from
   its position p on. *)
Like(s, pattern) ==
  LET fits[p \in 1..(Len(pattern) + 1)] ==
        IF p > Len(pattern) THEN {Len(s) + 1}
        ELSE CASE pattern[p] = "%" -> {i \in 1..(Len(s) + 1) : \E k \in fits[p + 1] : i <= k}
               [] pattern[p] = "_" -> {i \in 1..Len(s) : i + 1 \in fits[p + 1]}
               [] pattern[p] = "\\" -> {i \in 1..Len(s) : s[i] = pattern[p + 1] /\ i + 1 \in fits[p + 2]}
               [] OTHER -> {i \in 1..Len(s) : s[i] = pattern[p] /\ i + 1 \in fits[p + 1]}
  IN 1 \in fits[1]

ActionFits(a, q) ==
  \/ q.action = <<>>
  \/ /\ q.action # <<>> /\ Last(q.action) = "*"
     /\ Like(a, EscapeLike(Front(q.action)) \o <<"%">>)
  \/ q.action # <<>> /\ Last(q.action) # "*" /\ a = q.action

Filter(r, q) ==
  /\ ActionFits(r.action, q)
  /\ q.actor \in {"", r.actor}
  /\ q.from # <<>> => r.at >= Millis(q.from[1])
  /\ q.to # <<>> => r.at <= Millis(q.to[1])

(* Keyset: the rows behind the cursor. *)
Behind(r, cursor) ==
  cursor # <<>> => \/ r.at < cursor[1].at
                   \/ (r.at = cursor[1].at /\ r.id < cursor[1].id)

Found(q, cursor) == {r \in log : Filter(r, q) /\ Behind(r, cursor)}

Newer(r, s) == r.at > s.at \/ (r.at = s.at /\ r.id > s.id)
NewestFirst(S) == {p \in S \X S : Newer(p[1], p[2])}

(* LIMIT n + 1; the surplus row tells that there is a further page. *)
ReadAuditPage ==
  /\ reader.at \in {"asks", "pages"}
  /\ LET n == LimitOf(reader.limit)
         rows == InOrder(Found(reader.query, reader.cursor), NewestFirst(log))
         page == SubSeq(rows, 1, IF Len(rows) > n THEN n ELSE Len(rows))
     IN reader' = [reader EXCEPT
          !.at = IF Len(rows) > n THEN "pages" ELSE "done",
          !.shown = @ \o page,
          !.cursor = IF Len(rows) > n
                     THEN <<[at |-> Millis(Last(page).at), id |-> Last(page).id]>> ELSE <<>>]
  /\ atStart' = IF reader.at = "asks" THEN log ELSE atStart
  /\ UNCHANGED <<now, inserting, log>>

(* A cursor or a time that does not parse (400), or the query fails (500). *)
RefuseQuery ==
  /\ reader.at \in {"asks", "pages"}
  /\ reader' = [reader EXCEPT !.at = "refused", !.cursor = <<>>]
  /\ UNCHANGED <<now, inserting, log, atStart>>

AuditNext == \/ ClockTicks \/ BeginInsert \/ CommitInsert \/ InsertFails
             \/ ReadAuditPage \/ RefuseQuery

AuditSpec == AuditInit /\ [][AuditNext]_auditVars

-----------------------------------------------------------------------------
(* What the query asks for: an action or a prefix of it, letter by letter. *)
Wanted(r, q) ==
  /\ IF q.action # <<>> /\ Last(q.action) = "*" THEN IsPrefix(Front(q.action), r.action)
     ELSE q.action \in {<<>>, r.action}
  /\ q.actor \in {"", r.actor}
  /\ q.from # <<>> => r.at >= Millis(q.from[1])
  /\ q.to # <<>> => r.at <= Millis(q.to[1])

(* The pages never overlap and never go back in time, and the admin who has
   read the last one has seen every record asked for that was committed when
   the first was read, once, whatever was inserted meanwhile. *)
PagingIsExact ==
  /\ \A i, j \in DOMAIN reader.shown : i < j => Newer(reader.shown[i], reader.shown[j])
  /\ \A i \in DOMAIN reader.shown : Wanted(reader.shown[i], reader.query)
  /\ reader.at = "done" =>
       \A r \in atStart : Wanted(r, reader.query) => r \in ToSet(reader.shown)
=============================================================================
