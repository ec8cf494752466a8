--------------------------- MODULE Requests_proofs ---------------------------
(* The requests of machines: that a revocation is final, for any number of
   tokens and calls; that the pages of the audit log are exact, for a log of
   any length and filters of any text; that a webhook is accepted exactly when
   it is authentic, and that what is rendered of it is what its rules say, for
   any body and any rules. *)
EXTENDS AuthTokens, AuditLog, EventMapping, Lists_proofs

-----------------------------------------------------------------------------
(* Service tokens.                                                         *)
(* The invariant.                                                          *)

CallRecord == [at : {"none", "arrived", "admitted", "changed", "answered", "lost"},
               header : Header, op : Operation, target : Token \cup {"malformed"},
               principal : {"none", "admin"} \cup Token,
               status : {0, 200, 201, 204, 400, 401, 403, 404, 500},
               listed : SUBSET Token, late : SUBSET Token]

(* A call that has revoked its token, and has said so or is about to. *)
Revokes(k) == k.op = "revoke" /\ (k.at = "changed" \/ k.status = 204)

Recorded(c, k, L) == [action |-> "token.revoke", token |-> k.target, call |-> c] \in L

(* What holds of a call by itself, beside the rows and the log: it has a
   status once it is answered, a principal once it is let in, it has changed
   a row that is there, what its caller had been told was revoked is so and
   has not let it in. *)
CallStands(c, k, R, L) ==
  /\ k.at \in {"none", "arrived"} => k.principal = "none"
  /\ k.status # 0 => k.at = "answered"
  /\ k.at = "changed" => k.target \in Token /\ R[k.target].state # "none"
  /\ Revokes(k) => k.target \in Token /\ R[k.target].state = "revoked"
  /\ \A t \in k.late : R[t].state = "revoked"
  /\ k.principal \notin k.late
  /\ k.op = "list" /\ k.status = 200 => k.late \subseteq k.listed
  /\ k.op = "revoke" /\ k.status = 204 => Recorded(c, k, L)

OneRevokes == \A c, d \in Call :
  Revokes(call[c]) /\ Revokes(call[d]) /\ call[c].target = call[d].target => c = d

TokenInv ==
  /\ TokenTypeOK
  /\ \A c \in Call : CallStands(c, call[c], rows, tokenLog)
  /\ OneRevokes

(* Rows only go forward: one that is there stays, one revoked stays so. *)
RowsGrow(R, S) == /\ S \in [Token -> Row]
                  /\ \A t \in Token : R[t].state # "none" => S[t].state # "none"
                  /\ \A t \in Token : R[t].state = "revoked" => S[t].state = "revoked"

(* The calls that become of calls. *)
LEMMA UnmadeIsCall == Unmade \in CallRecord
BY DEF Unmade, CallRecord, Header, Operation

LEMMA MadeIsCall ==
  ASSUME NEW h \in Header, NEW op \in Operation, NEW t \in Token \cup {"malformed"}
  PROVE  Made(h, op, t) \in CallRecord
BY DEF Made, CallRecord, ToldRevoked

LEMMA AnsweredIsCall ==
  ASSUME NEW k \in CallRecord, NEW status \in {0, 200, 201, 204, 400, 401, 403, 404, 500}
  PROVE  /\ Answered(k, status) \in CallRecord
         /\ Answered(k, status).at = "answered" /\ Answered(k, status).status = status
         /\ Answered(k, status).op = k.op /\ Answered(k, status).target = k.target
         /\ Answered(k, status).principal = k.principal /\ Answered(k, status).late = k.late
<1> DEFINE once == [k EXCEPT !.at = "answered"]
<1>1. /\ once \in CallRecord /\ once.at = "answered" /\ once.op = k.op /\ once.target = k.target
      /\ once.principal = k.principal /\ once.late = k.late
  BY DEF CallRecord
<1>2. Answered(k, status) = [once EXCEPT !.status = status]
  BY DEF Answered
<1> HIDE DEF once
<1> QED
  BY <1>1, <1>2 DEF CallRecord

LEMMA LetInIsCall ==
  ASSUME NEW k \in CallRecord, NEW who \in {"admin"} \cup Token
  PROVE  /\ LetIn(k, who) \in CallRecord
         /\ LetIn(k, who).at = "admitted" /\ LetIn(k, who).principal = who
         /\ LetIn(k, who).op = k.op /\ LetIn(k, who).status = k.status
         /\ LetIn(k, who).late = k.late
<1> DEFINE once == [k EXCEPT !.at = "admitted"]
<1>1. /\ once \in CallRecord /\ once.at = "admitted" /\ once.op = k.op
      /\ once.status = k.status /\ once.late = k.late
  BY DEF CallRecord
<1>2. LetIn(k, who) = [once EXCEPT !.principal = who]
  BY DEF LetIn
<1> HIDE DEF once
<1> QED
  BY <1>1, <1>2 DEF CallRecord

LEMMA ChangedIsCall ==
  ASSUME NEW k \in CallRecord, NEW t \in Token
  PROVE  /\ Changed(k, t) \in CallRecord
         /\ Changed(k, t).at = "changed" /\ Changed(k, t).target = t
         /\ Changed(k, t).op = k.op /\ Changed(k, t).status = k.status
         /\ Changed(k, t).principal = k.principal /\ Changed(k, t).late = k.late
<1> DEFINE once == [k EXCEPT !.at = "changed"]
<1>1. /\ once \in CallRecord /\ once.at = "changed" /\ once.op = k.op /\ once.status = k.status
      /\ once.principal = k.principal /\ once.late = k.late
  BY DEF CallRecord
<1>2. Changed(k, t) = [once EXCEPT !.target = t]
  BY DEF Changed
<1> HIDE DEF once
<1> QED
  BY <1>1, <1>2 DEF CallRecord

LEMMA TokenInitHolds == TokenInit => TokenInv
<1> SUFFICES ASSUME TokenInit PROVE TokenInv
  OBVIOUS
<1>1. \A c \in Call : call[c] = Unmade
  BY DEF TokenInit
<1>2. TokenTypeOK
  <2>1. call \in [Call -> CallRecord]
    BY UnmadeIsCall DEF TokenInit
  <2> QED
    BY <2>1 DEF TokenTypeOK, TokenInit, CallRecord
<1>3. \A c \in Call : CallStands(c, call[c], rows, tokenLog)
  BY <1>1, TokenAssumption DEF CallStands, Revokes, Unmade
<1>4. OneRevokes
  BY <1>1 DEF OneRevokes, Revokes, Unmade
<1> QED
  BY <1>2, <1>3, <1>4 DEF TokenInv

-----------------------------------------------------------------------------
(* What a step that changes one call must see to. *)
LEMMA OneCallSteps ==
  ASSUME TokenInv, NEW c \in Call, NEW k \in CallRecord, Becomes(c, k),
         RowsGrow(rows, rows'),
         handed' \subseteq {t \in Token : rows'[t].state # "none"},
         touching' \subseteq touching \cup {c},
         c \in touching' => k.principal \in Token,
         tokenLog \subseteq tokenLog',
         tokenLog' \subseteq [action : {"token.create", "token.revoke"}, token : Token, call : Call],
         CallStands(c, k, rows', tokenLog'),
         \A d \in Call \ {c} : Revokes(k) /\ Revokes(call[d]) => call[d].target # k.target
  PROVE  TokenInv'
<1>1. call \in [Call -> CallRecord] /\ touching \subseteq Call
  BY DEF TokenInv, TokenTypeOK, CallRecord
<1>2. /\ call' \in [Call -> CallRecord] /\ call'[c] = k
      /\ \A d \in Call \ {c} : call'[d] = call[d]
  BY <1>1 DEF Becomes
<1>3. TokenTypeOK'
  <2>1. touching' \subseteq {d \in Call : call'[d].principal \in Token}
    BY <1>1, <1>2 DEF TokenInv, TokenTypeOK
  <2> QED
    BY <1>2, <2>1 DEF TokenTypeOK, CallRecord, RowsGrow
<1>4. ASSUME NEW d \in Call PROVE CallStands(d, call'[d], rows', tokenLog')
  <2>1. CASE d = c
    BY <1>2, <2>1
  <2>2. CASE d # c
    <3>1. call'[d] = call[d] /\ call[d] \in CallRecord /\ CallStands(d, call[d], rows, tokenLog)
      BY <2>2, <1>1, <1>2 DEF TokenInv
    <3>2. call[d].late \subseteq Token
      BY <3>1 DEF CallRecord
    <3> QED
      BY <3>1, <3>2 DEF CallStands, Recorded, Revokes, RowsGrow
  <2> QED
    BY <2>1, <2>2
<1>5. OneRevokes'
  BY <1>2 DEF TokenInv, OneRevokes
<1> QED
  BY <1>3, <1>4, <1>5 DEF TokenInv

(* Most steps leave the rows, the tokens handed out and the log alone. *)
LEMMA OneCallMoves ==
  ASSUME TokenInv, NEW c \in Call, NEW k \in CallRecord, Becomes(c, k),
         UNCHANGED <<rows, handed, tokenLog>>,
         touching' \subseteq touching \cup {c},
         c \in touching' => k.principal \in Token,
         CallStands(c, k, rows, tokenLog),
         ~Revokes(k)
  PROVE  TokenInv'
<1>1. RowsGrow(rows, rows')
  BY DEF RowsGrow, TokenInv, TokenTypeOK
<1>2. /\ handed' \subseteq {t \in Token : rows'[t].state # "none"}
      /\ tokenLog' \subseteq [action : {"token.create", "token.revoke"}, token : Token, call : Call]
      /\ CallStands(c, k, rows', tokenLog')
  BY DEF TokenInv, TokenTypeOK
<1> QED
  BY <1>1, <1>2, OneCallSteps

(* A call that is answered with a status that says neither that a token is
   revoked nor which are. *)
LEMMA PlainAnswer ==
  ASSUME TokenInv, NEW c \in Call, NEW status \in {200, 400, 401, 403, 404, 500},
         Becomes(c, Answered(call[c], status)),
         status = 200 => call[c].op # "list",
         UNCHANGED <<rows, handed, touching, tokenLog>>
  PROVE  TokenInv'
<1>1. call[c] \in CallRecord /\ CallStands(c, call[c], rows, tokenLog)
  BY DEF TokenInv, TokenTypeOK, CallRecord
<1> DEFINE k == Answered(call[c], status)
<1>2. /\ k \in CallRecord /\ k.at = "answered" /\ k.status = status /\ k.op = call[c].op
      /\ k.principal = call[c].principal /\ k.late = call[c].late
  BY <1>1, AnsweredIsCall
<1>3. Becomes(c, k)
  OBVIOUS
<1> HIDE DEF k
<1>4. CallStands(c, k, rows, tokenLog) /\ ~Revokes(k)
  BY <1>1, <1>2 DEF CallStands, Revokes
<1>5. c \in touching' => k.principal \in Token
  BY <1>2 DEF TokenInv, TokenTypeOK
<1> QED
  BY <1>2, <1>3, <1>4, <1>5, OneCallMoves

-----------------------------------------------------------------------------
(* The steps of one call, beside the plain answers.                        *)
LEMMA CallFacts ==
  ASSUME TokenInv, NEW c \in Call
  PROVE  /\ call[c] \in CallRecord /\ CallStands(c, call[c], rows, tokenLog)
         /\ call[c].late \subseteq Token
         /\ rows \in [Token -> Row] /\ handed \subseteq {t \in Token : rows[t].state # "none"}
         /\ c \in touching => call[c].principal \in Token
         /\ tokenLog \subseteq [action : {"token.create", "token.revoke"}, token : Token, call : Call]
BY DEF TokenInv, TokenTypeOK, CallRecord

LEMMA ToldAreRevoked ==
  ASSUME TokenInv, NEW t \in ToldRevoked
  PROVE  t \in Token /\ rows[t].state = "revoked"
<1>1. PICK c \in Call : call[c].op = "revoke" /\ call[c].target = t /\ call[c].status = 204
  BY DEF ToldRevoked
<1>2. CallStands(c, call[c], rows, tokenLog)
  BY DEF TokenInv
<1> QED
  BY ONLY <1>1, <1>2 DEF CallStands, Revokes, ToldRevoked

LEMMA ArriveSteps ==
  ASSUME TokenInv, NEW c \in Call, Arrive(c)
  PROVE  TokenInv'
<1>1. PICK h \in {"admin", "malformed", "unknown"} \cup handed, op \in Operation,
           t \in Token \cup {"malformed"} : Becomes(c, Made(h, op, t))
  BY DEF Arrive
<1> DEFINE k == Made(h, op, t)
<1>2. h \in Header
  BY CallFacts DEF Header
<1>3. k \in CallRecord
  BY <1>2, MadeIsCall
<1>4. /\ k.at = "arrived" /\ k.status = 0 /\ k.principal = "none" /\ k.late = ToldRevoked
  BY DEF Made
<1>5. Becomes(c, k)
  BY <1>1
<1> HIDE DEF k
<1>6. CallStands(c, k, rows, tokenLog) /\ ~Revokes(k)
  BY <1>4, ToldAreRevoked, TokenAssumption DEF CallStands, Revokes
<1>7. c \notin touching
  BY CallFacts, TokenAssumption DEF Arrive, CallStands
<1> QED
  BY <1>3, <1>5, <1>6, <1>7, OneCallMoves DEF Arrive

LEMMA AdmitAdminSteps ==
  ASSUME TokenInv, NEW c \in Call, AdmitAdmin(c)
  PROVE  TokenInv'
<1> DEFINE k == LetIn(call[c], "admin")
<1>1. /\ k \in CallRecord /\ k.at = "admitted" /\ k.principal = "admin"
      /\ k.status = call[c].status /\ k.late = call[c].late
  BY CallFacts, LetInIsCall
<1>2. Becomes(c, k)
  BY DEF AdmitAdmin
<1> HIDE DEF k
<1>3. call[c].status = 0
  BY CallFacts DEF AdmitAdmin, CallStands
<1>4. CallStands(c, k, rows, tokenLog) /\ ~Revokes(k)
  <2>1. CallStands(c, call[c], rows, tokenLog) /\ "admin" \notin call[c].late
    BY CallFacts, TokenAssumption
  <2> QED
    BY ONLY <1>1, <1>3, <2>1 DEF CallStands, Revokes
<1>5. c \notin touching
  BY CallFacts, TokenAssumption DEF AdmitAdmin, CallStands
<1> QED
  BY <1>1, <1>2, <1>4, <1>5, OneCallMoves DEF AdmitAdmin

LEMMA AdmitServiceSteps ==
  ASSUME TokenInv, NEW c \in Call, AdmitService(c)
  PROVE  TokenInv'
<1>1. PICK t \in FindActiveByHash(call[c].header) :
        Becomes(c, IF "service" \in Allows(call[c].op) THEN LetIn(call[c], t)
                   ELSE Answered(LetIn(call[c], t), 403))
  BY DEF AdmitService
<1>2. t \in Token /\ rows[t].state = "active"
  BY DEF FindActiveByHash
<1>3. t \notin call[c].late /\ call[c].status = 0
  BY <1>2, CallFacts DEF AdmitService, CallStands
<1> DEFINE k == LetIn(call[c], t)
           r == Answered(k, 403)
<1>4. /\ k \in CallRecord /\ k.at = "admitted" /\ k.principal = t
      /\ k.status = 0 /\ k.late = call[c].late
  BY <1>2, <1>3, CallFacts, LetInIsCall
<1>5. Becomes(c, k) \/ Becomes(c, r)
  BY <1>1
<1> HIDE DEF k
<1>6. /\ r \in CallRecord /\ r.at = "answered" /\ r.status = 403
      /\ r.principal = t /\ r.late = call[c].late
  BY <1>4, AnsweredIsCall
<1> HIDE DEF r
<1>7. CallStands(c, call[c], rows, tokenLog)
  BY CallFacts
<1>8. CallStands(c, k, rows, tokenLog) /\ ~Revokes(k)
  BY ONLY <1>3, <1>4, <1>7 DEF CallStands, Revokes
<1>9. CallStands(c, r, rows, tokenLog) /\ ~Revokes(r)
  BY ONLY <1>3, <1>6, <1>7 DEF CallStands, Revokes
<1> QED
  BY <1>2, <1>4, <1>5, <1>6, <1>8, <1>9, OneCallMoves DEF AdmitService

LEMMA InsertTokenSteps ==
  ASSUME TokenInv, NEW c \in Call, InsertToken(c)
  PROVE  TokenInv'
<1>1. PICK t \in Token : /\ rows[t].state = "none"
                         /\ rows' = [rows EXCEPT ![t].state = "active"]
                         /\ Becomes(c, Changed(call[c], t))
  BY DEF InsertToken
<1> DEFINE k == Changed(call[c], t)
<1>2. /\ k \in CallRecord /\ k.at = "changed" /\ k.target = t /\ k.op = call[c].op
      /\ k.status = call[c].status /\ k.principal = call[c].principal /\ k.late = call[c].late
  BY CallFacts, ChangedIsCall
<1>3. Becomes(c, k)
  BY <1>1
<1> HIDE DEF k
<1>4. RowsGrow(rows, rows') /\ rows'[t].state = "active"
  BY <1>1, CallFacts DEF RowsGrow, Row
<1>5. k.status = 0 /\ k.op = "create"
  BY <1>2, CallFacts DEF InsertToken, Serving, CallStands
<1>6. CallStands(c, k, rows', tokenLog) /\ ~Revokes(k)
  BY <1>2, <1>4, <1>5, CallFacts DEF CallStands, Revokes, RowsGrow
<1>7. handed' \subseteq {u \in Token : rows'[u].state # "none"}
  BY <1>4, CallFacts DEF RowsGrow, InsertToken
<1>8. /\ c \in touching' => k.principal \in Token
      /\ touching' = touching /\ tokenLog' = tokenLog
  BY <1>2, CallFacts DEF InsertToken
<1> QED
  BY <1>2, <1>3, <1>4, <1>6, <1>7, <1>8, CallFacts, OneCallSteps

LEMMA TellTokenSteps ==
  ASSUME TokenInv, NEW c \in Call, TellToken(c)
  PROVE  TokenInv'
<1> DEFINE k == Answered(call[c], 201)
<1>1. /\ k \in CallRecord /\ k.at = "answered" /\ k.status = 201 /\ k.op = call[c].op
      /\ k.principal = call[c].principal /\ k.late = call[c].late
  BY CallFacts, AnsweredIsCall
<1>2. Becomes(c, k)
  BY DEF TellToken
<1> HIDE DEF k
<1>3. call[c].target \in Token /\ rows[call[c].target].state # "none"
  BY CallFacts DEF TellToken, CallStands
<1>4. RowsGrow(rows, rows')
  BY CallFacts DEF RowsGrow, TellToken
<1>5. CallStands(c, k, rows', tokenLog') /\ ~Revokes(k)
  <2>1. CallStands(c, call[c], rows, tokenLog) /\ rows' = rows /\ call[c].op = "create"
    BY CallFacts DEF TellToken
  <2> QED
    BY ONLY <1>1, <2>1 DEF CallStands, Revokes
<1>6. handed' \subseteq {u \in Token : rows'[u].state # "none"}
  BY <1>3, CallFacts DEF TellToken
<1>7. /\ tokenLog \subseteq tokenLog'
      /\ tokenLog' \subseteq [action : {"token.create", "token.revoke"}, token : Token, call : Call]
  BY <1>3, CallFacts DEF TellToken
<1>8. (c \in touching' => k.principal \in Token) /\ touching' = touching
  BY <1>1, CallFacts DEF TellToken
<1> QED
  BY <1>1, <1>2, <1>4, <1>5, <1>6, <1>7, <1>8, OneCallSteps

LEMMA ListTokensSteps ==
  ASSUME TokenInv, NEW c \in Call, ListTokens(c)
  PROVE  TokenInv'
<1> DEFINE r == Answered(call[c], 200)
           gone == {t \in Token : rows[t].state = "revoked"}
           k == [r EXCEPT !.listed = gone]
<1>1. /\ r \in CallRecord /\ r.at = "answered" /\ r.status = 200 /\ r.op = call[c].op
      /\ r.principal = call[c].principal /\ r.late = call[c].late
  BY CallFacts, AnsweredIsCall
<1>2. Becomes(c, k)
  BY DEF ListTokens
<1> HIDE DEF r, gone
<1>3. /\ k \in CallRecord /\ k.at = "answered" /\ k.status = 200 /\ k.op = call[c].op
      /\ k.principal = call[c].principal /\ k.late = call[c].late
      /\ k.listed = gone
  <2>1. gone \in SUBSET Token
    BY DEF gone
  <2> QED
    BY ONLY <1>1, <2>1 DEF CallRecord
<1> HIDE DEF k
<1>4. CallStands(c, k, rows, tokenLog) /\ ~Revokes(k)
  <2>1. /\ CallStands(c, call[c], rows, tokenLog) /\ call[c].late \subseteq Token
        /\ call[c].op = "list"
    BY CallFacts DEF ListTokens, Serving
  <2> QED
    BY ONLY <1>3, <2>1 DEF CallStands, Revokes, gone
<1>5. c \in touching' => k.principal \in Token
  BY <1>3, CallFacts DEF ListTokens
<1> QED
  BY <1>2, <1>3, <1>4, <1>5, OneCallMoves DEF ListTokens

LEMMA RevokeTokenSteps ==
  ASSUME TokenInv, NEW c \in Call, RevokeToken(c)
  PROVE  TokenInv'
<1> DEFINE t == call[c].target
<1>1. CASE ~(t \in Token /\ rows[t].state = "active")
  BY <1>1, PlainAnswer DEF RevokeToken
<1>2. CASE t \in Token /\ rows[t].state = "active"
  <2> DEFINE k == Changed(call[c], t)
  <2>1. /\ k \in CallRecord /\ k.at = "changed" /\ k.target = t /\ k.op = call[c].op
        /\ k.status = call[c].status /\ k.principal = call[c].principal /\ k.late = call[c].late
    BY <1>2, CallFacts, ChangedIsCall
  <2>2. Becomes(c, k) /\ rows' = [rows EXCEPT ![t].state = "revoked"]
    BY <1>2 DEF RevokeToken
  <2> HIDE DEF k, t
  <2>3. RowsGrow(rows, rows') /\ rows'[t].state = "revoked"
    BY <1>2, <2>2, CallFacts DEF RowsGrow, Row
  <2>4. k.status = 0 /\ k.op = "revoke"
    BY <2>1, CallFacts DEF RevokeToken, Serving, CallStands
  <2>5. CallStands(c, k, rows', tokenLog)
    <3>1. CallStands(c, call[c], rows, tokenLog) /\ call[c].late \subseteq Token
      BY CallFacts
    <3> QED
      BY ONLY <1>2, <2>1, <2>3, <2>4, <3>1 DEF CallStands, Revokes, RowsGrow
  <2>6. \A d \in Call : Revokes(call[d]) => call[d].target # t
    BY <1>2, CallFacts DEF CallStands
  <2>7. handed' \subseteq {u \in Token : rows'[u].state # "none"}
    BY <2>3, CallFacts DEF RowsGrow, RevokeToken
  <2>8. /\ c \in touching' => k.principal \in Token
        /\ touching' = touching /\ tokenLog' = tokenLog
    BY <2>1, CallFacts DEF RevokeToken
  <2> QED
    BY <2>1, <2>2, <2>3, <2>5, <2>6, <2>7, <2>8, CallFacts, OneCallSteps
<1> QED
  BY <1>1, <1>2

LEMMA TellRevokedSteps ==
  ASSUME TokenInv, NEW c \in Call, TellRevoked(c)
  PROVE  TokenInv'
<1> DEFINE k == Answered(call[c], 204)
<1>1. /\ k \in CallRecord /\ k.at = "answered" /\ k.status = 204 /\ k.op = call[c].op
      /\ k.target = call[c].target /\ k.principal = call[c].principal /\ k.late = call[c].late
  BY CallFacts, AnsweredIsCall
<1>2. Becomes(c, k)
  BY DEF TellRevoked
<1> HIDE DEF k
<1>3. /\ Revokes(call[c]) /\ call[c].target \in Token
      /\ rows[call[c].target].state = "revoked"
  BY CallFacts DEF TellRevoked, CallStands, Revokes
<1>4. RowsGrow(rows, rows')
  BY CallFacts DEF RowsGrow, TellRevoked
<1>5. CallStands(c, k, rows', tokenLog')
  <2>1. CallStands(c, call[c], rows, tokenLog) /\ rows' = rows
    BY CallFacts DEF TellRevoked
  <2>2. Recorded(c, k, tokenLog')
    BY <1>1 DEF Recorded, TellRevoked
  <2> QED
    BY ONLY <1>1, <1>3, <2>1, <2>2 DEF CallStands
<1>6. \A d \in Call \ {c} : Revokes(call[d]) => call[d].target # k.target
  BY <1>1, <1>3 DEF TokenInv, OneRevokes
<1>7. handed' \subseteq {u \in Token : rows'[u].state # "none"}
  BY CallFacts DEF TellRevoked
<1>8. /\ tokenLog \subseteq tokenLog'
      /\ tokenLog' \subseteq [action : {"token.create", "token.revoke"}, token : Token, call : Call]
  BY <1>3, CallFacts DEF TellRevoked
<1>9. (c \in touching' => k.principal \in Token) /\ touching' = touching
  BY <1>1, CallFacts DEF TellRevoked
<1> QED
  BY <1>1, <1>2, <1>4, <1>5, <1>6, <1>7, <1>8, <1>9, OneCallSteps

-----------------------------------------------------------------------------
(* The steps of the goroutine and of the process.                          *)
LEMMA TouchSteps ==
  ASSUME TokenInv, NEW c \in Call, Touch(c)
  PROVE  TokenInv'
<1>1. PICK saved \in BOOLEAN :
        rows' = [rows EXCEPT ![call[c].principal].used = @ \/ saved]
  BY DEF Touch
<1>2. /\ rows' \in [Token -> Row]
      /\ \A t \in Token : rows'[t].state = rows[t].state
  BY <1>1, CallFacts DEF Touch, Row
<1>3. UNCHANGED <<handed, call, tokenLog>> /\ touching' \subseteq touching
  BY DEF Touch
<1>4. TokenTypeOK'
  BY <1>2, <1>3 DEF TokenInv, TokenTypeOK
<1>5. ASSUME NEW d \in Call PROVE CallStands(d, call[d], rows', tokenLog)
  BY ONLY <1>2, CallFacts, TokenInv, d \in Call DEF CallStands
<1>6. OneRevokes'
  BY <1>3 DEF TokenInv, OneRevokes
<1> QED
  BY <1>3, <1>4, <1>5, <1>6 DEF TokenInv

LEMMA RestartSteps ==
  ASSUME TokenInv, TokensRestart
  PROVE  TokenInv'
<1>1. call \in [Call -> CallRecord] /\ UNCHANGED <<rows, handed, tokenLog>> /\ touching' = {}
  BY DEF TokenInv, TokenTypeOK, CallRecord, TokensRestart
<1>2. ASSUME NEW c \in Call
      PROVE  /\ call'[c] \in CallRecord
             /\ CallStands(c, call'[c], rows, tokenLog)
             /\ Revokes(call'[c]) => Revokes(call[c])
             /\ call'[c].target = call[c].target
  <2>1. call'[c] = call[c] \/ call'[c] = [call[c] EXCEPT !.at = "lost"]
    BY DEF TokensRestart
  <2>2. CASE call'[c] = call[c]
    BY <2>2, <1>1 DEF TokenInv
  <2>3. CASE call'[c] # call[c]
    <3>1. call[c].at \in {"arrived", "admitted", "changed"} /\ call'[c] = [call[c] EXCEPT !.at = "lost"]
      BY <2>3 DEF TokensRestart
    <3>2. call[c].status = 0
      BY <3>1, CallFacts DEF CallStands
    <3> DEFINE k == call'[c]
    <3>3. /\ k \in CallRecord /\ k.at = "lost" /\ k.status = call[c].status /\ k.op = call[c].op
          /\ k.target = call[c].target /\ k.principal = call[c].principal /\ k.late = call[c].late
      BY <1>1, <3>1 DEF CallRecord
    <3> HIDE DEF k
    <3>4. CallStands(c, call[c], rows, tokenLog)
      BY CallFacts
    <3>5. CallStands(c, k, rows, tokenLog) /\ ~Revokes(k)
      BY ONLY <3>2, <3>3, <3>4 DEF CallStands, Revokes
    <3> QED
      BY <3>3, <3>5 DEF k
  <2> QED
    BY <2>2, <2>3
<1>3. call' \in [Call -> CallRecord]
  BY <1>2 DEF TokensRestart
<1>4. TokenTypeOK'
  BY <1>1, <1>3 DEF TokenInv, TokenTypeOK, CallRecord
<1>5. \A c \in Call : CallStands(c, call'[c], rows', tokenLog')
  BY <1>1, <1>2
<1>6. OneRevokes'
  BY <1>2 DEF TokenInv, OneRevokes
<1> QED
  BY <1>4, <1>5, <1>6 DEF TokenInv

-----------------------------------------------------------------------------
LEMMA TokenNextSteps == TokenInv /\ [TokenNext]_tokenVars => TokenInv'
<1> SUFFICES ASSUME TokenInv, [TokenNext]_tokenVars PROVE TokenInv'
  OBVIOUS
<1>1. ASSUME NEW c \in Call, Arrive(c) PROVE TokenInv'
  BY <1>1, ArriveSteps
<1>2. ASSUME NEW c \in Call,
             Refuse(c) \/ LookupFails(c) \/ Evaluate(c) \/ RefuseNameless(c) \/ StoreFails(c)
      PROVE  TokenInv'
  BY <1>2, PlainAnswer DEF Refuse, LookupFails, Evaluate, RefuseNameless, StoreFails, Serving
<1>3. ASSUME NEW c \in Call, AdmitAdmin(c) \/ AdmitService(c) PROVE TokenInv'
  BY <1>3, AdmitAdminSteps, AdmitServiceSteps
<1>4. ASSUME NEW c \in Call, InsertToken(c) \/ TellToken(c) PROVE TokenInv'
  BY <1>4, InsertTokenSteps, TellTokenSteps
<1>5. ASSUME NEW c \in Call, RevokeToken(c) \/ TellRevoked(c) PROVE TokenInv'
  BY <1>5, RevokeTokenSteps, TellRevokedSteps
<1>6. ASSUME NEW c \in Call, ListTokens(c) \/ Touch(c) PROVE TokenInv'
  BY <1>6, ListTokensSteps, TouchSteps
<1>7. CASE TokensRestart
  BY <1>7, RestartSteps
<1>8. CASE UNCHANGED tokenVars
  BY <1>8 DEF tokenVars, TokenInv, TokenTypeOK, OneRevokes
<1> QED
  BY <1>1, <1>2, <1>3, <1>4, <1>5, <1>6, <1>7, <1>8 DEF TokenNext

LEMMA RevocationFollows == TokenInv => RevocationIsFinal
<1> SUFFICES ASSUME TokenInv PROVE RevocationIsFinal
  OBVIOUS
<1>1. \A t \in ToldRevoked : rows[t].state = "revoked"
  BY ToldAreRevoked
<1>2. ASSUME NEW c \in Call
      PROVE  /\ call[c].principal \notin call[c].late
             /\ call[c].op = "list" /\ call[c].status = 200 => call[c].late \subseteq call[c].listed
             /\ call[c].op = "revoke" /\ call[c].status = 204 => Recorded(c, call[c], tokenLog)
  BY CallFacts DEF CallStands
<1>3. ASSUME NEW c \in Call, NEW d \in Call,
             call[c].op = "revoke", call[c].status = 204,
             call[d].op = "revoke", call[d].status = 204,
             call[c].target = call[d].target
      PROVE  c = d
  BY <1>3 DEF TokenInv, OneRevokes, Revokes
<1> QED
  BY <1>1, <1>2, <1>3 DEF RevocationIsFinal, Recorded

(* The rows, the calls, the goroutines and the log have their types, and a
   goroutine that writes last_used_at has the row of a token to write to. *)
THEOREM TokensAreTyped == TokenSpec => []TokenTypeOK
<1>1. TokenInv => TokenTypeOK
  BY DEF TokenInv
<1> QED
  BY <1>1, TokenInitHolds, TokenNextSteps, PTL DEF TokenSpec

(* DELETE of a token that was answered 204 is final, for any number of calls
   and crashes: nobody who calls afterwards is let in by the token, lists it
   as active or is told that he revoked it himself. *)
THEOREM RevocationHolds == TokenSpec => []RevocationIsFinal
BY TokenInitHolds, TokenNextSteps, RevocationFollows, PTL DEF TokenSpec

-----------------------------------------------------------------------------
(* The audit log.                                                          *)

(* LIKE with an escaped prefix and a final % is a prefix, letter by letter. *)

(* The places from where on the pattern fits from p on, given those of the
   positions behind p. *)
FitsFrom(fits, s, pattern, p) ==
  IF p > Len(pattern) THEN {Len(s) + 1}
  ELSE CASE pattern[p] = "%" -> {i \in 1..(Len(s) + 1) : \E k \in fits[p + 1] : i <= k}
         [] pattern[p] = "_" -> {i \in 1..Len(s) : i + 1 \in fits[p + 1]}
         [] pattern[p] = "\\" -> {i \in 1..Len(s) : s[i] = pattern[p + 1] /\ i + 1 \in fits[p + 2]}
         [] OTHER -> {i \in 1..Len(s) : s[i] = pattern[p] /\ i + 1 \in fits[p + 1]}

(* fits is right for the last m positions and the end. *)
FitsBehind(fits, s, pattern, m) ==
  \A p \in 1..(Len(pattern) + 1) :
    p + m > Len(pattern) => fits[p] = FitsFrom(fits, s, pattern, p)

LEMMA FitsOnlyLooksBehind ==
  ASSUME NEW g, NEW h, NEW s, NEW pattern, Len(pattern) \in Nat \ {0},
         pattern[Len(pattern)] = "%", NEW p \in 1..(Len(pattern) + 1),
         \A q \in 1..(Len(pattern) + 1) : q > p => g[q] = h[q]
  PROVE  FitsFrom(g, s, pattern, p) = FitsFrom(h, s, pattern, p)
<1>1. CASE p > Len(pattern)
  BY <1>1 DEF FitsFrom
<1>2. CASE p <= Len(pattern)
  <2>1. g[p + 1] = h[p + 1]
    BY <1>2
  <2>2. p # Len(pattern) => g[p + 2] = h[p + 2]
    BY <1>2
  <2>3. p = Len(pattern) => pattern[p] = "%"
    OBVIOUS
  <2> QED
    BY <1>2, <2>1, <2>2, <2>3 DEF FitsFrom
<1> QED
  BY <1>1, <1>2

LEMMA FitsExist ==
  ASSUME NEW s, NEW pattern, Len(pattern) \in Nat \ {0}, pattern[Len(pattern)] = "%"
  PROVE  \E g : /\ DOMAIN g = 1..(Len(pattern) + 1)
                /\ \A p \in 1..(Len(pattern) + 1) : g[p] = FitsFrom(g, s, pattern, p)
<1> DEFINE M == Len(pattern)
           P(m) == \E g : DOMAIN g = 1..(M + 1) /\ FitsBehind(g, s, pattern, m)
           A == {m \in Nat : P(m)}
<1>1. P(0)
  <2> DEFINE g == [p \in 1..(M + 1) |-> {Len(s) + 1}]
  <2>1. ASSUME NEW p \in 1..(M + 1), p + 0 > M
        PROVE  FitsFrom(g, s, pattern, p) = {Len(s) + 1}
    <3>1. p > Len(pattern)
      BY <2>1
    <3> HIDE DEF g, M
    <3> QED
      BY <3>1 DEF FitsFrom
  <2>2. DOMAIN g = 1..(M + 1) /\ \A p \in 1..(M + 1) : g[p] = {Len(s) + 1}
    OBVIOUS
  <2> HIDE DEF g
  <2>3. FitsBehind(g, s, pattern, 0)
    BY <2>1, <2>2 DEF FitsBehind
  <2> QED
    BY <2>2, <2>3
<1>2. ASSUME NEW m \in Nat, P(m) PROVE P(m + 1)
  <2>1. PICK g : DOMAIN g = 1..(M + 1) /\ FitsBehind(g, s, pattern, m)
    BY <1>2
  <2> DEFINE h == [q \in 1..(M + 1) |-> IF q + m = M THEN FitsFrom(g, s, pattern, q) ELSE g[q]]
  <2>2. \A q \in 1..(M + 1) : q + m # M => h[q] = g[q]
    OBVIOUS
  <2>3. \A q \in 1..(M + 1) : q + m = M => h[q] = FitsFrom(g, s, pattern, q)
    OBVIOUS
  <2>4. DOMAIN h = 1..(M + 1)
    OBVIOUS
  <2> HIDE DEF h
  <2>5. ASSUME NEW p \in 1..(M + 1), p + (m + 1) > M
        PROVE  h[p] = FitsFrom(h, s, pattern, p)
    <3>1. \A q \in 1..(M + 1) : q > p => h[q] = g[q]
      BY <2>2, <2>5
    <3>2. FitsFrom(h, s, pattern, p) = FitsFrom(g, s, pattern, p)
      BY <3>1, FitsOnlyLooksBehind
    <3>3. CASE p + m = M
      BY <3>2, <3>3, <2>3
    <3>4. CASE p + m # M
      <4>1. p + m > M
        BY <2>5, <3>4
      <4> QED
        BY <4>1, <3>2, <3>4, <2>1, <2>2 DEF FitsBehind
    <3> QED
      BY <3>3, <3>4
  <2> QED
    BY <2>4, <2>5 DEF FitsBehind
<1> HIDE DEF P
<1>3. A = Nat
  <2>1. A \in SUBSET Nat /\ 0 \in A /\ \A n \in A : n + 1 \in A
    BY <1>1, <1>2
  <2> QED
    BY <2>1, NatSetInduction
<1>4. P(M)
  BY <1>3
<1> QED
  BY <1>4 DEF P, FitsBehind

(* What Like says, by the one table its pattern has. *)
LEMMA LikeByFits ==
  ASSUME NEW s, NEW pattern, Len(pattern) \in Nat \ {0}, pattern[Len(pattern)] = "%"
  PROVE  \E g : /\ \A p \in 1..(Len(pattern) + 1) : g[p] = FitsFrom(g, s, pattern, p)
                /\ Like(s, pattern) <=> 1 \in g[1]
<1> DEFINE M == Len(pattern)
           g == CHOOSE g : g = [p \in 1..(Len(pattern) + 1) |->
        IF p > Len(pattern) THEN {Len(s) + 1}
        ELSE CASE pattern[p] = "%" -> {i \in 1..(Len(s) + 1) : \E k \in g[p + 1] : i <= k}
               [] pattern[p] = "_" -> {i \in 1..Len(s) : i + 1 \in g[p + 1]}
               [] pattern[p] = "\\" -> {i \in 1..Len(s) : s[i] = pattern[p + 1] /\ i + 1 \in g[p + 2]}
               [] OTHER -> {i \in 1..Len(s) : s[i] = pattern[p] /\ i + 1 \in g[p + 1]}]
<1>1. Like(s, pattern) <=> 1 \in g[1]
  BY DEF Like
<1>2. g = CHOOSE h : h = [p \in 1..(M + 1) |-> FitsFrom(h, s, pattern, p)]
  BY DEF FitsFrom
<1> HIDE DEF g
<1>3. PICK h : /\ DOMAIN h = 1..(M + 1)
               /\ \A p \in 1..(M + 1) : h[p] = FitsFrom(h, s, pattern, p)
  BY FitsExist
<1> DEFINE e(p) == FitsFrom(h, s, pattern, p)
           h2 == [p \in 1..(M + 1) |-> e(p)]
<1>4. \A p \in 1..(M + 1) : h2[p] = h[p]
  BY <1>3
<1>5. \A p \in 1..(M + 1) : e(p) = FitsFrom(h2, s, pattern, p)
  BY <1>4, FitsOnlyLooksBehind
<1>6. h2 = [p \in 1..(M + 1) |-> FitsFrom(h2, s, pattern, p)]
  BY ONLY <1>5
<1>7. g = [p \in 1..(M + 1) |-> FitsFrom(g, s, pattern, p)]
  <2> HIDE DEF h2
  <2> QED
    BY <1>2, <1>6
<1>8. \A p \in 1..(M + 1) : g[p] = FitsFrom(g, s, pattern, p)
  <2> DEFINE d(p) == FitsFrom(g, s, pattern, p)
  <2>1. g = [p \in 1..(M + 1) |-> d(p)]
    BY <1>7
  <2> HIDE DEF d
  <2>2. \A p \in 1..(M + 1) : g[p] = d(p)
    BY <2>1
  <2> QED
    BY <2>2 DEF d
<1> QED
  BY <1>1, <1>8

(* The escaped letters. *)
Escaped(c) == IF c \in {"\\", "%", "_"} THEN <<"\\", c>> ELSE <<c>>

(* The places of s from where on what is left of f fits, n letters being
   behind. *)
RestFits(s, f, n) ==
  {i \in 1..(Len(s) + 1) :
     /\ i + (Len(f) - n) <= Len(s) + 1
     /\ \A k \in 1..(Len(f) - n) : s[i + k - 1] = f[n + k]}

LEMMA RestGrows ==
  ASSUME NEW s, Len(s) \in Nat, NEW f, Len(f) \in Nat, NEW n \in 1..Len(f)
  PROVE  RestFits(s, f, n - 1) = {i \in 1..Len(s) : s[i] = f[n] /\ i + 1 \in RestFits(s, f, n)}
<1>1. ASSUME NEW i \in RestFits(s, f, n - 1)
      PROVE  i \in 1..Len(s) /\ s[i] = f[n] /\ i + 1 \in RestFits(s, f, n)
  <2>1. /\ i \in 1..(Len(s) + 1) /\ i + (Len(f) - (n - 1)) <= Len(s) + 1
        /\ \A k \in 1..(Len(f) - (n - 1)) : s[i + k - 1] = f[(n - 1) + k]
    BY DEF RestFits
  <2>2. s[i] = f[n]
    <3>1. 1 \in 1..(Len(f) - (n - 1)) /\ i + 1 - 1 = i /\ (n - 1) + 1 = n
      BY <2>1
    <3> QED
      BY <2>1, <3>1
  <2>3. ASSUME NEW k \in 1..(Len(f) - n) PROVE s[(i + 1) + k - 1] = f[n + k]
    <3>1. /\ k + 1 \in 1..(Len(f) - (n - 1)) /\ i + (k + 1) - 1 = (i + 1) + k - 1
          /\ (n - 1) + (k + 1) = n + k
      BY <2>1
    <3> QED
      BY <2>1, <3>1
  <2>4. i \in 1..Len(s) /\ i + 1 \in 1..(Len(s) + 1) /\ (i + 1) + (Len(f) - n) <= Len(s) + 1
    BY <2>1
  <2> QED
    BY <2>2, <2>3, <2>4 DEF RestFits
<1>2. ASSUME NEW i \in 1..Len(s), s[i] = f[n], i + 1 \in RestFits(s, f, n)
      PROVE  i \in RestFits(s, f, n - 1)
  <2>1. /\ (i + 1) + (Len(f) - n) <= Len(s) + 1
        /\ \A k \in 1..(Len(f) - n) : s[(i + 1) + k - 1] = f[n + k]
    BY <1>2 DEF RestFits
  <2>2. ASSUME NEW k \in 1..(Len(f) - (n - 1)) PROVE s[i + k - 1] = f[(n - 1) + k]
    <3>1. CASE k = 1
      <4>1. i + k - 1 = i /\ (n - 1) + k = n
        BY <3>1
      <4> QED
        BY <4>1, <1>2
    <3>2. CASE k # 1
      <4>1. /\ k - 1 \in 1..(Len(f) - n) /\ (i + 1) + (k - 1) - 1 = i + k - 1
            /\ n + (k - 1) = (n - 1) + k
        BY <3>2
      <4> QED
        BY <4>1, <2>1
    <3> QED
      BY <3>1, <3>2
  <2>3. i \in 1..(Len(s) + 1) /\ i + (Len(f) - (n - 1)) <= Len(s) + 1
    BY <2>1
  <2> QED
    BY <2>2, <2>3 DEF RestFits
<1> DEFINE A == RestFits(s, f, n - 1)
           B == {i \in 1..Len(s) : s[i] = f[n] /\ i + 1 \in RestFits(s, f, n)}
<1>3. A \subseteq B /\ B \subseteq A
  BY <1>1, <1>2
<1> QED
  BY <1>3

LEMMA PrefixFits ==
  ASSUME NEW X, NEW s \in Seq(X), NEW f \in Seq(X)
  PROVE  1 \in RestFits(s, f, 0) <=> IsPrefix(f, s)
<1>1. Len(s) \in Nat /\ Len(f) \in Nat
  OBVIOUS
<1>2. 1 \in RestFits(s, f, 0) <=> Len(f) <= Len(s) /\ \A k \in 1..Len(f) : s[k] = f[k]
  <2>1. \A k \in 1..Len(f) : 1 + k - 1 = k /\ 0 + k = k
    BY <1>1
  <2>2. 1..(Len(f) - 0) = 1..Len(f)
    BY <1>1
  <2>3. (\A k \in 1..(Len(f) - 0) : s[1 + k - 1] = f[0 + k]) <=> \A k \in 1..Len(f) : s[k] = f[k]
    BY <2>1, <2>2
  <2>4. 1 + (Len(f) - 0) <= Len(s) + 1 <=> Len(f) <= Len(s)
    BY <1>1
  <2>5. 1 \in 1..(Len(s) + 1)
    BY <1>1
  <2> QED
    BY <2>3, <2>4, <2>5 DEF RestFits
<1>3. ASSUME Len(f) <= Len(s)
      PROVE  (\A k \in 1..Len(f) : s[k] = f[k]) <=> SubSeq(f, 1, Len(f)) = SubSeq(s, 1, Len(f))
  <2>1. SubSeq(f, 1, Len(f)) = f
    BY SubSeqFull
  <2> DEFINE t == SubSeq(s, 1, Len(f))
  <2>2. t \in Seq(X) /\ Len(t) = Len(f) /\ \A k \in 1..Len(f) : t[k] = s[k]
    BY <1>1, <1>3, SubSeqProperties
  <2> HIDE DEF t
  <2>3. (\A k \in 1..Len(f) : t[k] = f[k]) <=> t = f
    BY <2>2, SeqEqual
  <2> QED
    BY <2>1, <2>2, <2>3 DEF t
<1> QED
  BY <1>2, <1>3 DEF IsPrefix

(* LIKE with an escaped text and % behind it asks for that text as a prefix. *)
LEMMA EscapedIs ==
  ASSUME NEW X, NEW c \in X
  PROVE  /\ Escaped(c) \in Seq(X \cup {"\\", "%"})
         /\ c \in {"\\", "%", "_"} => /\ Len(Escaped(c)) = 2
                                      /\ Escaped(c)[1] = "\\" /\ Escaped(c)[2] = c
         /\ c \notin {"\\", "%", "_"} => Len(Escaped(c)) = 1 /\ Escaped(c)[1] = c
<1> DEFINE Y == X \cup {"\\", "%"}
<1>1. "\\" \in Y /\ c \in Y
  OBVIOUS
<1> HIDE DEF Y
<1>2. CASE c \in {"\\", "%", "_"}
  <2>1. Escaped(c) = <<"\\", c>>
    BY <1>2 DEF Escaped
  <2>2. Escaped(c) \in Seq(Y)
    BY <1>1, <2>1
  <2>3. Len(Escaped(c)) = 2 /\ Escaped(c)[1] = "\\" /\ Escaped(c)[2] = c
    BY <2>1
  <2>4. Escaped(c) \in Seq(X \cup {"\\", "%"})
    BY <2>2 DEF Y
  <2> HIDE DEF Y
  <2> QED
    BY ONLY <1>2, <2>3, <2>4
<1>3. CASE c \notin {"\\", "%", "_"}
  <2>1. Escaped(c) = <<c>>
    BY <1>3 DEF Escaped
  <2>2. Escaped(c) \in Seq(Y)
    BY <1>1, <2>1
  <2>3. Len(Escaped(c)) = 1 /\ Escaped(c)[1] = c
    BY <2>1
  <2>4. Escaped(c) \in Seq(X \cup {"\\", "%"})
    BY <2>2 DEF Y
  <2> QED
    BY ONLY <1>3, <2>3, <2>4
<1> QED
  BY <1>2, <1>3

LEMMA LikeIsPrefix ==
  ASSUME NEW X, NEW s \in Seq(X), NEW f \in Seq(X)
  PROVE  Like(s, EscapeLike(f) \o <<"%">>) <=> IsPrefix(f, s)
<1> DEFINE Y == X \cup {"\\", "%"}
           N == Len(f)
           pieces == [i \in DOMAIN f |-> Escaped(f[i])]
           E == EscapeLike(f)
           L == Len(E)
           pattern == E \o <<"%">>
<1>1. N \in Nat /\ Len(s) \in Nat /\ DOMAIN f = 1..N
  OBVIOUS
<1>2. /\ pieces \in Seq(Seq(Y)) /\ Len(pieces) = N
      /\ \A n \in 1..N : pieces[n] = Escaped(f[n])
  <2>1. \A n \in 1..N : Escaped(f[n]) \in Seq(Y)
    <3> SUFFICES ASSUME NEW n \in 1..N PROVE Escaped(f[n]) \in Seq(Y)
      OBVIOUS
    <3>1. f[n] \in X
      BY <1>1
    <3> QED
      BY <3>1, EscapedIs
  <2> DEFINE Z == Seq(Y)
  <2>2. pieces \in [1..N -> Z]
    BY <1>1, <2>1
  <2> HIDE DEF Z
  <2>3. pieces \in Seq(Z) /\ Len(pieces) = N
    BY <1>1, <2>2
  <2> QED
    BY <1>1, <2>3 DEF Z
<1>3. E = FlattenSeq(pieces)
  BY DEF EscapeLike, Escaped
<1> HIDE DEF pieces
<1>4. PICK at \in [0..N -> Nat] :
        /\ at[0] = 0 /\ at[N] = L
        /\ \A n \in 1..N :
             /\ at[n] = at[n - 1] + Len(pieces[n])
             /\ \A k \in 1..Len(pieces[n]) : E[at[n - 1] + k] = pieces[n][k]
  <2> HIDE DEF E
  <2> QED
    BY <1>2, <1>3, FlattenPlaces
<1>5. E \in Seq(Y) /\ L \in Nat
  BY <1>2, <1>3, FlattenPlaces
<1> HIDE DEF E
<1>6. /\ Len(pattern) = L + 1 /\ pattern[L + 1] = "%"
      /\ \A i \in 1..L : pattern[i] = E[i]
  BY <1>5
<1> HIDE DEF pattern, L
<1>7. PICK g : /\ \A p \in 1..(Len(pattern) + 1) : g[p] = FitsFrom(g, s, pattern, p)
               /\ Like(s, pattern) <=> 1 \in g[1]
  <2>1. Len(pattern) \in Nat \ {0} /\ pattern[Len(pattern)] = "%"
    BY <1>5, <1>6
  <2> QED
    BY <2>1, LikeByFits
<1> DEFINE P(m) == m <= N => at[N - m] <= L /\ g[at[N - m] + 1] = RestFits(s, f, N - m)
           A == {m \in Nat : P(m)}
<1>8. P(0)
  <2>1. N - 0 = N
    BY <1>1
  <2>2. g[L + 1] = {i \in 1..(Len(s) + 1) : \E k \in g[L + 2] : i <= k}
    <3>1. g[L + 1] = FitsFrom(g, s, pattern, L + 1) /\ (L + 1) + 1 = L + 2
      BY <1>5, <1>6, <1>7
    <3> QED
      BY <3>1, <1>5, <1>6 DEF FitsFrom
  <2>3. g[L + 2] = {Len(s) + 1}
    <3>1. g[L + 2] = FitsFrom(g, s, pattern, L + 2) /\ L + 2 > Len(pattern)
      BY <1>5, <1>6, <1>7
    <3> QED
      BY <3>1 DEF FitsFrom
  <2>4. g[L + 1] = 1..(Len(s) + 1)
    BY <2>2, <2>3, <1>1
  <2>5. RestFits(s, f, N) = 1..(Len(s) + 1)
    BY <1>1 DEF RestFits
  <2> QED
    BY <1>4, <1>5, <2>1, <2>4, <2>5
<1>9. ASSUME NEW m \in Nat, P(m) PROVE P(m + 1)
  <2> SUFFICES ASSUME m + 1 <= N
               PROVE  at[N - (m + 1)] <= L /\ g[at[N - (m + 1)] + 1] = RestFits(s, f, N - (m + 1))
    OBVIOUS
  <2> DEFINE n == N - m
             b == at[n - 1]
             c == f[n]
  <2>1. n \in 1..N /\ N - (m + 1) = n - 1 /\ n \in 0..N /\ n - 1 \in 0..N
    BY <1>1
  <2>2. at[n] <= L /\ g[at[n] + 1] = RestFits(s, f, n)
    BY <1>9, <2>1, <1>1
  <2> HIDE DEF n
  <2>3. /\ at[n] = b + Len(Escaped(c)) /\ b \in Nat /\ at[n] \in Nat
        /\ \A k \in 1..Len(Escaped(c)) : E[b + k] = Escaped(c)[k]
    BY <1>2, <1>4, <2>1
  <2> HIDE DEF b, c
  <2>4. g[b + 1] = {i \in 1..Len(s) : s[i] = c /\ i + 1 \in g[at[n] + 1]} /\ b <= L
    <3>1. CASE c \in {"\\", "%", "_"}
      <4>1. at[n] = b + 2 /\ E[b + 1] = "\\" /\ E[b + 2] = c
        <5>1. Len(Escaped(c)) = 2 /\ Escaped(c)[1] = "\\" /\ Escaped(c)[2] = c
          BY <3>1, EscapedIs
        <5>2. 1 \in 1..Len(Escaped(c)) /\ 2 \in 1..Len(Escaped(c))
          BY <5>1
        <5> QED
          BY <2>3, <5>1, <5>2
      <4>2. b + 2 <= L /\ pattern[b + 1] = "\\" /\ pattern[b + 2] = c
        BY <4>1, <2>2, <2>3, <1>5, <1>6
      <4>3. g[b + 1] = FitsFrom(g, s, pattern, b + 1) /\ ~ (b + 1 > Len(pattern))
        <5>1. b + 1 \in 1..(Len(pattern) + 1) /\ ~ (b + 1 > Len(pattern))
          BY <4>2, <2>3, <1>5, <1>6
        <5> QED
          BY <5>1, <1>7
      <4>4. (b + 1) + 1 = b + 2 /\ (b + 1) + 2 = at[n] + 1
        BY <4>1, <2>3
      <4>5. FitsFrom(g, s, pattern, b + 1)
              = {i \in 1..Len(s) : s[i] = pattern[(b + 1) + 1] /\ i + 1 \in g[(b + 1) + 2]}
        BY <4>2, <4>3 DEF FitsFrom
      <4> QED
        BY <4>2, <4>3, <4>4, <4>5, <2>3, <1>5
    <3>2. CASE c \notin {"\\", "%", "_"}
      <4>1. at[n] = b + 1 /\ E[b + 1] = c
        <5>1. Len(Escaped(c)) = 1 /\ Escaped(c)[1] = c
          BY <3>2, EscapedIs
        <5>2. 1 \in 1..Len(Escaped(c))
          BY <5>1
        <5> QED
          BY <2>3, <5>1, <5>2
      <4>2. b + 1 <= L /\ pattern[b + 1] = c
        BY <4>1, <2>2, <2>3, <1>5, <1>6
      <4>3. g[b + 1] = FitsFrom(g, s, pattern, b + 1) /\ ~ (b + 1 > Len(pattern))
        <5>1. b + 1 \in 1..(Len(pattern) + 1) /\ ~ (b + 1 > Len(pattern))
          BY <4>2, <2>3, <1>5, <1>6
        <5> QED
          BY <5>1, <1>7
      <4>4. FitsFrom(g, s, pattern, b + 1)
              = {i \in 1..Len(s) : s[i] = pattern[b + 1] /\ i + 1 \in g[(b + 1) + 1]}
        BY <3>2, <4>2, <4>3 DEF FitsFrom
      <4> QED
        BY <4>1, <4>2, <4>3, <4>4, <2>3, <1>5
    <3> QED
      BY <3>1, <3>2
  <2>5. RestFits(s, f, n - 1) = {i \in 1..Len(s) : s[i] = c /\ i + 1 \in RestFits(s, f, n)}
    <3>1. n \in 1..Len(f)
      BY <2>1
    <3> QED
      BY <3>1, <1>1, RestGrows DEF c
  <2>6. g[b + 1] = RestFits(s, f, n - 1)
    BY <2>2, <2>4, <2>5
  <2> QED
    BY <2>1, <2>4, <2>6 DEF b
<1> HIDE DEF P
<1>10. A = Nat
  <2>1. A \in SUBSET Nat /\ 0 \in A /\ \A n \in A : n + 1 \in A
    BY <1>8, <1>9
  <2> QED
    BY <2>1, NatSetInduction
<1>11. P(N)
  BY <1>1, <1>10
<1>12. g[1] = RestFits(s, f, 0)
  <2>1. N - N = 0 /\ N <= N /\ 0 + 1 = 1
    BY <1>1
  <2> QED
    BY <1>4, <1>11, <2>1 DEF P
<1>13. Like(s, pattern) <=> IsPrefix(f, s)
  BY <1>7, <1>12, PrefixFits
<1> QED
  BY <1>13 DEF pattern, E

-----------------------------------------------------------------------------
(* The order of the pages.                                                 *)

Known(L) == /\ L \in SUBSET Record /\ IsFiniteSet(L)
            /\ \A r, s \in L : r.id = s.id => r = s
            /\ \A r \in L : Millis(r.at) = r.at

InOrderOfTime(s) == \A i, j \in DOMAIN s : i < j => Newer(s[i], s[j])

LEMMA RecordNumbers == \A r \in Record : r.at \in Int /\ r.id \in Int
<1> SUFFICES ASSUME NEW r \in Record PROVE r.at \in Int /\ r.id \in Int
  OBVIOUS
<1>1. r.at \in 0..(TimeBound + 1) /\ r.id \in Ids
  BY DEF Record
<1>2. r.id \in 1..RecordBound
  BY <1>1 DEF Ids
<1> QED
  BY ONLY <1>1, <1>2

LEMMA NewerOrders ==
  ASSUME NEW x \in Record, NEW y \in Record, NEW z \in Record
  PROVE  /\ ~ Newer(x, x)
         /\ Newer(x, y) /\ Newer(y, z) => Newer(x, z)
         /\ x.id # y.id => Newer(x, y) \/ Newer(y, x)
<1>1. \A r \in Record : r.at \in Int /\ r.id \in Int
  BY RecordNumbers
<1> QED
  BY <1>1 DEF Newer

LEMMA NewestFirstMeans ==
  ASSUME NEW L, NEW x \in L, NEW y \in L
  PROVE  <<x, y>> \in NewestFirst(L) <=> Newer(x, y)
BY PairOf DEF NewestFirst

LEMMA SubSeqOf ==
  ASSUME NEW X, NEW s \in Seq(X), NEW m \in 0..Len(s)
  PROVE  LET t == SubSeq(s, 1, m)
         IN /\ t \in Seq(X) /\ Len(t) = m /\ t \in [1..m -> X]
            /\ \A i \in 1..m : t[i] = s[i]
<1> DEFINE t == SubSeq(s, 1, m)
<1>0. m \in Nat
  OBVIOUS
<1>1. \A i \in 1..m : s[i] \in X
  OBVIOUS
<1>2. t \in Seq(X) /\ Len(t) = (IF 1 <= m THEN m - 1 + 1 ELSE 0)
  BY ONLY <1>0, <1>1, SubSeqProperties
<1>3. \A i \in 1..(m - 1 + 1) : t[i] = s[1 + i - 1]
  BY ONLY <1>0, <1>1, SubSeqProperties
<1>4. m - 1 + 1 = m /\ \A i \in 1..m : 1 + i - 1 = i
  BY ONLY <1>0
<1> HIDE DEF t
<1>5. \A i \in 1..m : t[i] = s[i]
  BY ONLY <1>3, <1>4
<1>6. Len(t) = m
  BY ONLY <1>0, <1>2
<1>7. t \in [1..m -> X]
  BY ONLY <1>2, <1>6
<1> QED
  BY ONLY <1>2, <1>5, <1>6, <1>7 DEF t

(* One page: the n newest of what is found, and what is not on it is older
   than its last row. *)
LEMMA PageOfRows ==
  ASSUME NEW L, Known(L), NEW F \in SUBSET L, NEW n \in Nat \ {0}
  PROVE  LET found == InOrder(F, NewestFirst(L))
             page == SubSeq(found, 1, IF Len(found) > n THEN n ELSE Len(found))
         IN /\ page \in Seq(F) /\ InOrderOfTime(page)
            /\ Len(found) > n => /\ page # <<>>
                                /\ \A x \in F : x \in ToSet(page) \/ Newer(Last(page), x)
            /\ ~ (Len(found) > n) => F \subseteq ToSet(page)
<1> DEFINE R == NewestFirst(L)
           found == InOrder(F, R)
           page == SubSeq(found, 1, IF Len(found) > n THEN n ELSE Len(found))
<1>1. IsFiniteSet(F)
  BY FS_Subset DEF Known
<1>2. \A x, y \in F : <<x, y>> \in R <=> Newer(x, y)
  BY NewestFirstMeans
<1> HIDE DEF R
<1>3. \A x \in F : x \in Record
  BY DEF Known
<1>4. StrictOrder(F, R)
  <2>1. \A x, y \in F : x.id = y.id => x = y
    BY DEF Known
  <2> QED
    BY <1>2, <1>3, <2>1, NewerOrders DEF StrictOrder
<1>5. /\ found \in Seq(F)
      /\ \A i, j \in DOMAIN found : i < j => <<found[i], found[j]>> \in R
      /\ \A x \in F : \E i \in DOMAIN found : found[i] = x
  BY <1>1, <1>4, InOrderSorts
<1> HIDE DEF found
<1> DEFINE N == Len(found)
           m == IF N > n THEN n ELSE N
<1>6. /\ N \in Nat /\ DOMAIN found = 1..N /\ m \in Nat /\ m <= N
      /\ (N > n => m = n) /\ (~ (N > n) => m = N)
      /\ \A i \in 1..N : found[i] \in F
  <2>1. N \in Nat /\ DOMAIN found = 1..N
    BY <1>5
  <2>2. \A i \in 1..N : found[i] \in F
    BY <1>5, <2>1
  <2> HIDE DEF N
  <2>3. m \in Nat /\ m <= N /\ (N > n => m = n) /\ (~ (N > n) => m = N)
    BY ONLY <2>1, n \in Nat \ {0}
  <2> HIDE DEF m
  <2> QED
    BY ONLY <2>1, <2>2, <2>3
<1>7. page = SubSeq(found, 1, m)
  OBVIOUS
<1> HIDE DEF m, page
<1>8. /\ page \in Seq(F) /\ Len(page) = m /\ page \in [1..m -> F]
      /\ \A i \in 1..m : page[i] = found[i]
  <2>1. m \in 0..Len(found) /\ found \in Seq(F)
    <3>1. m \in 0..N
      <4> HIDE DEF N
      <4> QED
        BY ONLY <1>6
    <3> QED
      BY ONLY <3>1, <1>5 DEF N
  <2> QED
    BY ONLY <1>7, <2>1, SubSeqOf
<1>9. page \in Seq(F) /\ DOMAIN page = 1..m /\ Len(page) = m
  BY ONLY <1>8
<1> HIDE DEF N
<1>10. \A i, j \in 1..N : i < j => Newer(found[i], found[j])
  BY <1>2, <1>5, <1>6
<1>11. InOrderOfTime(page)
  BY <1>6, <1>8, <1>9, <1>10 DEF InOrderOfTime
<1>12. \A i \in 1..m : found[i] \in ToSet(page)
  BY <1>8, <1>9 DEF ToSet
<1>13. \A x \in F : \E i \in 1..N : found[i] = x
  BY <1>5, <1>6
<1>14. ASSUME Len(found) > n
       PROVE  /\ page # <<>>
              /\ \A x \in F : x \in ToSet(page) \/ Newer(Last(page), x)
  <2>1. m = n /\ m \in 1..m /\ m \in 1..N
    <3>1. N > n
      BY <1>14 DEF N
    <3> QED
      BY ONLY <1>6, <3>1, n \in Nat \ {0}
  <2>2. page # <<>> /\ Last(page) = found[m]
    BY <2>1, <1>8, <1>9 DEF Last
  <2>3. \A i \in 1..N : i \in 1..m \/ m < i
    BY <2>1
  <2> QED
    BY <2>1, <2>2, <2>3, <1>10, <1>12, <1>13
<1>15. ASSUME ~ (Len(found) > n) PROVE F \subseteq ToSet(page)
  BY <1>6, <1>12, <1>13, <1>15 DEF N
<1> QED
  BY <1>9, <1>11, <1>14, <1>15 DEF page, found, R

(* A page put behind what has been shown. *)
LEMMA ShownGoesOn ==
  ASSUME NEW L, Known(L), NEW shown \in Seq(L), InOrderOfTime(shown),
         NEW page \in Seq(L), InOrderOfTime(page),
         shown # <<>> => \A i \in DOMAIN page : Newer(Last(shown), page[i])
  PROVE  LET u == shown \o page
         IN /\ u \in Seq(L) /\ InOrderOfTime(u)
            /\ ToSet(u) = ToSet(shown) \cup ToSet(page)
            /\ page # <<>> => u # <<>> /\ Last(u) = Last(page)
<1> DEFINE a == Len(shown)
           b == Len(page)
           u == shown \o page
<1>1. /\ a \in Nat /\ b \in Nat /\ u \in Seq(L) /\ Len(u) = a + b
      /\ \A k \in 1..a : u[k] = shown[k]
      /\ \A k \in 1..b : u[a + k] = page[k]
  BY Joined2
<1> HIDE DEF u
<1>2. /\ DOMAIN shown = 1..a /\ DOMAIN page = 1..b /\ DOMAIN u = 1..(a + b)
      /\ \A i \in 1..a : shown[i] \in Record
      /\ \A i \in 1..b : page[i] \in Record
  <2>1. \A s \in Seq(L) : \A i \in 1..Len(s) : s[i] \in Record
    BY DEF Known
  <2> QED
    BY <2>1, <1>1
<1>3. a # 0 <=> shown # <<>>
  OBVIOUS
<1>4. b # 0 <=> page # <<>>
  OBVIOUS
<1>5. a # 0 => Last(shown) = shown[a]
  BY DEF Last
<1>6. b # 0 => Last(page) = page[b]
  BY DEF Last
<1>7. Last(u) = u[a + b]
  BY <1>1 DEF Last
<1>8. u \in Seq(L) /\ u # <<>> <=> a + b # 0
  <2>1. u # <<>> <=> Len(u) # 0
    BY <1>1
  <2> QED
    BY <1>1, <2>1
<1> HIDE DEF a, b
<1>9. \A i \in 1..(a + b) : i \in 1..a \/ \E k \in 1..b : i = a + k
  <2> SUFFICES ASSUME NEW i \in 1..(a + b), i \notin 1..a PROVE \E k \in 1..b : i = a + k
    OBVIOUS
  <2>1. i - a \in 1..b /\ i = a + (i - a)
    BY <1>1
  <2> QED
    BY <2>1
<1>10. ASSUME NEW i \in 1..a, NEW k \in 1..b
       PROVE  Newer(shown[i], page[k])
  <2>1. a \in 1..a /\ a # 0
    BY <1>1
  <2>2. Newer(shown[a], page[k])
    BY <2>1, <1>2, <1>3, <1>5
  <2>3. CASE i = a
    BY <2>2, <2>3
  <2>4. CASE i # a
    <3>1. i < a
      BY <2>4, <1>1
    <3>2. Newer(shown[i], shown[a])
      BY <3>1, <2>1, <1>2 DEF InOrderOfTime
    <3> QED
      BY <2>1, <2>2, <3>2, <1>2, NewerOrders
  <2> QED
    BY <2>3, <2>4
<1>11. InOrderOfTime(u)
  <2> SUFFICES ASSUME NEW i \in 1..(a + b), NEW j \in 1..(a + b), i < j
               PROVE  Newer(u[i], u[j])
    BY <1>2 DEF InOrderOfTime
  <2>1. CASE i \in 1..a /\ j \in 1..a
    BY <2>1, <1>1, <1>2 DEF InOrderOfTime
  <2>2. CASE i \in 1..a /\ j \notin 1..a
    <3>1. PICK k \in 1..b : j = a + k
      BY <2>2, <1>9
    <3> QED
      BY <2>2, <3>1, <1>1, <1>10
  <2>3. CASE i \notin 1..a
    <3>1. PICK k \in 1..b : i = a + k
      BY <2>3, <1>9
    <3>2. j \notin 1..a
      BY <3>1, <1>1
    <3>3. PICK l \in 1..b : j = a + l
      BY <3>2, <1>9
    <3>4. k < l
      BY <3>1, <3>3, <1>1
    <3>5. Newer(page[k], page[l])
      BY <3>4, <1>2 DEF InOrderOfTime
    <3> QED
      BY <3>1, <3>3, <3>5, <1>1
  <2> QED
    BY <2>1, <2>2, <2>3
<1>12. ToSet(u) = ToSet(shown) \cup ToSet(page)
  <2>1. \A i \in 1..a : i \in 1..(a + b)
    BY <1>1
  <2>2. \A k \in 1..b : a + k \in 1..(a + b)
    BY <1>1
  <2>3. ToSet(shown) \subseteq ToSet(u)
    BY <2>1, <1>1, <1>2 DEF ToSet
  <2>4. ToSet(page) \subseteq ToSet(u)
    BY <2>2, <1>1, <1>2 DEF ToSet
  <2>5. ToSet(u) \subseteq ToSet(shown) \cup ToSet(page)
    <3> SUFFICES ASSUME NEW i \in 1..(a + b) PROVE u[i] \in ToSet(shown) \cup ToSet(page)
      BY <1>2 DEF ToSet
    <3>1. CASE i \in 1..a
      BY <3>1, <1>1, <1>2 DEF ToSet
    <3>2. CASE i \notin 1..a
      BY <3>2, <1>9, <1>1, <1>2 DEF ToSet
    <3> QED
      BY <3>1, <3>2
  <2> QED
    BY <2>3, <2>4, <2>5
<1>13. b # 0 => a + b # 0 /\ Last(u) = Last(page)
  <2> SUFFICES ASSUME b # 0 PROVE a + b # 0 /\ b \in 1..b
    BY <1>1, <1>6, <1>7
  <2> QED
    BY <1>1
<1> QED
  BY <1>4, <1>8, <1>11, <1>12, <1>13, <1>1 DEF u

-----------------------------------------------------------------------------
(* The invariant.                                                          *)

ReaderRecord(L) ==
  [at : {"asks", "pages", "done", "refused"}, query : Queries, limit : LimitParams,
   cursor : Seq([at : Int, id : Int]), shown : Seq(L)]

(* A record of the start that is asked for and has not been shown. *)
Unseen(d, S, x) == x \in S /\ Wanted(x, d.query) /\ x \notin ToSet(d.shown)

(* What holds of a reader beside the log and what the log was at the start:
   between two pages the cursor is the last record shown. *)
ReaderStands(d, L, S) ==
  /\ d \in ReaderRecord(L)
  /\ InOrderOfTime(d.shown)
  /\ \A i \in DOMAIN d.shown : Wanted(d.shown[i], d.query)
  /\ d.at = "asks" => d.shown = <<>> /\ d.cursor = <<>>
  /\ d.at = "pages" =>
       /\ d.shown # <<>>
       /\ d.cursor = <<[at |-> Last(d.shown).at, id |-> Last(d.shown).id]>>
       /\ \A r : Unseen(d, S, r) => Newer(Last(d.shown), r)
  /\ d.at = "done" => \A r : ~ Unseen(d, S, r)

AuditInv ==
  /\ AuditTypeOK
  /\ Known(log)
  /\ \A r \in inserting : Millis(r.at) = r.at
  /\ ReaderStands(reader, log, atStart)

(* LIKE finds what is asked for. *)
LEMMA FilterIsWanted ==
  ASSUME NEW r \in Record, NEW q \in Queries
  PROVE  Filter(r, q) <=> Wanted(r, q)
<1> DEFINE a == r.action
           f == q.action
           X == ToSet(a) \cup ToSet(f)
<1>1. a \in Seq(ToSet(a)) /\ f \in Seq(ToSet(f))
  BY AuditAssumption DEF Record
<1>2. a \in Seq(X) /\ f \in Seq(X)
  BY <1>1, SeqMonotonic
<1> HIDE DEF a, f, X
<1>3. ASSUME f # <<>>, Last(f) = "*"
      PROVE  Like(a, EscapeLike(Front(f)) \o <<"%">>) <=> IsPrefix(Front(f), a)
  <2>1. Front(f) \in Seq(X)
    <3>1. Len(f) - 1 \in 0..Len(f)
      BY <1>2, <1>3
    <3> QED
      BY <1>2, <3>1, SubSeqOf DEF Front
  <2> QED
    BY <1>2, <2>1, LikeIsPrefix
<1>4. ActionFits(a, q) <=> IF f # <<>> /\ Last(f) = "*" THEN IsPrefix(Front(f), a)
                           ELSE f \in {<<>>, a}
  BY <1>3 DEF ActionFits, f
<1> QED
  BY <1>4 DEF Filter, Wanted, a, f

LEMMA LimitIsPositive ==
  ASSUME NEW p \in LimitParams
  PROVE  LimitOf(p) \in Nat \ {0}
<1>1. p = <<>> \/ p[1] \in Int
  BY AuditAssumption
<1> DEFINE n == IF p = <<>> THEN 0 ELSE Trunc(p[1])
<1>2. n \in Int
  BY <1>1 DEF Trunc
<1>3. LimitOf(p) = IF n = 0 THEN 50 ELSE IF n < 1 THEN 1 ELSE IF n > 200 THEN 200 ELSE n
  BY DEF LimitOf
<1> HIDE DEF n
<1> QED
  BY <1>2, <1>3

LEMMA StoredAtKeepsMillis ==
  ASSUME NEW t \in 0..TimeBound
  PROVE  /\ StoredAt(t) \in 0..(TimeBound + 1) /\ StoredAt(t) <= t + 1
         /\ Millis(StoredAt(t)) = StoredAt(t)
BY AuditAssumption DEF StoredAt, Millis

LEMMA AuditInitInv == AuditInit => AuditInv
<1> SUFFICES ASSUME AuditInit PROVE AuditInv
  OBVIOUS
<1>1. PICK q \in Queries, n \in LimitParams :
        reader = [at |-> "asks", query |-> q, limit |-> n, cursor |-> <<>>, shown |-> <<>>]
  BY DEF AuditInit
<1>2. reader \in ReaderRecord(log)
  BY <1>1 DEF ReaderRecord
<1>3. ReaderStands(reader, log, atStart)
  BY <1>1, <1>2 DEF ReaderStands, InOrderOfTime
<1>4. Known(log)
  BY FS_EmptySet DEF AuditInit, Known
<1>5. AuditTypeOK
  BY <1>1, AuditAssumption DEF AuditInit, AuditTypeOK
<1> QED
  BY <1>3, <1>4, <1>5 DEF AuditInv, AuditInit

(* More may be committed behind a reader. *)
LEMMA ReaderStandsOn ==
  ASSUME NEW d, NEW L, NEW M, L \subseteq M, NEW S, ReaderStands(d, L, S)
  PROVE  ReaderStands(d, M, S)
<1>1. Seq(L) \subseteq Seq(M)
  BY SeqMonotonic
<1>2. d \in ReaderRecord(M)
  BY <1>1 DEF ReaderRecord, ReaderStands
<1> QED
  BY <1>2 DEF ReaderStands

LEMMA InsertKeepsInv == AuditInv /\ BeginInsert => AuditInv'
<1> SUFFICES ASSUME AuditInv, BeginInsert PROVE AuditInv'
  OBVIOUS
<1>1. PICK a \in Action, w \in Actor, i \in Ids \ {r.id : r \in inserting \cup log} :
       inserting' = inserting \cup
         {[id |-> i, at |-> StoredAt(now), action |-> a, actor |-> IF w = "" THEN "system" ELSE w]}
  BY DEF BeginInsert
<1> DEFINE r == [id |-> i, at |-> StoredAt(now), action |-> a,
                 actor |-> IF w = "" THEN "system" ELSE w]
<1>2. now \in 0..TimeBound /\ AuditTypeOK /\ ReaderStands(reader, log, atStart)
  BY DEF AuditInv, AuditTypeOK
<1>3. r \in Record /\ r.at <= now + 1 /\ Millis(r.at) = r.at
  BY <1>2, StoredAtKeepsMillis DEF Record
<1>4. r.id = i /\ \A s \in inserting \cup log : s.id # i
  OBVIOUS
<1> HIDE DEF r
<1>5. inserting' = inserting \cup {r} /\ UNCHANGED <<now, log, reader, atStart>>
  BY <1>1 DEF BeginInsert, r
<1>6. AuditTypeOK'
  BY <1>2, <1>3, <1>4, <1>5 DEF AuditTypeOK
<1>7. (\A s \in inserting : Millis(s.at) = s.at)'
  BY <1>3, <1>5 DEF AuditInv
<1> QED
  BY <1>5, <1>6, <1>7 DEF AuditInv

LEMMA CommitKeepsInv == AuditInv /\ CommitInsert => AuditInv'
<1> SUFFICES ASSUME AuditInv, CommitInsert PROVE AuditInv'
  OBVIOUS
<1>1. PICK r \in inserting : inserting' = inserting \ {r} /\ log' = log \cup {r}
  BY DEF CommitInsert
<1>2. UNCHANGED <<now, reader, atStart>>
  BY DEF CommitInsert
<1>3. AuditTypeOK'
  BY <1>1, <1>2 DEF AuditTypeOK, AuditInv
<1>4. Known(log)'
  <2>1. IsFiniteSet(log \cup {r})
    BY FS_AddElement DEF AuditInv, Known
  <2>2. log' \in SUBSET Record /\ \A s, t \in log' : s.id = t.id => s = t
    BY <1>1 DEF AuditInv, AuditTypeOK
  <2>3. \A s \in log' : Millis(s.at) = s.at
    BY <1>1 DEF AuditInv, Known
  <2> QED
    BY <1>1, <2>1, <2>2, <2>3 DEF Known
<1>5. (\A s \in inserting : Millis(s.at) = s.at)'
  BY <1>1 DEF AuditInv
<1>6. ReaderStands(reader, log', atStart)
  BY <1>1, ReaderStandsOn DEF AuditInv
<1> QED
  BY <1>2, <1>3, <1>4, <1>5, <1>6 DEF AuditInv

(* The next page shows on what has been shown. *)
LEMMA ReadKeepsInv == AuditInv /\ ReadAuditPage => AuditInv'
<1> SUFFICES ASSUME AuditInv, ReadAuditPage PROVE AuditInv'
  OBVIOUS
<1> DEFINE q == reader.query
           n == LimitOf(reader.limit)
           F == Found(q, reader.cursor)
           found == InOrder(F, NewestFirst(log))
           page == SubSeq(found, 1, IF Len(found) > n THEN n ELSE Len(found))
           more == Len(found) > n
           u == reader.shown \o page
           S == IF reader.at = "asks" THEN log ELSE atStart
           e == [reader EXCEPT !.at = IF more THEN "pages" ELSE "done",
                   !.shown = @ \o page,
                   !.cursor = IF more THEN <<[at |-> Millis(Last(page).at), id |-> Last(page).id]>>
                              ELSE <<>>]
<1>1. /\ reader' = e /\ atStart' = S /\ reader.at \in {"asks", "pages"}
      /\ UNCHANGED <<now, inserting, log>>
  BY DEF ReadAuditPage
<1>2. /\ Known(log) /\ ReaderStands(reader, log, atStart) /\ atStart \subseteq log
      /\ reader \in ReaderRecord(log) /\ reader.shown \in Seq(log) /\ q \in Queries
      /\ InOrderOfTime(reader.shown)
  BY DEF AuditInv, AuditTypeOK, ReaderStands, ReaderRecord
<1>3. n \in Nat \ {0}
  BY <1>2, LimitIsPositive DEF ReaderRecord
<1>4. F \in SUBSET log
  BY DEF Found
<1>5. \A x \in F : x \in log /\ Wanted(x, q) /\ Behind(x, reader.cursor)
  <2>1. \A x \in log : x \in Record
    BY <1>2 DEF Known
  <2> QED
    BY <2>1, <1>2, FilterIsWanted DEF Found
<1>6. \A x \in log : Wanted(x, q) /\ Behind(x, reader.cursor) => x \in F
  <2>1. \A x \in log : x \in Record
    BY <1>2 DEF Known
  <2> QED
    BY <2>1, <1>2, FilterIsWanted DEF Found
<1>7. reader.shown # <<>> => Last(reader.shown) \in log
  <2>1. \A s \in Seq(log) : s # <<>> => Last(s) \in log
    BY DEF Last
  <2> QED
    BY <2>1, <1>2
<1>8. ASSUME NEW x \in log
      PROVE  Behind(x, reader.cursor) <=> (reader.shown # <<>> => Newer(Last(reader.shown), x))
  <2>1. CASE reader.at = "asks"
    BY <1>2, <2>1 DEF ReaderStands, Behind
  <2>2. CASE reader.at = "pages"
    <3>1. /\ reader.shown # <<>> /\ Last(reader.shown) \in Record /\ x \in Record
          /\ reader.cursor = <<[at |-> Last(reader.shown).at, id |-> Last(reader.shown).id]>>
      BY <1>2, <1>7, <2>2 DEF ReaderStands, Known
    <3>2. /\ reader.cursor # <<>> /\ reader.cursor[1].at = Last(reader.shown).at
          /\ reader.cursor[1].id = Last(reader.shown).id
      BY <3>1
    <3>3. \A y \in Record : y.at \in Int /\ y.id \in Int
      BY RecordNumbers
    <3> QED
      BY <3>1, <3>2, <3>3 DEF Behind, Newer
  <2> QED
    BY <1>1, <2>1, <2>2
<1> HIDE DEF F, n
<1>9. /\ page \in Seq(F) /\ InOrderOfTime(page)
      /\ more => /\ page # <<>>
                 /\ \A x \in F : x \in ToSet(page) \/ Newer(Last(page), x)
      /\ ~ more => F \subseteq ToSet(page)
  <2> QED
    BY ONLY <1>2, <1>3, <1>4, PageOfRows DEF found, page, more
<1>10. page \in Seq(log) /\ \A i \in DOMAIN page : page[i] \in F
  BY <1>4, <1>9, SeqMonotonic
<1> HIDE DEF page, more
<1>11. /\ u \in Seq(log) /\ InOrderOfTime(u)
       /\ ToSet(u) = ToSet(reader.shown) \cup ToSet(page)
       /\ page # <<>> => u # <<>> /\ Last(u) = Last(page)
  <2>1. reader.shown # <<>> => \A i \in DOMAIN page : Newer(Last(reader.shown), page[i])
    BY <1>5, <1>8, <1>10
  <2> QED
    <3> DEFINE shown == reader.shown
    <3>1. /\ shown \in Seq(log) /\ InOrderOfTime(shown)
          /\ shown # <<>> => \A i \in DOMAIN page : Newer(Last(shown), page[i])
      BY <1>2, <2>1
    <3> HIDE DEF u, shown
    <3>2. /\ u \in Seq(log) /\ InOrderOfTime(u)
          /\ ToSet(u) = ToSet(shown) \cup ToSet(page)
          /\ page # <<>> => u # <<>> /\ Last(u) = Last(page)
      BY ONLY <1>2, <1>9, <1>10, <3>1, ShownGoesOn DEF u, shown
    <3> QED
      BY ONLY <3>2 DEF shown
<1> HIDE DEF u
<1>12. /\ e.at = (IF more THEN "pages" ELSE "done") /\ e.shown = u
       /\ e.query = q /\ e.limit = reader.limit
       /\ e.cursor = IF more THEN <<[at |-> Millis(Last(page).at), id |-> Last(page).id]>> ELSE <<>>
  BY <1>2 DEF ReaderRecord, u
<1>13. more => /\ Last(page) \in log /\ Millis(Last(page).at) = Last(page).at
               /\ Last(u) = Last(page) /\ u # <<>>
  <2>1. \A s \in Seq(log) : s # <<>> => Last(s) \in log
    BY DEF Last
  <2> QED
    BY <2>1, <1>2, <1>9, <1>10, <1>11 DEF Known
<1>14. e \in ReaderRecord(log)
  <2> DEFINE C == [at : Int, id : Int]
             c == IF more THEN <<[at |-> Millis(Last(page).at), id |-> Last(page).id]>> ELSE <<>>
  <2>1. more => [at |-> Millis(Last(page).at), id |-> Last(page).id] \in C
    BY <1>2, <1>13, RecordNumbers DEF Known
  <2>2. c \in Seq(C)
    <3> HIDE DEF C
    <3> QED
      BY <2>1
  <2> HIDE DEF c, C
  <2>3. e = [reader EXCEPT !.at = IF more THEN "pages" ELSE "done", !.shown = u, !.cursor = c]
    BY DEF c, u
  <2>4. reader \in [at : {"asks", "pages", "done", "refused"}, query : Queries,
                    limit : LimitParams, cursor : Seq(C), shown : Seq(log)]
    BY <1>2 DEF C, ReaderRecord
  <2> HIDE DEF e
  <2>5. e \in [at : {"asks", "pages", "done", "refused"}, query : Queries,
                    limit : LimitParams, cursor : Seq(C), shown : Seq(log)]
    BY <2>2, <2>3, <2>4, <1>11
  <2> QED
    BY <2>5 DEF C, ReaderRecord
<1> HIDE DEF e
<1>15. \A x \in S : x \in log /\ (Wanted(x, q) =>
               x \in ToSet(reader.shown) \/ x \in F)
  <2> SUFFICES ASSUME NEW x \in S, Wanted(x, q), x \notin ToSet(reader.shown)
               PROVE  x \in log /\ x \in F
    BY <1>2
  <2>1. x \in log
    BY <1>2
  <2>2. reader.shown # <<>> => Newer(Last(reader.shown), x)
    <3>1. reader.at = "asks" => reader.shown = <<>>
      BY <1>2 DEF ReaderStands
    <3>2. reader.at = "pages" => x \in atStart /\ Unseen(reader, atStart, x)
      BY DEF Unseen
    <3> QED
      BY <1>1, <1>2, <3>1, <3>2 DEF ReaderStands
  <2> QED
    BY <2>1, <2>2, <1>6, <1>8
<1>16. \A i \in DOMAIN u : Wanted(u[i], q)
  <2>1. \A x \in ToSet(reader.shown) : Wanted(x, q)
    BY <1>2 DEF ReaderStands, ToSet
  <2>2. \A x \in ToSet(page) : Wanted(x, q)
    BY <1>5, <1>10 DEF ToSet
  <2>3. \A i \in DOMAIN u : u[i] \in ToSet(u)
    BY DEF ToSet
  <2> QED
    BY <2>1, <2>2, <2>3, <1>11
<1>17. \A x : Unseen(e, S, x) => x \in F /\ x \notin ToSet(page)
  BY <1>11, <1>12, <1>15 DEF Unseen
<1>18. more => \A x : Unseen(e, S, x) => Newer(Last(u), x)
  BY <1>9, <1>13, <1>17
<1>19. ~ more => \A x : ~ Unseen(e, S, x)
  BY <1>9, <1>17
<1>20. ReaderStands(e, log, S)
  BY <1>11, <1>12, <1>13, <1>14, <1>16, <1>18, <1>19 DEF ReaderStands
<1>21. AuditTypeOK'
  <2>1. reader'.at \in {"asks", "pages", "done", "refused"} /\ reader'.shown \in Seq(log)
    BY <1>1, <1>14 DEF ReaderRecord
  <2>2. \A s \in Seq(log) : \A i \in DOMAIN s : s[i] \in log
    OBVIOUS
  <2>3. atStart' \subseteq log'
    BY <1>1, <1>15
  <2> HIDE DEF S
  <2> QED
    BY <2>1, <2>2, <2>3, <1>1 DEF AuditTypeOK, AuditInv
<1> QED
  BY <1>1, <1>20, <1>21 DEF AuditInv

LEMMA AuditInductive == AuditSpec => []AuditInv
<1>1. AuditInv /\ [AuditNext]_auditVars => AuditInv'
  <2> SUFFICES ASSUME AuditInv, [AuditNext]_auditVars PROVE AuditInv'
    OBVIOUS
  <2>1. CASE ClockTicks
    <3>1. /\ now' = now + 1 /\ now \in 0..TimeBound /\ now < TimeBound
          /\ UNCHANGED <<inserting, log, reader, atStart>>
      BY <2>1 DEF ClockTicks, AuditInv, AuditTypeOK
    <3>2. now' \in 0..TimeBound
      BY ONLY <3>1, AuditAssumption
    <3>3. \A r \in inserting \cup log : r.at <= now' + 1
      <4> SUFFICES ASSUME NEW r \in inserting \cup log PROVE r.at <= now' + 1
        OBVIOUS
      <4>1. r \in Record /\ r.at <= now + 1
        BY DEF AuditInv, AuditTypeOK
      <4>2. r.at \in Int
        BY <4>1, RecordNumbers
      <4> QED
        BY ONLY <3>1, <4>1, <4>2
    <3> QED
      BY <3>1, <3>2, <3>3 DEF AuditInv, AuditTypeOK
  <2>2. CASE InsertFails
    BY <2>2 DEF InsertFails, AuditInv, AuditTypeOK
  <2>3. CASE RefuseQuery
    <3>1. /\ reader' = [reader EXCEPT !.at = "refused", !.cursor = <<>>]
          /\ reader \in ReaderRecord(log) /\ UNCHANGED <<now, inserting, log, atStart>>
      BY <2>3 DEF RefuseQuery, AuditInv, ReaderStands
    <3>2. /\ reader' \in ReaderRecord(log) /\ reader'.at = "refused"
          /\ reader'.shown = reader.shown /\ reader'.query = reader.query
      <4>1. <<>> \in Seq([at : Int, id : Int])
        OBVIOUS
      <4> DEFINE C == Seq([at : Int, id : Int])
                 D == Seq(log)
      <4>2. <<>> \in C
        BY <4>1
      <4> HIDE DEF C, D
      <4>3. reader \in [at : {"asks", "pages", "done", "refused"}, query : Queries,
                        limit : LimitParams, cursor : C, shown : D]
        BY <3>1 DEF ReaderRecord, C, D
      <4>4. /\ reader' \in [at : {"asks", "pages", "done", "refused"}, query : Queries,
                             limit : LimitParams, cursor : C, shown : D]
            /\ reader'.at = "refused" /\ reader'.shown = reader.shown
            /\ reader'.query = reader.query
        BY <3>1, <4>2, <4>3
      <4> QED
        BY <4>4 DEF ReaderRecord, C, D
    <3>3. ReaderStands(reader', log, atStart)
      BY <3>2 DEF AuditInv, ReaderStands
    <3> QED
      BY <3>1, <3>2, <3>3 DEF AuditInv, AuditTypeOK
  <2>4. CASE UNCHANGED auditVars
    BY <2>4 DEF auditVars, AuditInv, AuditTypeOK
  <2> QED
    BY <2>1, <2>2, <2>3, <2>4, InsertKeepsInv, CommitKeepsInv, ReadKeepsInv DEF AuditNext
<1> QED
  BY <1>1, AuditInitInv, PTL DEF AuditSpec

(* The records and the reader have their types, no record is both committed
   and under way, and none has a time ahead of the clock's millisecond. *)
THEOREM AuditTyped == AuditSpec => []AuditTypeOK
<1>1. AuditInv => AuditTypeOK
  BY DEF AuditInv
<1> QED
  BY <1>1, AuditInductive, PTL

(* An admin who pages to the end sees every record asked for that was there
   when the first page was read, once, newest first, and no other action. *)
THEOREM PagesAreExact == AuditSpec => []PagingIsExact
<1>1. AuditInv => PagingIsExact
  BY DEF AuditInv, ReaderStands, InOrderOfTime, Unseen, PagingIsExact
<1> QED
  BY <1>1, AuditInductive, PTL

-----------------------------------------------------------------------------
(* Webhooks.  Keys are equal in what they were made from. *)
LEMMA KeysEqual ==
  ASSUME NEW a, NEW b, NEW c, NEW x, NEW y, NEW z
  PROVE  [raw |-> a, prefix |-> b, text |-> c] = [raw |-> x, prefix |-> y, text |-> z]
           <=> (a = x /\ b = y /\ c = z)
OBVIOUS

(* The key tells the secret and how it is kept, or that there is none. *)
LEMMA KeysTell ==
  ASSUME NEW spec \in Specs, NEW g \in Specs, NEW secret \in Secrets,
         NEW t \in Secrets \cup {NoSecret}
  PROVE  HmacKey(spec, secret) = SendersKey(g, t)
           <=> t = Expected(spec, secret) /\ (Decoded(g, t) <=> Decoded(spec, secret))
<1>1. /\ spec.secretEncoding \in {"raw", "base64"}
      /\ spec.secretPrefix = (spec.secretEncoding = "base64")
      /\ secret \in [prefixed : BOOLEAN, text : STRING, base64 : BOOLEAN]
      /\ secret.text = "" => secret.prefixed
      /\ t \in Secrets => /\ t \in [prefixed : BOOLEAN, text : STRING, base64 : BOOLEAN]
                          /\ t.text = "" => t.prefixed
                          /\ secret.text = t.text => secret = t
  BY SignatureAssumption
<1>2. NoSecret.prefixed = FALSE /\ NoSecret.text = "" /\ NoSecret.base64 = FALSE
  BY DEF NoSecret
<1> DEFINE B == spec.secretEncoding = "base64"  c == Decoded(spec, secret)  e == Decoded(g, t)
           H == HmacKey(spec, secret)  K == SendersKey(g, t)
           sx == secret.text  tx == t.text  sp == secret.prefixed  tp == t.prefixed
<1>3. /\ c => H = [raw |-> FALSE, prefix |-> FALSE, text |-> sx]
      /\ ~B => H = [raw |-> TRUE, prefix |-> sp, text |-> sx]
      /\ B /\ ~c => H = [raw |-> TRUE, prefix |-> FALSE, text |-> ""]
  BY <1>1, Zenon DEF HmacKey, Decoded
<1>4. /\ e => K = [raw |-> FALSE, prefix |-> FALSE, text |-> tx]
      /\ ~e => K = [raw |-> TRUE, prefix |-> tp, text |-> tx]
  BY Zenon DEF SendersKey
<1>5. /\ c => B /\ secret.base64
      /\ B /\ ~c => ~secret.base64
      /\ e => t.base64
  BY DEF Decoded
<1>6. t = secret => tp = sp /\ tx = sx
  OBVIOUS
<1>7. t = NoSecret => tp = FALSE /\ tx = "" /\ ~e
  BY <1>2, <1>5
<1>8. t = NoSecret \/ t \in Secrets
  OBVIOUS
<1>9. /\ B /\ ~c => Expected(spec, secret) = NoSecret
      /\ ~(B /\ ~c) => Expected(spec, secret) = secret
  BY <1>5 DEF Expected, Decoded
<1> HIDE DEF B, c, e, H, K, sx, tx, sp, tp
<1>10. CASE c
  <2>1. e => (H = K <=> sx = tx)
    <3>1. [raw |-> FALSE, prefix |-> FALSE, text |-> sx] = [raw |-> FALSE, prefix |-> FALSE, text |-> tx]
            <=> sx = tx
      BY KeysEqual, Zenon
    <3> QED
      BY <1>3, <1>4, <1>10, <3>1, Zenon
  <2>2. ~e => H # K
    <3>1. [raw |-> FALSE, prefix |-> FALSE, text |-> sx] # [raw |-> TRUE, prefix |-> tp, text |-> tx]
      BY KeysEqual, Zenon
    <3> QED
      BY <1>3, <1>4, <1>10, <3>1, Zenon
  <2>3. e => (sx = tx <=> t = secret)
    BY <1>1, <1>6, <1>7, <1>8 DEF sx, tx
  <2> QED
    BY <1>9, <1>10, <2>1, <2>2, <2>3, Zenon DEF H, K, c, e
<1>11. CASE ~c
  <2>1. e => H # K
    <3>1. \A p, x : [raw |-> TRUE, prefix |-> p, text |-> x] # [raw |-> FALSE, prefix |-> FALSE, text |-> tx]
      BY KeysEqual, Zenon
    <3> QED
      BY <1>3, <1>4, <1>11, <3>1, Zenon
  <2>2. ~e /\ ~B => (H = K <=> t = secret)
    <3>1. [raw |-> TRUE, prefix |-> sp, text |-> sx] = [raw |-> TRUE, prefix |-> tp, text |-> tx]
            <=> sp = tp /\ sx = tx
      BY KeysEqual, Zenon
    <3>2. sp = tp /\ sx = tx <=> t = secret
      BY <1>1, <1>6, <1>7, <1>8 DEF sp, sx, tp, tx
    <3> QED
      BY <1>3, <1>4, <3>1, <3>2, Zenon
  <2>3. ~e /\ B => (H = K <=> t = NoSecret)
    <3>1. [raw |-> TRUE, prefix |-> FALSE, text |-> ""] = [raw |-> TRUE, prefix |-> tp, text |-> tx]
            <=> FALSE = tp /\ "" = tx
      BY KeysEqual, Zenon
    <3>2. (FALSE = tp /\ "" = tx) <=> t = NoSecret
      BY <1>1, <1>7, <1>8 DEF tp, tx
    <3> QED
      BY <1>3, <1>4, <1>11, <3>1, <3>2, Zenon
  <2> QED
    BY <1>9, <1>11, <2>1, <2>2, <2>3, Zenon DEF H, K, c, e
<1> QED
  BY <1>10, <1>11

(* A placeholder in a list of three, or of five, and elsewhere. *)
LEMMA PutInThree ==
  ASSUME NEW p, NEW value, NEW a, NEW b, NEW c
  PROVE  PutFor(<<a, b, c>>, p, value)
           = <<IF a = p THEN value ELSE a, IF b = p THEN value ELSE b, IF c = p THEN value ELSE c>>
BY DEF PutFor

LEMMA PutInFive ==
  ASSUME NEW p, NEW value, NEW a, NEW b, NEW c, NEW d, NEW e
  PROVE  PutFor(<<a, b, c, d, e>>, p, value)
           = <<IF a = p THEN value ELSE a, IF b = p THEN value ELSE b, IF c = p THEN value ELSE c,
               IF d = p THEN value ELSE d, IF e = p THEN value ELSE e>>
BY DEF PutFor

LEMMA PutInOne ==
  ASSUME NEW p, NEW value, NEW a
  PROVE  PutFor(<<a>>, p, value) = <<IF a = p THEN value ELSE a>>
BY DEF PutFor

(* The text is the template's with the values in their places. *)
LEMMA TemplateFilled ==
  ASSUME NEW T, NEW I, NEW B, NEW dot, T # I, T # B, I # B, dot \notin {T, I, B},
         NEW time, time \notin {I, B}, NEW id, id # B, NEW body
  PROVE  /\ PutFor(PutFor(PutFor(<<T, dot, B>>, T, time), I, id), B, body) = <<time, dot, body>>
         /\ PutFor(PutFor(PutFor(<<I, dot, T, dot, B>>, T, time), I, id), B, body)
              = <<id, dot, time, dot, body>>
<1>1. PutFor(PutFor(PutFor(<<T, dot, B>>, T, time), I, id), B, body) = <<time, dot, body>>
  <2>1. PutFor(<<T, dot, B>>, T, time) = <<time, dot, B>>
    BY PutInThree
  <2>2. PutFor(<<time, dot, B>>, I, id) = <<time, dot, B>>
    BY PutInThree
  <2>3. PutFor(<<time, dot, B>>, B, body) = <<time, dot, body>>
    BY PutInThree
  <2> QED
    BY <2>1, <2>2, <2>3
<1>2. PutFor(PutFor(PutFor(<<I, dot, T, dot, B>>, T, time), I, id), B, body)
        = <<id, dot, time, dot, body>>
  <2>1. PutFor(<<I, dot, T, dot, B>>, T, time) = <<I, dot, time, dot, B>>
    BY PutInFive
  <2>2. PutFor(<<I, dot, time, dot, B>>, I, id) = <<id, dot, time, dot, B>>
    BY PutInFive
  <2>3. PutFor(<<id, dot, time, dot, B>>, B, body) = <<id, dot, time, dot, body>>
    BY PutInFive
  <2> QED
    BY <2>1, <2>2, <2>3
<1> QED
  BY <1>1, <1>2

LEMMA TimeTemplate ==
  ASSUME NEW time, time # "{id}", time # "{body}", NEW id, id # "{body}", NEW body
  PROVE  PutFor(PutFor(PutFor(TimeAndBody, "{timestamp}", time), "{id}", id), "{body}", body)
           = <<time, ".", body>>
<1>1. /\ "{timestamp}" # "{id}" /\ "{timestamp}" # "{body}" /\ "{id}" # "{body}"
      /\ "." # "{timestamp}" /\ "." # "{id}" /\ "." # "{body}"
  OBVIOUS
<1> DEFINE T == "{timestamp}"  I == "{id}"  B == "{body}"  dot == "."
<1>2. /\ T # I /\ T # B /\ I # B /\ dot # T /\ dot # I /\ dot # B
      /\ time # I /\ time # B /\ id # B
      /\ TimeAndBody = <<T, dot, B>>
  BY <1>1 DEF TimeAndBody
<1> HIDE DEF T, I, B, dot
<1>3. PutFor(PutFor(PutFor(<<T, dot, B>>, T, time), I, id), B, body) = <<time, dot, body>>
  <2>1. dot \notin {T, I, B} /\ time \notin {I, B}
    BY <1>2
  <2>2. /\ PutFor(PutFor(PutFor(<<T, dot, B>>, T, time), I, id), B, body) = <<time, dot, body>>
        /\ PutFor(PutFor(PutFor(<<I, dot, T, dot, B>>, T, time), I, id), B, body)
             = <<id, dot, time, dot, body>>
    BY ONLY <1>2, <2>1, TemplateFilled
  <2> QED
    BY <2>2
<1>4. PutFor(PutFor(PutFor(TimeAndBody, T, time), I, id), B, body) = <<time, dot, body>>
  BY ONLY <1>2, <1>3
<1> QED
  BY <1>4 DEF T, I, B, dot

LEMMA IdTemplate ==
  ASSUME NEW time, time # "{id}", time # "{body}", NEW id, id # "{body}", NEW body
  PROVE  PutFor(PutFor(PutFor(IdTimeAndBody, "{timestamp}", time), "{id}", id), "{body}", body)
           = <<id, ".", time, ".", body>>
<1>1. /\ "{timestamp}" # "{id}" /\ "{timestamp}" # "{body}" /\ "{id}" # "{body}"
      /\ "." # "{timestamp}" /\ "." # "{id}" /\ "." # "{body}"
  OBVIOUS
<1> DEFINE T == "{timestamp}"  I == "{id}"  B == "{body}"  dot == "."
<1>2. /\ T # I /\ T # B /\ I # B /\ dot # T /\ dot # I /\ dot # B
      /\ time # I /\ time # B /\ id # B
      /\ IdTimeAndBody = <<I, dot, T, dot, B>>
  BY <1>1 DEF IdTimeAndBody
<1> HIDE DEF T, I, B, dot
<1>3. PutFor(PutFor(PutFor(<<I, dot, T, dot, B>>, T, time), I, id), B, body) = <<id, dot, time, dot, body>>
  <2>1. dot \notin {T, I, B} /\ time \notin {I, B}
    BY <1>2
  <2>2. /\ PutFor(PutFor(PutFor(<<T, dot, B>>, T, time), I, id), B, body) = <<time, dot, body>>
        /\ PutFor(PutFor(PutFor(<<I, dot, T, dot, B>>, T, time), I, id), B, body)
             = <<id, dot, time, dot, body>>
    BY ONLY <1>2, <2>1, TemplateFilled
  <2> QED
    BY <2>2
<1>4. PutFor(PutFor(PutFor(IdTimeAndBody, T, time), I, id), B, body) = <<id, dot, time, dot, body>>
  BY ONLY <1>2, <1>3
<1> QED
  BY <1>4 DEF T, I, B, dot

BodyFills(time, id, body) ==
  PutFor(PutFor(PutFor(BodyAlone, "{timestamp}", time), "{id}", id), "{body}", body) = <<body>>

LEMMA BodyFilled ==
  ASSUME NEW time, NEW id, NEW body
  PROVE  BodyFills(time, id, body)
<1>1. "{body}" # "{timestamp}" /\ "{body}" # "{id}"
  OBVIOUS
<1> DEFINE T == "{timestamp}"  I == "{id}"  B == "{body}"
<1>2. B # T /\ B # I /\ BodyAlone = <<B>>
  BY <1>1 DEF BodyAlone
<1> HIDE DEF T, I, B
<1>3. /\ PutFor(<<B>>, T, time) = <<B>> /\ PutFor(<<B>>, I, id) = <<B>>
      /\ PutFor(<<B>>, B, body) = <<body>>
  BY <1>2, PutInOne
<1>4. PutFor(PutFor(PutFor(BodyAlone, T, time), I, id), B, body) = <<body>>
  BY <1>2, <1>3
<1> QED
  BY <1>4 DEF T, I, B, BodyFills

(* Lists of one, three or five pieces are equal piece by piece. *)
LEMMA ThreeTell ==
  ASSUME NEW dot, NEW a, NEW b, NEW x, NEW y
  PROVE  (<<a, dot, b>> = <<x, dot, y>>) <=> (a = x /\ b = y)
OBVIOUS

LEMMA FiveTell ==
  ASSUME NEW dot, NEW a, NEW b, NEW c, NEW x, NEW y, NEW z
  PROVE  (<<a, dot, b, dot, c>> = <<x, dot, y, dot, z>>) <=> (a = x /\ b = y /\ c = z)
OBVIOUS

LEMMA OneTells ==
  ASSUME NEW a, NEW x
  PROVE  (<<a>> = <<x>>) <=> (a = x)
OBVIOUS

LEMMA LengthsTell ==
  ASSUME NEW dot, NEW a, NEW b, NEW c, NEW x, NEW y, NEW z, NEW w
  PROVE  /\ <<a, dot, b>> # <<x, dot, y, dot, z>> /\ <<a, dot, b>> # <<w>>
         /\ <<x, dot, y, dot, z>> # <<w>>
OBVIOUS

(* The text tells the template and every piece that is signed. *)
LEMMA TextsTell ==
  ASSUME NEW spec \in Specs, NEW d \in Deliveries, NEW f, f.spec \in Specs,
         spec.payload # BodyAlone => IsDecimal(ParsedTimestamp(spec, d))
  PROVE  SignedText(spec, d) = SendersText(f)
           <=> /\ f.spec.payload = spec.payload /\ f.body = d.body
               /\ spec.payload # BodyAlone => f.time = ParsedTimestamp(spec, d)
               /\ spec.payload = IdTimeAndBody => f.id = d.id
<1> DEFINE time == ParsedTimestamp(spec, d)
<1>1. /\ spec.payload \in {TimeAndBody, IdTimeAndBody, BodyAlone}
      /\ f.spec.payload \in {TimeAndBody, IdTimeAndBody, BodyAlone}
      /\ d.id # "{body}"
      /\ spec.payload # BodyAlone => time # "{id}" /\ time # "{body}"
  BY SignatureAssumption, Zenon DEF IsDecimal
<1>2. SignedText(spec, d) =
        PutFor(PutFor(PutFor(spec.payload, "{timestamp}", time), "{id}", d.id), "{body}", d.body)
  BY DEF SignedText
<1> HIDE DEF time
<1>3. TimeAndBody # IdTimeAndBody /\ TimeAndBody # BodyAlone /\ IdTimeAndBody # BodyAlone
  <2>1. \A a, b, c, d1, e, f1, g, h, i : <<a, b, c>> # <<d1, e, f1, g, h>> /\ <<a, b, c>> # <<i>> /\ <<d1, e, f1, g, h>> # <<i>>
    OBVIOUS
  <2> QED
    BY <2>1, Zenon DEF TimeAndBody, IdTimeAndBody, BodyAlone
<1>4. /\ spec.payload = TimeAndBody => SignedText(spec, d) = <<time, ".", d.body>>
      /\ spec.payload = IdTimeAndBody => SignedText(spec, d) = <<d.id, ".", time, ".", d.body>>
  <2> SUFFICES ASSUME spec.payload # BodyAlone
               PROVE  /\ spec.payload = TimeAndBody => SignedText(spec, d) = <<time, ".", d.body>>
                      /\ spec.payload = IdTimeAndBody => SignedText(spec, d) = <<d.id, ".", time, ".", d.body>>
    BY <1>3, Zenon
  <2>1. /\ PutFor(PutFor(PutFor(TimeAndBody, "{timestamp}", time), "{id}", d.id), "{body}", d.body)
              = <<time, ".", d.body>>
        /\ PutFor(PutFor(PutFor(IdTimeAndBody, "{timestamp}", time), "{id}", d.id), "{body}", d.body)
              = <<d.id, ".", time, ".", d.body>>
    <3> DEFINE i == d.id  b == d.body
    <3>1. time # "{id}" /\ time # "{body}" /\ i # "{body}"
      BY <1>1
    <3> HIDE DEF i, b
    <3>2. /\ PutFor(PutFor(PutFor(TimeAndBody, "{timestamp}", time), "{id}", i), "{body}", b)
              = <<time, ".", b>>
          /\ PutFor(PutFor(PutFor(IdTimeAndBody, "{timestamp}", time), "{id}", i), "{body}", b)
              = <<i, ".", time, ".", b>>
      BY ONLY <3>1, TimeTemplate, IdTemplate, Zenon
    <3> QED
      BY <3>2 DEF i, b
  <2> QED
    BY <1>2, <2>1, Zenon
<1>5. spec.payload = BodyAlone => SignedText(spec, d) = <<d.body>>
  <2>1. BodyFills(time, d.id, d.body)
    BY ONLY BodyFilled, Zenon
  <2> QED
    BY <1>2, <2>1, Zenon DEF BodyFills
<1> DEFINE dot == "."
<1>6. /\ f.spec.payload = TimeAndBody => SendersText(f) = <<f.time, dot, f.body>>
      /\ f.spec.payload = IdTimeAndBody => SendersText(f) = <<f.id, dot, f.time, dot, f.body>>
      /\ f.spec.payload = BodyAlone => SendersText(f) = <<f.body>>
  BY <1>3 DEF SendersText
<1>7. /\ spec.payload = TimeAndBody => SignedText(spec, d) = <<time, dot, d.body>>
      /\ spec.payload = IdTimeAndBody => SignedText(spec, d) = <<d.id, dot, time, dot, d.body>>
  BY <1>4
<1> DEFINE P == spec.payload  Q == f.spec.payload  S == SignedText(spec, d)  U == SendersText(f)
           A == TimeAndBody  B == IdTimeAndBody  C == BodyAlone
           fb == f.body  ft == f.time  fi == f.id  db == d.body  di == d.id
<1>8. /\ P \in {A, B, C} /\ Q \in {A, B, C} /\ A # B /\ A # C /\ B # C
      /\ P = A => S = <<time, dot, db>>
      /\ P = B => S = <<di, dot, time, dot, db>>
      /\ P = C => S = <<db>>
      /\ Q = A => U = <<ft, dot, fb>>
      /\ Q = B => U = <<fi, dot, ft, dot, fb>>
      /\ Q = C => U = <<fb>>
  BY <1>1, <1>3, <1>5, <1>6, <1>7, Zenon
<1> HIDE DEF P, Q, S, U, A, B, C, dot, fb, ft, fi, db, di
<1>9. P = A => (S = U <=> Q = P /\ fb = db /\ (P # C => ft = time) /\ (P = B => fi = di))
  BY ONLY <1>8, ThreeTell, LengthsTell
<1>10. P = B => (S = U <=> Q = P /\ fb = db /\ (P # C => ft = time) /\ (P = B => fi = di))
  <2>1. <<di, dot, time, dot, db>> = <<fi, dot, ft, dot, fb>> <=> di = fi /\ time = ft /\ db = fb
    BY FiveTell, Zenon
  <2>2. <<di, dot, time, dot, db>> # <<fb>> /\ <<ft, dot, fb>> # <<di, dot, time, dot, db>>
    BY LengthsTell, Zenon
  <2> QED
    BY ONLY <1>8, <2>1, <2>2
<1>11. P = C => (S = U <=> Q = P /\ fb = db /\ (P # C => ft = time) /\ (P = B => fi = di))
  BY ONLY <1>8, OneTells, LengthsTell
<1>12. S = U <=> /\ Q = P /\ fb = db
                 /\ (P # C => ft = time)
                 /\ (P = B => fi = di)
  BY <1>8, <1>9, <1>10, <1>11
<1> QED
  BY <1>12, Zenon DEF P, Q, S, U, B, C, fb, ft, fi, db, di, time

(* The parts of a key, the first of them and whether there are any. *)
LEMMA PartsGiven ==
  ASSUME NEW parts, parts \in Seq(ToSet(parts)), NEW T
  PROVE  /\ (Those(parts, T) = <<>>) <=> PlacesOf(parts, T) = {}
         /\ ToSet(Those(parts, T)) = {parts[i] : i \in PlacesOf(parts, T)}
         /\ \A i \in PlacesOf(parts, T) :
              (\A j \in PlacesOf(parts, T) : i <= j) => Those(parts, T)[1] = parts[i]
         /\ PlacesOf(parts, T) # {} =>
              \E i \in PlacesOf(parts, T) : \A j \in PlacesOf(parts, T) : i <= j
<1> DEFINE K == PlacesOf(parts, T)
<1>1. K = {i \in DOMAIN parts : parts[i] \in T}
  BY DEF PlacesOf
<1> HIDE DEF K
<1>2. \A i \in K : (\A j \in K : i <= j) => Those(parts, T) # <<>> /\ Those(parts, T)[1] = parts[i]
  BY ThoseFirst DEF K
<1>3. K # {} => \E i \in K : \A j \in K : i <= j
  <2>1. K \in SUBSET Nat
    BY <1>1
  <2> QED
    BY <2>1, LeastOf
<1>4. ToSet(Those(parts, T)) = ToSet(parts) \cap T /\ Those(parts, T) \in Seq(ToSet(parts))
  BY ThoseKept
<1>5. ToSet(parts) \cap T = {parts[i] : i \in K}
  BY <1>1 DEF ToSet
<1>6. K = {} => Those(parts, T) = <<>>
  <2> DEFINE u == Those(parts, T)
  <2>1. K = {} => ToSet(u) = {}
    BY <1>4, <1>5
  <2>2. u \in Seq(ToSet(parts))
    BY <1>4
  <2> HIDE DEF u
  <2>3. ToSet(u) = {} => u = <<>>
    <3>1. ToSet(u) = {} => DOMAIN u = {}
      BY DEF ToSet
    <3> QED
      BY <2>2, <3>1
  <2> QED
    BY <2>1, <2>3 DEF u
<1> QED
  BY <1>2, <1>3, <1>4, <1>5, <1>6 DEF K

(* The signatures that are compared stand at the places that may count. *)
LEMMA SignaturesCount ==
  ASSUME NEW spec \in Specs, NEW d \in Deliveries, NEW V
  PROVE  (/\ HeaderSignatures(spec, d) # <<>>
          /\ \E i \in DOMAIN Signatures(spec, d) : Signatures(spec, d)[i] \in V)
           <=> \E i \in MayCount(spec, d.signature) : d.signature[i] \in V
<1> DEFINE parts == d.signature
           label == IF spec.format = "scheme_hex" THEN spec.algorithm ELSE "v1"
           T == {p \in ToSet(parts) : p.key = label /\ p.value.as # ""}
           K == PlacesOf(parts, T)
           one == spec.format = "scheme_hex" => Len(parts) = 1
           H == HeaderSignatures(spec, d)
           kept == Those(parts, T)
<1>1. parts \in Seq(ToSet(parts)) /\ spec.allowMultiple \in BOOLEAN
  BY SignatureAssumption
<1>2. H = IF one THEN kept ELSE <<>>
  <2>1. CASE spec.format # "scheme_hex"
    BY <2>1 DEF HeaderSignatures, GivenParts
  <2>2. CASE spec.format = "scheme_hex" /\ Len(parts) = 1
    BY <2>2 DEF HeaderSignatures, GivenParts
  <2>3. CASE spec.format = "scheme_hex" /\ Len(parts) # 1
    BY <2>3 DEF HeaderSignatures
  <2> QED
    BY <2>1, <2>2, <2>3
<1>3. K = {i \in DOMAIN parts : parts[i].key = label /\ parts[i].value.as # ""}
  BY DEF ToSet, PlacesOf
<1>4. MayCount(spec, parts) = {i \in K : (spec.allowMultiple \/ \A j \in K : i <= j) /\ one}
  <2> HIDE DEF K
  <2> QED
    BY <1>3 DEF MayCount
<1>5. Signatures(spec, d) = IF spec.allowMultiple THEN H ELSE <<H[1]>>
  BY DEF Signatures
<1> HIDE DEF parts, label, T, K, one, H
<1>7. /\ (kept = <<>>) <=> K = {}
      /\ ToSet(kept) = {parts[i] : i \in K}
      /\ \A i \in K : (\A j \in K : i <= j) => kept[1] = parts[i]
      /\ K # {} => \E i \in K : \A j \in K : i <= j
  BY <1>1, PartsGiven DEF K
<1>8. ToSet(kept) = {kept[i] : i \in DOMAIN kept}
  BY DEF ToSet
<1> HIDE DEF kept
<1>9. CASE ~one
  BY <1>2, <1>4, <1>9 DEF parts, H
<1>10. CASE one /\ spec.allowMultiple
  <2>1. Signatures(spec, d) = kept /\ MayCount(spec, parts) = K /\ H = kept
    BY <1>2, <1>4, <1>5, <1>10
  <2>2. (\E i \in DOMAIN kept : kept[i] \in V) <=> \E i \in K : parts[i] \in V
    BY <1>7, <1>8
  <2>3. (\E i \in K : parts[i] \in V) => kept # <<>>
    BY <1>7
  <2> QED
    BY <2>1, <2>2, <2>3 DEF parts, H
<1>11. CASE one /\ ~spec.allowMultiple
  <2>1. Signatures(spec, d) = <<kept[1]>> /\ MayCount(spec, parts) = {i \in K : \A j \in K : i <= j} /\ H = kept
    BY <1>2, <1>4, <1>5, <1>11
  <2>2. (\E i \in DOMAIN <<kept[1]>> : <<kept[1]>>[i] \in V) <=> kept[1] \in V
    OBVIOUS
  <2>3. (kept # <<>> /\ kept[1] \in V) <=> \E i \in {k \in K : \A j \in K : k <= j} : parts[i] \in V
    BY <1>7
  <2> QED
    BY <2>1, <2>2, <2>3 DEF parts, H
<1> QED
  BY <1>1, <1>9, <1>10, <1>11

(* Only the first t= is read. *)
LEMMA TimesParse ==
  ASSUME NEW d \in Deliveries
  PROVE  (PartsOf(d.signature, "t") # <<>> => IsDecimal(HeaderTimestamp(d)))
           <=> \A i \in DOMAIN d.signature : d.signature[i].key = "t" =>
                 IsDecimal(d.signature[i].value.of) \/ \E j \in 1..(i - 1) : d.signature[j].key = "t"
<1> DEFINE parts == d.signature
           T == {p \in ToSet(parts) : p.key = "t"}
           K == PlacesOf(parts, T)
           ts == Those(parts, T)
<1>1. parts \in Seq(ToSet(parts))
  BY SignatureAssumption
<1>2. PartsOf(parts, "t") = ts /\ (ts # <<>> => HeaderTimestamp(d) = ts[1].value.of)
  BY DEF PartsOf, HeaderTimestamp
<1>3. K = {i \in DOMAIN parts : parts[i].key = "t"}
  BY DEF ToSet, PlacesOf
<1>4. K \in SUBSET (1..Len(parts)) /\ Len(parts) \in Nat
      /\ DOMAIN parts = 1..Len(parts)
  BY <1>1 DEF PlacesOf
<1> HIDE DEF parts, T, K
<1>5. /\ (ts = <<>>) <=> K = {}
      /\ \A i \in K : (\A j \in K : i <= j) => ts[1] = parts[i]
      /\ K # {} => \E i \in K : \A j \in K : i <= j
  BY <1>1, PartsGiven DEF K
<1> HIDE DEF ts
<1>6. (\A i \in DOMAIN parts : parts[i].key = "t" =>
         IsDecimal(parts[i].value.of) \/ \E j \in 1..(i - 1) : parts[j].key = "t")
        <=> \A i \in K : (\A j \in K : i <= j) => IsDecimal(parts[i].value.of)
  <2>1. ASSUME NEW i \in K
        PROVE  (\E j \in 1..(i - 1) : parts[j].key = "t") <=> ~ \A j \in K : i <= j
    <3>1. \A j \in Int : j \in 1..(i - 1) <=> (j \in 1..Len(parts) /\ ~(i <= j))
      BY <1>4
    <3> QED
      BY <1>3, <1>4, <3>1
  <2> QED
    BY <1>3, <2>1
<1>7. (ts # <<>> => IsDecimal(ts[1].value.of))
        <=> \A i \in K : (\A j \in K : i <= j) => IsDecimal(parts[i].value.of)
  <2>1. CASE K = {}
    BY <1>5, <2>1
  <2>2. CASE K # {}
    <3>1. PICK k \in K : \A j \in K : k <= j
      BY <1>5, <2>2
    <3>2. \A i \in K : (\A j \in K : i <= j) => i = k
      BY <1>4, <3>1
    <3> QED
      BY <1>5, <2>2, <3>1, <3>2
  <2> QED
    BY <2>1, <2>2
<1> QED
  BY <1>2, <1>6, <1>7 DEF parts

(* Whole seconds of milliseconds, on both sides of now. *)
LEMMA MillisWithin ==
  ASSUME NEW n \in Nat, NEW clock \in Int, NEW tolerance \in Nat
  PROVE  (clock - (n \div 1000) <= tolerance /\ -(clock - (n \div 1000)) <= tolerance)
           <=> n \in (1000 * (clock - tolerance))..(1000 * (clock + tolerance) + 999)
<1> DEFINE q == n \div 1000
           r == n % 1000
<1>1. q \in Int /\ r \in 0..999 /\ n = 1000 * q + r
  OBVIOUS
<1> HIDE DEF q, r
<1>2. (clock - q <= tolerance /\ -(clock - q) <= tolerance)
        <=> n \in (1000 * (clock - tolerance))..(1000 * (clock + tolerance) + 999)
  BY <1>1
<1> QED
  BY <1>2 DEF q

LEMMA ToleranceMeans ==
  ASSUME NEW spec \in Specs, NEW d \in Deliveries,
         spec.timestampSource # "none" => IsDecimal(ParsedTimestamp(spec, d))
  PROVE  WithinTolerance(spec, d) <=> (spec.timestampSource # "none" => Recent(spec, d))
<1> SUFFICES ASSUME spec.timestampSource # "none"
             PROVE  WithinTolerance(spec, d) <=> Recent(spec, d)
  BY DEF WithinTolerance
<1> DEFINE n == Number[ParsedTimestamp(spec, d)]
           tolerance == spec.toleranceSec
<1>1. n \in Nat /\ Now \in Int /\ tolerance \in Nat
  BY SignatureAssumption DEF IsDecimal
<1>2. CASE spec.unit = "millis"
  <2>1. WithinTolerance(spec, d) <=> Now - (n \div 1000) <= tolerance /\ -(Now - (n \div 1000)) <= tolerance
    BY <1>2 DEF WithinTolerance, Seconds
  <2>2. Recent(spec, d) <=> n \in (1000 * (Now - tolerance))..(1000 * (Now + tolerance) + 999)
    BY <1>2 DEF Recent
  <2> HIDE DEF n, tolerance
  <2> QED
    BY <1>1, <2>1, <2>2, MillisWithin
<1>3. CASE spec.unit # "millis"
  <2>1. WithinTolerance(spec, d) <=> Now - n <= tolerance /\ -(Now - n) <= tolerance
    BY <1>3 DEF WithinTolerance, Seconds
  <2>2. Recent(spec, d) <=> n \in (Now - tolerance)..(Now + tolerance)
    BY <1>3 DEF Recent
  <2> HIDE DEF n, tolerance
  <2> QED
    BY <1>1, <2>1, <2>2
<1> QED
  BY <1>2, <1>3

-----------------------------------------------------------------------------
(* What AcceptedIsAuthentic says of a delivery. *)
Authentic(spec, d, secret) ==
  LET signs(what) == what \in ToSet(spec.payload)
  IN /\ spec.format = "kv_t_v" =>
          \A i \in DOMAIN d.signature : d.signature[i].key = "t" =>
            IsDecimal(d.signature[i].value.of) \/ \E j \in 1..(i - 1) : d.signature[j].key = "t"
     /\ spec.timestampSource # "none" => IsDecimal(ParsedTimestamp(spec, d)) /\ Recent(spec, d)
     /\ signs("{id}") => d.id # ""
     /\ \E i \in MayCount(spec, d.signature) :
          LET f == d.signature[i].facts
          IN /\ SignatureDecodes(d.signature[i].value, spec.encoding)
             /\ f.spec.payload = spec.payload /\ f.body = d.body
             /\ f.secret = Expected(spec, secret)
             /\ Decoded(f.spec, f.secret) <=> Decoded(spec, secret)
             /\ signs("{timestamp}") => f.time = ParsedTimestamp(spec, d)
             /\ signs("{id}") => f.id = d.id

(* What a template mentions is what its senders sign. *)
LEMMA TemplateSigns ==
  ASSUME NEW spec \in Specs
  PROVE  /\ "{timestamp}" \in ToSet(spec.payload) <=> spec.payload # BodyAlone
         /\ "{id}" \in ToSet(spec.payload) <=> spec.payload = IdTimeAndBody
<1> DEFINE T == "{timestamp}"  I == "{id}"  B == "{body}"  dot == "."
<1>1. /\ T # I /\ T # B /\ I # B /\ dot # T /\ dot # I /\ dot # B
      /\ TimeAndBody = <<T, dot, B>> /\ IdTimeAndBody = <<I, dot, T, dot, B>> /\ BodyAlone = <<B>>
  BY DEF TimeAndBody, IdTimeAndBody, BodyAlone
<1> HIDE DEF T, I, B, dot
<1>2. /\ ToSet(<<T, dot, B>>) = {T, dot, B} /\ ToSet(<<I, dot, T, dot, B>>) = {I, T, dot, B}
      /\ ToSet(<<B>>) = {B}
  BY DEF ToSet
<1>3. /\ <<T, dot, B>> # <<I, dot, T, dot, B>> /\ <<T, dot, B>> # <<B>>
      /\ <<I, dot, T, dot, B>> # <<B>>
  OBVIOUS
<1>4. spec.payload \in {TimeAndBody, IdTimeAndBody, BodyAlone}
  BY SignatureAssumption
<1>5. T \in ToSet(spec.payload) <=> spec.payload # BodyAlone
  BY <1>1, <1>2, <1>3, <1>4
<1>6. I \in ToSet(spec.payload) <=> spec.payload = IdTimeAndBody
  BY <1>1, <1>2, <1>3, <1>4
<1> QED
  BY <1>5, <1>6 DEF T, I

(* A digest that is the one computed was made from the same things. *)
LEMMA DigestTells ==
  ASSUME NEW spec \in Specs, NEW d \in Deliveries, NEW secret \in Secrets,
         NEW p \in ToSet(d.signature), SignatureDecodes(p.value, spec.encoding),
         spec.payload # BodyAlone => IsDecimal(ParsedTimestamp(spec, d))
  PROVE  p.value.of = Hmac(HmacKey(spec, secret), SignedText(spec, d))
           <=> /\ p.facts.spec.payload = spec.payload /\ p.facts.body = d.body
               /\ p.facts.secret = Expected(spec, secret)
               /\ Decoded(p.facts.spec, p.facts.secret) <=> Decoded(spec, secret)
               /\ spec.payload # BodyAlone => p.facts.time = ParsedTimestamp(spec, d)
               /\ spec.payload = IdTimeAndBody => p.facts.id = d.id
<1> DEFINE f == p.facts
<1>1. p.value.as \in {"hex", "base64", "rawbase64"}
  BY DEF SignatureDecodes
<1>2. /\ f.spec \in Specs /\ f.secret \in Secrets \cup {NoSecret}
      /\ p.value.of = Hmac(SendersKey(f.spec, f.secret), SendersText(f))
  BY <1>1, SignatureAssumption
<1> HIDE DEF f
<1>3. HmacKey(spec, secret) = SendersKey(f.spec, f.secret)
        <=> f.secret = Expected(spec, secret) /\ (Decoded(f.spec, f.secret) <=> Decoded(spec, secret))
  BY <1>2, KeysTell
<1>4. SignedText(spec, d) = SendersText(f)
           <=> /\ f.spec.payload = spec.payload /\ f.body = d.body
               /\ spec.payload # BodyAlone => f.time = ParsedTimestamp(spec, d)
               /\ spec.payload = IdTimeAndBody => f.id = d.id
  BY <1>2, TextsTell
<1> DEFINE K == HmacKey(spec, secret)  KS == SendersKey(f.spec, f.secret)
           X == SignedText(spec, d)  XS == SendersText(f)
<1>6. p.value.of = Hmac(K, X) <=> K = KS /\ X = XS
  <2> HIDE DEF K, KS, X, XS
  <2>1. p.value.of = Hmac(KS, XS)
    BY <1>2 DEF KS, XS
  <2>2. Hmac(KS, XS) = Hmac(K, X) <=> KS = K /\ XS = X
    BY ONLY SMT DEF Hmac
  <2> QED
    BY <2>1, <2>2
<1>7. K = KS /\ X = XS
        <=> /\ f.spec.payload = spec.payload /\ f.body = d.body
            /\ f.secret = Expected(spec, secret)
            /\ (Decoded(f.spec, f.secret) <=> Decoded(spec, secret))
            /\ (spec.payload # BodyAlone => f.time = ParsedTimestamp(spec, d))
            /\ (spec.payload = IdTimeAndBody => f.id = d.id)
  <2> DEFINE L1 == f.secret = Expected(spec, secret)  L2 == Decoded(f.spec, f.secret) <=> Decoded(spec, secret)
             L3 == f.spec.payload = spec.payload  L4 == f.body = d.body
             L5 == spec.payload # BodyAlone => f.time = ParsedTimestamp(spec, d)
             L6 == spec.payload = IdTimeAndBody => f.id = d.id
  <2>1. K = KS <=> L1 /\ L2
    BY <1>3, Zenon
  <2>2. X = XS <=> L3 /\ L4 /\ L5 /\ L6
    BY <1>4, Zenon
  <2> HIDE DEF K, KS, X, XS, L1, L2, L3, L4, L5, L6
  <2>3. K = KS /\ X = XS <=> L3 /\ L4 /\ L1 /\ L2 /\ L5 /\ L6
    BY <2>1, <2>2, Zenon
  <2> QED
    BY <2>3, Zenon DEF L1, L2, L3, L4, L5, L6
<1> QED
  BY <1>6, <1>7, Zenon DEF f

LEMMA VerifyMeans ==
  ASSUME NEW spec \in Specs, NEW d \in Deliveries, NEW secret \in Secrets
  PROVE  Verify(spec, d, secret) <=> Authentic(spec, d, secret)
<1> DEFINE time == ParsedTimestamp(spec, d)
           timed == spec.timestampSource # "none" => IsDecimal(time)
           H == Hmac(HmacKey(spec, secret), SignedText(spec, d))
           V == {p \in ToSet(d.signature) : SignatureDecodes(p.value, spec.encoding) /\ p.value.of = H}
           tells(p) == /\ SignatureDecodes(p.value, spec.encoding)
                       /\ p.facts.spec.payload = spec.payload /\ p.facts.body = d.body
                       /\ p.facts.secret = Expected(spec, secret)
                       /\ Decoded(p.facts.spec, p.facts.secret) <=> Decoded(spec, secret)
                       /\ spec.payload # BodyAlone => p.facts.time = time
                       /\ spec.payload = IdTimeAndBody => p.facts.id = d.id
           headed == spec.format = "kv_t_v" =>
             \A i \in DOMAIN d.signature : d.signature[i].key = "t" =>
               IsDecimal(d.signature[i].value.of) \/ \E j \in 1..(i - 1) : d.signature[j].key = "t"
           known == spec.payload = IdTimeAndBody => d.id # ""
           counted == \E i \in MayCount(spec, d.signature) : d.signature[i] \in V
           told == \E i \in MayCount(spec, d.signature) : tells(d.signature[i])
           recent == spec.timestampSource # "none" => Recent(spec, d)
<1>1. /\ spec.payload # BodyAlone => spec.timestampSource # "none"
      /\ spec.payload = IdTimeAndBody => spec.hasId
      /\ spec.payload = IdTimeAndBody => spec.payload # BodyAlone
      /\ d.signature \in Seq(ToSet(d.signature))
  <2>1. IdTimeAndBody # BodyAlone
    <3>1. \A a, b, c, e, g, h : <<a, b, c, e, g>> # <<h>>
      OBVIOUS
    <3> QED
      BY <3>1, Zenon DEF IdTimeAndBody, BodyAlone
  <2> QED
    BY <2>1, SignatureAssumption, Zenon
<1>2. Parses(spec, d) <=> HeaderSignatures(spec, d) # <<>> /\ headed /\ timed
  BY TimesParse DEF Parses
<1>3. timed => (WithinTolerance(spec, d) <=> recent)
  BY ToleranceMeans
<1>4. Complete(spec, d) <=> known
  BY <1>1, TemplateSigns, Zenon DEF Complete, Mentions
<1>5. \A i \in DOMAIN Signatures(spec, d) : HeaderSignatures(spec, d) # <<>> =>
        Signatures(spec, d)[i] \in ToSet(d.signature)
  <2>1. HeaderSignatures(spec, d) \in Seq(ToSet(d.signature))
    <3>1. \A T : Those(d.signature, T) \in Seq(ToSet(d.signature))
      BY <1>1, ThoseKept
    <3>2. <<>> \in Seq(ToSet(d.signature))
      OBVIOUS
    <3> QED
      BY <3>1, <3>2 DEF HeaderSignatures, GivenParts
  <2> DEFINE h == HeaderSignatures(spec, d)
  <2> HIDE DEF h
  <2>2. h \in Seq(ToSet(d.signature)) /\ (Signatures(spec, d) = h \/ Signatures(spec, d) = <<h[1]>>)
    BY <2>1 DEF h, Signatures
  <2>3. h # <<>> => h[1] \in ToSet(d.signature)
    BY <2>2
  <2>4. \A i \in DOMAIN h : h[i] \in ToSet(d.signature)
    BY <2>2
  <2>5. \A i \in DOMAIN <<h[1]>> : <<h[1]>>[i] = h[1]
    OBVIOUS
  <2> QED
    BY <2>2, <2>3, <2>4, <2>5 DEF h
<1>6. (HeaderSignatures(spec, d) # <<>> /\
         \E i \in DOMAIN Signatures(spec, d) :
           LET s == Signatures(spec, d)[i].value
           IN SignatureDecodes(s, spec.encoding) /\ s.of = H)
        <=> counted
  <2>1. (/\ HeaderSignatures(spec, d) # <<>>
         /\ \E i \in DOMAIN Signatures(spec, d) : Signatures(spec, d)[i] \in V) <=> counted
    BY SignaturesCount
  <2> QED
    BY <1>5, <2>1
<1>7. timed => (counted <=> told)
  <2> SUFFICES ASSUME timed, NEW i \in MayCount(spec, d.signature)
               PROVE  d.signature[i] \in V <=> tells(d.signature[i])
    OBVIOUS
  <2>1. d.signature[i] \in ToSet(d.signature)
    BY DEF MayCount, ToSet
  <2> DEFINE p == d.signature[i]
  <2>2. p \in V <=> SignatureDecodes(p.value, spec.encoding) /\ p.value.of = H
    BY <2>1
  <2>3. spec.payload # BodyAlone => IsDecimal(time)
    BY <1>1
  <2> HIDE DEF p
  <2>4. SignatureDecodes(p.value, spec.encoding) => (p.value.of = H
           <=> /\ p.facts.spec.payload = spec.payload /\ p.facts.body = d.body
               /\ p.facts.secret = Expected(spec, secret)
               /\ Decoded(p.facts.spec, p.facts.secret) <=> Decoded(spec, secret)
               /\ spec.payload # BodyAlone => p.facts.time = time
               /\ spec.payload = IdTimeAndBody => p.facts.id = d.id)
    BY <2>1, <2>3, DigestTells DEF p
  <2> QED
    BY <2>2, <2>4, Zenon DEF p
<1>8. Authentic(spec, d, secret) <=> headed /\ timed /\ recent /\ known /\ told
  <2>1. /\ "{timestamp}" \in ToSet(spec.payload) <=> spec.payload # BodyAlone
        /\ "{id}" \in ToSet(spec.payload) <=> spec.payload = IdTimeAndBody
    BY TemplateSigns
  <2> DEFINE signsTime == "{timestamp}" \in ToSet(spec.payload)
             signsId == "{id}" \in ToSet(spec.payload)
             telling(p) == /\ SignatureDecodes(p.value, spec.encoding)
                           /\ p.facts.spec.payload = spec.payload /\ p.facts.body = d.body
                           /\ p.facts.secret = Expected(spec, secret)
                           /\ Decoded(p.facts.spec, p.facts.secret) <=> Decoded(spec, secret)
                           /\ signsTime => p.facts.time = time
                           /\ signsId => p.facts.id = d.id
  <2>2. Authentic(spec, d, secret) <=>
          /\ headed
          /\ spec.timestampSource # "none" => IsDecimal(time) /\ Recent(spec, d)
          /\ signsId => d.id # ""
          /\ \E i \in MayCount(spec, d.signature) : telling(d.signature[i])
    BY Zenon DEF Authentic
  <2> DEFINE Q == spec.payload # BodyAlone  R == spec.payload = IdTimeAndBody
  <2>3. (signsTime <=> Q) /\ (signsId <=> R)
    BY <2>1
  <2>4. \A p : telling(p) <=> tells(p)
    <3> HIDE DEF signsTime, signsId, Q, R
    <3>1. ASSUME NEW p PROVE telling(p) <=> tells(p)
      BY <2>3, Zenon DEF Q, R
    <3> QED
      BY <3>1
  <2>5. (\E i \in MayCount(spec, d.signature) : telling(d.signature[i])) <=> told
    BY <2>4, Zenon
  <2>6. (signsId => d.id # "") <=> known
    BY <2>3, Zenon
  <2> HIDE DEF headed, told, known, telling, signsId, signsTime, tells
  <2> QED
    BY <2>2, <2>5, <2>6, Zenon
<1>9. Verify(spec, d, secret) <=>
        /\ Parses(spec, d) /\ WithinTolerance(spec, d) /\ Complete(spec, d)
        /\ \E i \in DOMAIN Signatures(spec, d) :
           LET s == Signatures(spec, d)[i].value
           IN SignatureDecodes(s, spec.encoding) /\ s.of = H
  BY Zenon DEF Verify
<1> HIDE DEF headed, timed, recent, known, told, counted, H, V, tells, time
<1> QED
  BY <1>2, <1>3, <1>4, <1>6, <1>7, <1>8, <1>9, Zenon

-----------------------------------------------------------------------------
SignatureInv ==
  /\ verifying.spec \in Specs /\ verifying.delivery \in Deliveries /\ verifying.secret \in Secrets
  /\ DOMAIN verifying = {"at", "spec", "delivery", "secret"}
  /\ verifying.at \in {"asked", "accepted", "refused"}
  /\ verifying.at # "asked" =>
       (verifying.at = "accepted" <=> Verify(verifying.spec, verifying.delivery, verifying.secret))

LEMMA SignatureStep == SignatureInv /\ [VerifyDelivery]_verifying => SignatureInv'
<1> SUFFICES ASSUME SignatureInv, [VerifyDelivery]_verifying PROVE SignatureInv'
  OBVIOUS
<1>1. CASE VerifyDelivery
  BY <1>1 DEF VerifyDelivery, SignatureInv
<1>2. CASE UNCHANGED verifying
  BY <1>2 DEF SignatureInv
<1> QED
  BY <1>1, <1>2

LEMMA SignatureAuthentic == SignatureInv => AcceptedIsAuthentic
<1> SUFFICES ASSUME SignatureInv, verifying.at # "asked"
             PROVE  verifying.at = "accepted" <=>
                      Authentic(verifying.spec, verifying.delivery, verifying.secret)
  BY Zenon DEF AcceptedIsAuthentic, Authentic
<1> QED
  BY VerifyMeans DEF SignatureInv

(* A delivery that is accepted was signed with the connection's secret, or
   with none when that cannot be decoded, over this body, time and id, and
   lately; one that was is accepted. *)
THEOREM AcceptsWhatIsAuthentic == SignatureSpec => []AcceptedIsAuthentic
<1>1. SignatureInit => SignatureInv
  BY DEF SignatureInit, SignatureInv
<1> QED
  BY <1>1, SignatureStep, SignatureAuthentic, PTL DEF SignatureSpec

-----------------------------------------------------------------------------
(* From the body of a webhook to the tuples of its rules.                  *)
(* The texts of an event are made of characters, and of the length of an
   array, which ToString writes; a preset's own texts are in STRING too,
   which the provers do not know of a literal. *)
Char == STRING \cup {"user"} \cup {ToString(n) : n \in Nat}
Text == Seq(Char)
MaybeText == {<<>>} \cup {<<t>> : t \in Text}

LEMMA MaybeMeans ==
  ASSUME NEW v \in MaybeText, v # <<>>
  PROVE  v = <<v[1]>> /\ v[1] \in Text
BY DEF MaybeText

LEMMA MaybeGiven ==
  ASSUME NEW t \in Text
  PROVE  <<t>> \in MaybeText /\ <<t>> # <<>> /\ <<t>>[1] = t
BY DEF MaybeText

LEMMA NoText == <<>> \in MaybeText
BY DEF MaybeText

LEMMA StringText ==
  ASSUME NEW s \in Seq(STRING)
  PROVE  s \in Text
<1> DEFINE S == STRING
<1> HIDE DEF S
<1>1. S \subseteq Char /\ s \in Seq(S)
  BY DEF S, Char
<1>2. s \in Seq(Char)
  BY ONLY <1>1, SeqMonotonic
<1> QED
  BY <1>2 DEF Text

-----------------------------------------------------------------------------
(* One placeholder filled.                                                 *)
FillWith(c, v) == [x \in Char |-> IF x = c THEN v ELSE <<x>>]

LEMMA FillWithTyped ==
  ASSUME NEW c, NEW v \in Text
  PROVE  FillWith(c, v) \in [Char -> Text]
<1>1. \A x \in Char : <<x>> \in Seq(Char)
  OBVIOUS
<1> QED
  BY <1>1 DEF FillWith, Text

LEMMA FillInSpreads ==
  ASSUME NEW s \in Text, NEW c, NEW v \in Text
  PROVE  FillIn(s, c, v) = Spread(s, FillWith(c, v)) /\ FillIn(s, c, v) \in Text
<1>1. \A i \in DOMAIN s : s[i] \in Char
  BY DEF Text
<1>2. \A i \in DOMAIN s : FillWith(c, v)[s[i]] = IF s[i] = c THEN v ELSE <<s[i]>>
  BY <1>1 DEF FillWith
<1>3. [i \in DOMAIN s |-> IF s[i] = c THEN v ELSE <<s[i]>>] = Pieces(s, FillWith(c, v))
  BY <1>2 DEF Pieces
<1>4. FillIn(s, c, v) = Spread(s, FillWith(c, v))
  BY <1>3 DEF FillIn, Spread
<1> DEFINE f == FillWith(c, v)
<1>5. f \in [Char -> Seq(Char)] /\ s \in Seq(Char)
  BY FillWithTyped DEF Text
<1> HIDE DEF f
<1>6. Spread(s, f) \in Seq(Char)
  BY ONLY <1>5, SpreadTyped
<1> QED
  BY <1>4, <1>6 DEF f, Text

(* A text without the placeholder stays as it is. *)
LEMMA FillInNowhere ==
  ASSUME NEW s \in Text, NEW c, NEW v \in Text, c \notin ToSet(s)
  PROVE  Spread(s, FillWith(c, v)) = s
<1> DEFINE f == FillWith(c, v)
<1>1. f \in [Char -> Seq(Char)] /\ s \in Seq(Char)
  BY FillWithTyped DEF Text
<1>2. ASSUME NEW x \in ToSet(s) PROVE f[x] = <<x>>
  <2>1. x \in Char /\ x # c
    BY DEF ToSet, Text
  <2> QED
    BY <2>1 DEF FillWith
<1> HIDE DEF f
<1>3. Spread(s, f) = s
  BY ONLY <1>1, <1>2, SpreadSame
<1> QED
  BY <1>3 DEF f

LEMMA FillInJoins ==
  ASSUME NEW s \in Text, NEW t \in Text, NEW c, NEW v \in Text
  PROVE  FillIn(s \o t, c, v) = FillIn(s, c, v) \o FillIn(t, c, v) /\ s \o t \in Text
<1> DEFINE f == FillWith(c, v)
<1>1. f \in [Char -> Seq(Char)] /\ s \in Seq(Char) /\ t \in Seq(Char)
  BY FillWithTyped DEF Text
<1>2. s \o t \in Text
  BY <1>1 DEF Text
<1>3. /\ FillIn(s, c, v) = Spread(s, f) /\ FillIn(t, c, v) = Spread(t, f)
      /\ FillIn(s \o t, c, v) = Spread(s \o t, f)
  BY <1>2, FillInSpreads
<1> HIDE DEF f
<1>4. Spread(s \o t, f) = Spread(s, f) \o Spread(t, f)
  BY ONLY <1>1, SpreadJoins
<1> QED
  BY <1>2, <1>3, <1>4

-----------------------------------------------------------------------------
(* The placeholders in turn.                                               *)
Marks(s) == Kept(s, IsPlaceholder)
Valued(ev, item) == \A path : ScalarValue(ev, path, item) \in MaybeText
ValueOf(c, ev, item) == ScalarValue(ev, Placeholder[c], item)

LEMMA MarksAre ==
  ASSUME NEW s \in Text
  PROVE  Marks(s) \in Seq(Char) /\ ToSet(Marks(s)) = ToSet(s) \cap DOMAIN Placeholder
<1> DEFINE T == {x \in ToSet(s) : IsPlaceholder(x)}
<1>1. Marks(s) = Those(s, T)
  BY DEF Marks, Kept
<1>2. s \in Seq(Char)
  BY DEF Text
<1>3. T = ToSet(s) \cap DOMAIN Placeholder
  BY DEF IsPlaceholder
<1> HIDE DEF T
<1>4. Those(s, T) \in Seq(Char) /\ ToSet(Those(s, T)) = ToSet(s) \cap T
  BY <1>2, ThoseKept
<1> QED
  BY <1>1, <1>3, <1>4

LEMMA FillNextTyped ==
  ASSUME NEW d \in MaybeText, NEW c, NEW v \in MaybeText
  PROVE  FillNext(d, c, v) \in MaybeText
<1>1. CASE d = <<>> \/ v = <<>>
  BY <1>1, NoText DEF FillNext
<1>2. CASE d # <<>> /\ v # <<>>
  <2>1. d[1] \in Text /\ v[1] \in Text
    BY <1>2, MaybeMeans
  <2>2. <<FillIn(d[1], c, v[1])>> \in MaybeText
    BY <2>1, FillInSpreads, MaybeGiven
  <2> QED
    BY <2>2, <1>2, NoText DEF FillNext
<1> QED
  BY <1>1, <1>2

Filling(done, s, ev, item) ==
  /\ done[0] = <<s>>
  /\ \A n \in 1..Len(Marks(s)) :
       done[n] = FillNext(done[n - 1], Marks(s)[n], ValueOf(Marks(s)[n], ev, item))

LEMMA SubstituteRuns ==
  ASSUME NEW s \in Text, NEW ev, NEW item, Valued(ev, item)
  PROVE  \E done \in [0..Len(Marks(s)) -> MaybeText] :
           Filling(done, s, ev, item) /\ Substitute(s, ev, item) = done[Len(Marks(s))]
<1> DEFINE N == Len(Marks(s))
           next(n, d) == FillNext(d, Marks(s)[n], ValueOf(Marks(s)[n], ev, item))
           step == [n \in 1..N |-> [d \in MaybeText |-> next(n, d)]]
           U == MaybeText
<1>1. N \in Nat
  BY MarksAre
<1>2. \A n \in 1..N, d \in U : next(n, d) \in U
  BY FillNextTyped DEF Valued, ValueOf
<1>3. step \in [1..N -> [U -> U]] /\ <<s>> \in U
  BY <1>2, MaybeGiven
<1>3a. \A n \in 1..N, d \in U : step[n][d] = next(n, d)
  OBVIOUS
<1> HIDE DEF step, U
<1>4. PICK f \in [0..N -> U] : Steps(f, <<s>>, step, N)
  BY <1>1, <1>3, StepsExist
<1> DEFINE e(n) == IF n = 0 THEN <<s>> ELSE next(n, f[n - 1])
           done == CHOOSE done : done = [n \in 0..N |-> IF n = 0 THEN <<s>> ELSE next(n, done[n - 1])]
<1> HIDE DEF next
<1>5. \A n \in 0..N : e(n) = f[n]
  <2> TAKE n \in 0..N
  <2>1. CASE n = 0
    BY <1>4, <2>1 DEF Steps
  <2>2. CASE n # 0
    <3>1. n \in 1..N /\ n - 1 \in 0..N
      BY <1>1, <2>2
    <3>2. f[n] = step[n][f[n - 1]] /\ f[n - 1] \in U
      BY <1>4, <3>1 DEF Steps
    <3> QED
      BY <1>3a, <2>2, <3>1, <3>2
  <2> QED
    BY <2>1, <2>2
<1>6. f = [n \in 0..N |-> IF n = 0 THEN <<s>> ELSE next(n, f[n - 1])]
  <2>1. f = [n \in 0..N |-> e(n)]
    BY <1>4, <1>5
  <2> QED
    BY <2>1
<1>7. done = [n \in 0..N |-> IF n = 0 THEN <<s>> ELSE next(n, done[n - 1])]
  BY ONLY <1>6
<1>8. Substitute(s, ev, item) = done[N]
  BY DEF Substitute, Marks, ValueOf, next
<1> HIDE DEF done
<1>9. /\ DOMAIN done = 0..N /\ done[0] = <<s>>
      /\ \A n \in 1..N : done[n] = next(n, done[n - 1])
  <2>1. \A n \in 1..N : n \in 0..N /\ n # 0
    BY <1>1
  <2>2. 0 \in 0..N
    BY <1>1
  <2> HIDE DEF N
  <2> QED
    BY <1>7, <2>1, <2>2
<1> DEFINE P(n) == n <= N => done[n] \in U
           A == {n \in Nat : P(n)}
<1>10. P(0)
  BY <1>3, <1>9
<1>11. ASSUME NEW n \in Nat, P(n) PROVE P(n + 1)
  <2> SUFFICES ASSUME n + 1 <= N PROVE done[n + 1] \in U
    OBVIOUS
  <2>1. n + 1 \in 1..N /\ (n + 1) - 1 = n /\ n <= N
    BY <1>1
  <2> QED
    BY <1>2, <1>9, <1>11, <2>1 DEF next
<1>12. A = Nat
  <2> HIDE DEF P
  <2>1. A \in SUBSET Nat /\ 0 \in A /\ \A k \in A : k + 1 \in A
    BY <1>10, <1>11
  <2> QED
    BY <2>1, NatSetInduction
<1>13. \A n \in 0..N : done[n] \in U
  <2>1. \A n \in Nat : P(n)
    BY <1>12
  <2> QED
    BY <1>1, <2>1
<1>14. done \in [0..N -> U]
  <2> HIDE DEF N
  <2> QED
    BY <1>7, <1>9, <1>13
<1> QED
  BY <1>8, <1>9, <1>14 DEF Filling, U, next

(* With the placeholders of K filled, all at once. *)
FilledSo(K, ev, item) ==
  [x \in Char |-> IF x \in K /\ ValueOf(x, ev, item) # <<>> THEN ValueOf(x, ev, item)[1] ELSE <<x>>]

LEMMA FilledSoTyped ==
  ASSUME NEW K, NEW ev, NEW item, Valued(ev, item)
  PROVE  FilledSo(K, ev, item) \in [Char -> Text]
<1>1. \A x \in Char : <<x>> \in Text
  BY DEF Text
<1>2. \A x \in Char : ValueOf(x, ev, item) # <<>> => ValueOf(x, ev, item)[1] \in Text
  BY MaybeMeans DEF Valued, ValueOf
<1> QED
  BY <1>1, <1>2 DEF FilledSo

LEMMA FillOneMore ==
  ASSUME NEW s \in Text, NEW ev, NEW item, Valued(ev, item), Plain(s, ev, item),
         NEW K \in SUBSET (ToSet(s) \cap DOMAIN Placeholder),
         \A k \in K : ValueOf(k, ev, item) # <<>>,
         NEW c \in ToSet(s) \cap DOMAIN Placeholder, ValueOf(c, ev, item) # <<>>
  PROVE  FillIn(Spread(s, FilledSo(K, ev, item)), c, ValueOf(c, ev, item)[1])
           = Spread(s, FilledSo(K \cup {c}, ev, item))
<1> DEFINE v == ValueOf(c, ev, item)[1]
           f == FilledSo(K, ev, item)
           g == FillWith(c, v)
           h == FilledSo(K \cup {c}, ev, item)
<1>1. v \in Text /\ c \in Char
  <2>1. v \in Text
    BY MaybeMeans DEF Valued, ValueOf
  <2> QED
    BY <2>1 DEF ToSet, Text
<1>2. f \in [Char -> Text] /\ g \in [Char -> Text] /\ h \in [Char -> Text]
  BY <1>1, FilledSoTyped, FillWithTyped
<1>3. ASSUME NEW x \in ToSet(s) PROVE h[x] = Spread(f[x], g)
  <2>1. x \in Char
    BY DEF ToSet, Text
  <2>2. CASE x \in K
    <3>1. f[x] = ValueOf(x, ev, item)[1] /\ h[x] = ValueOf(x, ev, item)[1]
      BY <2>1, <2>2 DEF FilledSo
    <3>2. c \notin ToSet(ValueOf(x, ev, item)[1])
      BY <2>2 DEF Plain, ValueOf, IsPlaceholder
    <3>3. f[x] \in Text
      BY <1>2, <2>1
    <3> HIDE DEF v
    <3>4. Spread(f[x], g) = f[x]
      BY <1>1, <3>1, <3>2, <3>3, FillInNowhere
    <3> QED
      BY <3>1, <3>4
  <2>3. CASE x \notin K
    <3>1. f[x] = <<x>>
      BY <2>1, <2>3 DEF FilledSo
    <3>2. h[x] = g[x]
      BY <2>1, <2>3 DEF FilledSo, FillWith
    <3> HIDE DEF g, h, f, v
    <3>3. Spread(<<x>>, g) = g[x]
      BY <1>2, <2>1, SpreadOne DEF Text
    <3> QED
      BY <3>1, <3>2, <3>3
  <2> QED
    BY <2>2, <2>3
<1> HIDE DEF f, h
<1>4. Spread(s, f) \in Text
  BY <1>2, SpreadTyped DEF Text
<1>5. FillIn(Spread(s, f), c, v) = Spread(Spread(s, f), g)
  <2> DEFINE t == Spread(s, f)
  <2> HIDE DEF t, v
  <2>1. t \in Text
    BY <1>4 DEF t
  <2>2. FillIn(t, c, v) = Spread(t, g)
    BY <1>1, <2>1, FillInSpreads
  <2> QED
    BY <2>2 DEF t
<1> HIDE DEF g, v
<1>6. Spread(Spread(s, f), g) = Spread(s, h)
  <2>1. f \in Spreaders(Char) /\ g \in Spreaders(Char) /\ h \in Spreaders(Char) /\ s \in Seq(Char)
    BY <1>2 DEF Text, Spreaders
  <2>2. Composed(s, f, g, h)
    BY <1>3 DEF Composed
  <2> QED
    BY ONLY <2>1, <2>2, SpreadTwice
<1> QED
  BY <1>5, <1>6 DEF f, h, v

FirstMarks(s, n) == {Marks(s)[i] : i \in 1..n}

LEMMA FirstMarksGrow ==
  ASSUME NEW s \in Text, NEW n \in Nat, n + 1 \in 1..Len(Marks(s))
  PROVE  /\ FirstMarks(s, n + 1) = FirstMarks(s, n) \cup {Marks(s)[n + 1]}
         /\ FirstMarks(s, n) \in SUBSET (ToSet(s) \cap DOMAIN Placeholder)
         /\ Marks(s)[n + 1] \in ToSet(s) \cap DOMAIN Placeholder
<1>1. /\ Len(Marks(s)) \in Nat /\ DOMAIN Marks(s) = 1..Len(Marks(s))
      /\ ToSet(Marks(s)) = ToSet(s) \cap DOMAIN Placeholder
  BY MarksAre
<1>2. 1..(n + 1) = 1..n \cup {n + 1} /\ \A i \in 1..(n + 1) : i \in DOMAIN Marks(s)
  BY <1>1
<1>3. \A i \in 1..(n + 1) : Marks(s)[i] \in ToSet(s) \cap DOMAIN Placeholder
  BY <1>1, <1>2 DEF ToSet
<1> QED
  BY <1>2, <1>3 DEF FirstMarks

FilledUpTo(s, n, ev, item, d) ==
  d # <<>> =>
    /\ \A k \in FirstMarks(s, n) : ValueOf(k, ev, item) # <<>>
    /\ Plain(s, ev, item) => d[1] = Spread(s, FilledSo(FirstMarks(s, n), ev, item))

LEMMA FillStep ==
  ASSUME NEW s \in Text, NEW ev, NEW item, Valued(ev, item),
         NEW n \in Nat, n + 1 \in 1..Len(Marks(s)),
         NEW d \in MaybeText, FilledUpTo(s, n, ev, item, d)
  PROVE  FilledUpTo(s, n + 1, ev, item, FillNext(d, Marks(s)[n + 1], ValueOf(Marks(s)[n + 1], ev, item)))
<1> DEFINE c == Marks(s)[n + 1]
           v == ValueOf(c, ev, item)
           K == FirstMarks(s, n)
<1> SUFFICES ASSUME FillNext(d, c, v) # <<>>
             PROVE  /\ \A k \in FirstMarks(s, n + 1) : ValueOf(k, ev, item) # <<>>
                    /\ Plain(s, ev, item) =>
                         FillNext(d, c, v)[1] = Spread(s, FilledSo(FirstMarks(s, n + 1), ev, item))
  BY DEF FilledUpTo
<1>1. d # <<>> /\ v # <<>> /\ FillNext(d, c, v) = <<FillIn(d[1], c, v[1])>>
  BY DEF FillNext
<1>2. /\ FirstMarks(s, n + 1) = K \cup {c} /\ c \in ToSet(s) \cap DOMAIN Placeholder
      /\ K \in SUBSET (ToSet(s) \cap DOMAIN Placeholder)
  BY FirstMarksGrow
<1>3. /\ \A k \in K : ValueOf(k, ev, item) # <<>>
      /\ Plain(s, ev, item) => d[1] = Spread(s, FilledSo(K, ev, item))
  BY <1>1 DEF FilledUpTo
<1> HIDE DEF K, c
<1>4. ASSUME Plain(s, ev, item)
      PROVE  FillIn(d[1], c, v[1]) = Spread(s, FilledSo(K \cup {c}, ev, item))
  BY <1>1, <1>2, <1>3, <1>4, FillOneMore
<1> HIDE DEF v
<1>5. \A k \in FirstMarks(s, n + 1) : ValueOf(k, ev, item) # <<>>
  BY <1>1, <1>2, <1>3 DEF v
<1>6. <<FillIn(d[1], c, v[1])>>[1] = FillIn(d[1], c, v[1])
  OBVIOUS
<1> QED
  BY <1>1, <1>2, <1>4, <1>5, <1>6

LEMMA SpreadMarks ==
  ASSUME NEW s \in Text, NEW ev, NEW item,
         \A k \in FirstMarks(s, Len(Marks(s))) : ValueOf(k, ev, item) # <<>>
  PROVE  Spread(s, FilledSo(FirstMarks(s, Len(Marks(s))), ev, item)) = Filled(s, ev, item)
<1> DEFINE K == FirstMarks(s, Len(Marks(s)))
           f == FilledSo(K, ev, item)
<1>1. K = ToSet(s) \cap DOMAIN Placeholder
  <2>1. Len(Marks(s)) \in Nat /\ DOMAIN Marks(s) = 1..Len(Marks(s))
    BY MarksAre
  <2> QED
    BY <2>1, MarksAre DEF ToSet, FirstMarks
<1>2. ASSUME NEW i \in DOMAIN s
      PROVE  f[s[i]] = IF IsPlaceholder(s[i]) THEN ScalarValue(ev, Placeholder[s[i]], item)[1] ELSE <<s[i]>>
  <2>1. s[i] \in Char /\ s[i] \in ToSet(s)
    BY DEF Text, ToSet
  <2>2. s[i] \in K <=> IsPlaceholder(s[i])
    BY <1>1, <2>1 DEF IsPlaceholder
  <2> HIDE DEF K
  <2>3. f[s[i]] = IF s[i] \in K /\ ValueOf(s[i], ev, item) # <<>> THEN ValueOf(s[i], ev, item)[1] ELSE <<s[i]>>
    BY <2>1 DEF FilledSo
  <2>4. s[i] \in K => ValueOf(s[i], ev, item) # <<>>
    BY DEF K
  <2> QED
    BY <2>2, <2>3, <2>4 DEF ValueOf
<1> HIDE DEF f
<1> QED
  BY <1>2 DEF Spread, Pieces, Filled, f

(* What becomes of a template: nothing, or the template with every placeholder
   filled if the values do not look like placeholders themselves. *)
LEMMA SubstituteFills ==
  ASSUME NEW s \in Text, NEW ev, NEW item, Valued(ev, item)
  PROVE  /\ Substitute(s, ev, item) \in MaybeText
         /\ Substitute(s, ev, item) # <<>> /\ Plain(s, ev, item) =>
              Substitute(s, ev, item)[1] = Filled(s, ev, item)
<1> DEFINE N == Len(Marks(s))
<1>0. N \in Nat
  BY MarksAre
<1>1. PICK done \in [0..N -> MaybeText] :
        Filling(done, s, ev, item) /\ Substitute(s, ev, item) = done[N]
  BY SubstituteRuns
<1> DEFINE P(n) == n <= N => FilledUpTo(s, n, ev, item, done[n])
           A == {n \in Nat : P(n)}
<1>2. P(0)
  <2>1. FirstMarks(s, 0) = {} /\ done[0] = <<s>> /\ <<s>>[1] = s
    BY <1>1 DEF FirstMarks, Filling
  <2> DEFINE f == FilledSo({}, ev, item)
  <2>2. f \in [Char -> Text] /\ \A x \in ToSet(s) : f[x] = <<x>>
    BY FilledSoTyped DEF FilledSo, ToSet, Text
  <2> HIDE DEF f
  <2>3. Spread(s, f) = s
    BY <2>2, SpreadSame DEF Text
  <2> QED
    BY <2>1, <2>3 DEF FilledUpTo, f
<1>3. ASSUME NEW n \in Nat, P(n) PROVE P(n + 1)
  <2> SUFFICES ASSUME n + 1 <= N PROVE FilledUpTo(s, n + 1, ev, item, done[n + 1])
    OBVIOUS
  <2>1. n + 1 \in 1..N /\ (n + 1) - 1 = n /\ n <= N /\ n \in 0..N
    BY <1>0
  <2>2. done[n + 1] = FillNext(done[n], Marks(s)[n + 1], ValueOf(Marks(s)[n + 1], ev, item))
    BY <1>1, <2>1 DEF Filling
  <2>3. done[n] \in MaybeText /\ FilledUpTo(s, n, ev, item, done[n])
    BY <1>3, <2>1
  <2> QED
    BY <2>1, <2>2, <2>3, FillStep
<1>4. A = Nat
  <2> HIDE DEF P
  <2>1. A \in SUBSET Nat /\ 0 \in A /\ \A k \in A : k + 1 \in A
    BY <1>2, <1>3
  <2> QED
    BY <2>1, NatSetInduction
<1>5. FilledUpTo(s, N, ev, item, done[N])
  <2>1. P(N)
    BY <1>0, <1>4
  <2> QED
    BY <1>0, <2>1
<1>6. done[N] \in MaybeText
  BY <1>0, <1>1
<1>7. ASSUME done[N] # <<>>, Plain(s, ev, item) PROVE done[N][1] = Filled(s, ev, item)
  BY <1>5, <1>7, SpreadMarks DEF FilledUpTo
<1> QED
  BY <1>1, <1>6, <1>7

(* The literal type a template begins with.                                *)
Headed(pre, t) == \E rest \in Text : t = pre \o rest

LEMMA HeadStays ==
  ASSUME NEW pre \in Text, ToSet(pre) \cap DOMAIN Placeholder = {},
         NEW t \in Text, Headed(pre, t), NEW c \in DOMAIN Placeholder, NEW v \in Text
  PROVE  Headed(pre, FillIn(t, c, v))
<1>1. PICK rest \in Text : t = pre \o rest
  BY DEF Headed
<1>2. FillIn(t, c, v) = FillIn(pre, c, v) \o FillIn(rest, c, v)
  BY <1>1, FillInJoins
<1>3. FillIn(pre, c, v) = pre
  BY FillInNowhere, FillInSpreads
<1>4. FillIn(rest, c, v) \in Text
  BY FillInSpreads
<1> QED
  BY <1>2, <1>3, <1>4 DEF Headed

HeadedSoFar(pre, d) == d # <<>> => Headed(pre, d[1])

LEMMA SubstituteKeepsHead ==
  ASSUME NEW s \in Text, NEW ev, NEW item, Valued(ev, item),
         NEW pre \in Text, ToSet(pre) \cap DOMAIN Placeholder = {}, Headed(pre, s)
  PROVE  HeadedSoFar(pre, Substitute(s, ev, item))
<1> DEFINE N == Len(Marks(s))
<1>0. N \in Nat
  BY MarksAre
<1>1. PICK done \in [0..N -> MaybeText] :
        Filling(done, s, ev, item) /\ Substitute(s, ev, item) = done[N]
  BY SubstituteRuns
<1> DEFINE P(n) == n <= N => HeadedSoFar(pre, done[n])
           A == {n \in Nat : P(n)}
<1>2. P(0)
  <2>1. done[0] = <<s>> /\ <<s>>[1] = s
    BY <1>1 DEF Filling
  <2> QED
    BY <2>1 DEF HeadedSoFar
<1>3. ASSUME NEW n \in Nat, P(n) PROVE P(n + 1)
  <2> SUFFICES ASSUME n + 1 <= N, done[n + 1] # <<>> PROVE Headed(pre, done[n + 1][1])
    BY DEF HeadedSoFar
  <2>1. n + 1 \in 1..N /\ (n + 1) - 1 = n /\ n <= N /\ n \in 0..N
    BY <1>0
  <2> DEFINE c == Marks(s)[n + 1]
             v == ValueOf(c, ev, item)
             d == done[n]
  <2>2. done[n + 1] = FillNext(d, c, v)
    BY <1>1, <2>1 DEF Filling
  <2>3. d \in MaybeText /\ HeadedSoFar(pre, d)
    BY <1>3, <2>1
  <2>4. c \in DOMAIN Placeholder
    BY <2>1, FirstMarksGrow
  <2>5. v \in MaybeText
    BY DEF Valued, ValueOf
  <2> HIDE DEF c, v, d
  <2>6. d # <<>> /\ v # <<>> /\ done[n + 1] = <<FillIn(d[1], c, v[1])>>
    BY <2>2 DEF FillNext
  <2>7. d[1] \in Text /\ v[1] \in Text /\ Headed(pre, d[1])
    BY <2>3, <2>5, <2>6, MaybeMeans DEF HeadedSoFar
  <2>8. Headed(pre, FillIn(d[1], c, v[1]))
    BY <2>4, <2>7, HeadStays
  <2> QED
    BY <2>6, <2>8
<1>4. A = Nat
  <2> HIDE DEF P
  <2>1. A \in SUBSET Nat /\ 0 \in A /\ \A k \in A : k + 1 \in A
    BY <1>2, <1>3
  <2> QED
    BY <2>1, NatSetInduction
<1>5. P(N)
  BY <1>0, <1>4
<1> QED
  BY <1>0, <1>1, <1>5

Colons(s) == {i \in DOMAIN s : s[i] = ":"}

LEMMA PrefixIs ==
  ASSUME NEW s \in Text, NEW p \in Colons(s), \A j \in Colons(s) : p <= j
  PROVE  PrefixLength(s) = p
<1>1. Colons(s) \subseteq Nat /\ Colons(s) # {}
  BY DEF Colons, Text
<1>2. PrefixLength(s) = CHOOSE i \in Colons(s) : \A j \in Colons(s) : i <= j
  BY <1>1 DEF PrefixLength, Colons
<1>3. \A i \in Colons(s) : (\A j \in Colons(s) : i <= j) => i = p
  BY <1>1
<1> QED
  BY <1>2, <1>3

LEMMA PrefixFound ==
  ASSUME NEW s \in Text, PrefixLength(s) > 1
  PROVE  PrefixLength(s) \in Colons(s) /\ \A j \in Colons(s) : PrefixLength(s) <= j
<1>1. Colons(s) \in SUBSET Nat
  BY DEF Colons, Text
<1>2. Colons(s) # {}
  BY DEF PrefixLength, Colons
<1>3. PICK p \in Colons(s) : \A j \in Colons(s) : p <= j
  BY <1>1, <1>2, LeastOf
<1>4. PrefixLength(s) = p
  BY <1>3, PrefixIs
<1> QED
  BY <1>3, <1>4

LEMMA SplitAt ==
  ASSUME NEW X, NEW s \in Seq(X), NEW p \in 1..Len(s)
  PROVE  SubSeq(s, p + 1, Len(s)) \in Seq(X) /\ s = SubSeq(s, 1, p) \o SubSeq(s, p + 1, Len(s))
<1>1. /\ Len(s) \in Nat /\ p \in Nat /\ 1 \in 1..(Len(s) + 1) /\ p + 1 \in 1..(Len(s) + 1)
      /\ p \in (1 - 1)..Len(s) /\ Len(s) \in p..Len(s) /\ Len(s) \in ((p + 1) - 1)..Len(s)
  OBVIOUS
<1>2. SubSeq(s, 1, p) \o SubSeq(s, p + 1, Len(s)) = SubSeq(s, 1, Len(s))
  BY <1>1, ConcatAdjacentSubSeq
<1>3. SubSeq(s, 1, Len(s)) = s
  BY SubSeqFull
<1>4. SubSeq(s, p + 1, Len(s)) \in Seq(X)
  BY <1>1, SubSeqProperties
<1> QED
  BY <1>2, <1>3, <1>4

LEMMA TypeIsHead ==
  ASSUME NEW s \in Text, LiteralTypePrefix(s)
  PROVE  /\ TypeOf(s) \in Text /\ ToSet(TypeOf(s)) \cap DOMAIN Placeholder = {}
         /\ Headed(TypeOf(s), s)
         /\ \A t \in Text : Headed(TypeOf(s), t) => TypeOf(t) = TypeOf(s)
<1> DEFINE p == PrefixLength(s)
           pre == TypeOf(s)
<1>1. p \in Colons(s) /\ \A j \in Colons(s) : p <= j
  BY PrefixFound DEF LiteralTypePrefix
<1>2. p \in 1..Len(s) /\ Len(s) \in Nat /\ s[p] = ":" /\ DOMAIN s = 1..Len(s) /\ s \in Seq(Char)
  BY <1>1 DEF Colons, Text
<1>2a. p \in Nat /\ 1 < p
  BY <1>2 DEF LiteralTypePrefix
<1> HIDE DEF p
<1>3. pre = SubSeq(s, 1, p)
  BY DEF TypeOf, p
<1> HIDE DEF pre
<1>4. /\ pre \in Seq(Char) /\ Len(pre) = p /\ DOMAIN pre = 1..p
      /\ \A i \in 1..p : pre[i] = s[i]
  BY <1>2, <1>3, SubSeqProperties
<1>5. \A i \in 1..(p - 1) : s[i] \notin NonWord
  <2> DEFINE w == SubSeq(s, 1, p - 1)
  <2>1. p - 1 \in 1..Len(s) /\ 1 \in 1..(Len(s) + 1)
    BY <1>2, <1>2a
  <2>2. DOMAIN w = 1..(p - 1) /\ \A i \in 1..(p - 1) : w[i] = s[i]
    BY <1>2, <1>2a, <2>1
  <2>3. ToSet(w) \cap NonWord = {}
    BY DEF LiteralTypePrefix, AllWord, p
  <2> HIDE DEF w
  <2> QED
    BY <2>2, <2>3 DEF ToSet
<1>6. ToSet(pre) \cap DOMAIN Placeholder = {}
  <2> SUFFICES ASSUME NEW i \in 1..p PROVE s[i] \notin DOMAIN Placeholder
    BY <1>4 DEF ToSet
  <2>1. CASE i = p
    BY <1>2, <2>1, MappingAssumption
  <2>2. CASE i # p
    <3>1. i \in 1..(p - 1)
      BY <1>2a, <2>2
    <3> QED
      BY <1>5, <3>1, MappingAssumption
  <2> QED
    BY <2>1, <2>2
<1>7. Headed(pre, s)
  <2> DEFINE rest == SubSeq(s, p + 1, Len(s))
  <2>1. rest \in Seq(Char) /\ s = pre \o rest
    BY <1>2, <1>3, SplitAt
  <2> QED
    BY <2>1 DEF Headed, Text
<1>8. ASSUME NEW t \in Text, Headed(pre, t) PROVE TypeOf(t) = pre
  <2>1. PICK rest \in Text : t = pre \o rest
    BY <1>8 DEF Headed
  <2>2. /\ t \in Seq(Char) /\ rest \in Seq(Char) /\ Len(t) = p + Len(rest) /\ Len(rest) \in Nat
        /\ DOMAIN t = 1..Len(t)
        /\ \A i \in 1..p : t[i] = s[i]
    <3>1. rest \in Seq(Char) /\ pre \in Seq(Char)
      BY <1>4 DEF Text
    <3>2. /\ t \in Seq(Char) /\ Len(t) = Len(pre) + Len(rest) /\ Len(rest) \in Nat
          /\ \A i \in 1..Len(pre) : t[i] = pre[i]
      BY <2>1, <3>1, Joined2
    <3> QED
      BY <1>2a, <1>4, <3>1, <3>2
  <2>3. p \in Colons(t)
    BY <1>2, <1>2a, <2>2 DEF Colons
  <2>4. ASSUME NEW j \in Colons(t) PROVE p <= j
    <3> SUFFICES ASSUME ~(p <= j) PROVE FALSE
      OBVIOUS
    <3>1. j \in 1..p /\ t[j] = ":"
      BY <1>2a, <2>2 DEF Colons
    <3>2. j \in Colons(s)
      BY <1>2, <2>2, <3>1 DEF Colons
    <3> QED
      BY <1>1, <3>2 DEF p
  <2>5. PrefixLength(t) = p
    BY <2>3, <2>4, PrefixIs
  <2>6. SubSeq(t, 1, p) = pre
    <3>1. /\ SubSeq(t, 1, p) \in Seq(Char) /\ Len(SubSeq(t, 1, p)) = p
          /\ \A i \in 1..p : SubSeq(t, 1, p)[i] = t[i]
      BY <1>2a, <2>2
    <3> QED
      BY <1>4, <2>2, <3>1, SeqEqual
  <2> QED
    BY <2>5, <2>6 DEF TypeOf
<1> QED
  BY <1>4, <1>6, <1>7, <1>8 DEF pre, Text

(* What a rendered tuple says, part by part. *)
SameAs(given, text, ev, item) == Plain(given, ev, item) => text = Filled(given, ev, item)
SaysOf(t, ev, item, told) ==
  /\ TypeOf(told.user) = TypeOf(t.user) /\ TypeOf(told.object) = TypeOf(t.object)
  /\ \A s \in {told.user, told.object} :
       ToSet(SubSeq(s, PrefixLength(s) + 1, Len(s))) \cap Forbidden = {}
  /\ ToSet(told.relation) \cap NonWord = {}
  /\ SameAs(t.user, told.user, ev, item) /\ SameAs(t.object, told.object, ev, item)
  /\ SameAs(t.relation, told.relation, ev, item)

LEMMA PartSays ==
  ASSUME NEW s \in Text, NEW ev, NEW item, Valued(ev, item),
         Substitute(s, ev, item) # <<>>
  PROVE  /\ SameAs(s, Substitute(s, ev, item)[1], ev, item)
         /\ LiteralTypePrefix(s) => TypeOf(Substitute(s, ev, item)[1]) = TypeOf(s)
<1>1. SameAs(s, Substitute(s, ev, item)[1], ev, item) /\ Substitute(s, ev, item)[1] \in Text
  BY SubstituteFills, MaybeMeans DEF SameAs
<1>2. ASSUME LiteralTypePrefix(s) PROVE TypeOf(Substitute(s, ev, item)[1]) = TypeOf(s)
  <2>1. /\ TypeOf(s) \in Text /\ ToSet(TypeOf(s)) \cap DOMAIN Placeholder = {} /\ Headed(TypeOf(s), s)
        /\ \A t \in Text : Headed(TypeOf(s), t) => TypeOf(t) = TypeOf(s)
    BY <1>2, TypeIsHead
  <2>2. HeadedSoFar(TypeOf(s), Substitute(s, ev, item))
    BY <2>1, SubstituteKeepsHead
  <2> QED
    BY <1>1, <2>1, <2>2 DEF HeadedSoFar
<1> QED
  BY <1>1, <1>2

LEMMA RenderedTold ==
  ASSUME NEW t \in Template, NEW ev, NEW item, Valued(ev, item), RenderTuple(t, ev, item) # <<>>
  PROVE  SaysOf(t, ev, item, RenderTuple(t, ev, item)[1])
<1> DEFINE u == Substitute(t.user, ev, item)
           r == Substitute(t.relation, ev, item)
           o == Substitute(t.object, ev, item)
           told == [user |-> u[1], relation |-> r[1], object |-> o[1]]
<1>1. t.user \in Text /\ t.relation \in Text /\ t.object \in Text
  BY StringText DEF Template
<1>2. /\ LiteralTypePrefix(t.user) /\ LiteralTypePrefix(t.object)
      /\ u # <<>> /\ r # <<>> /\ o # <<>>
      /\ IsTypeId(u[1]) /\ IsTypeId(o[1]) /\ AllWord(r[1])
      /\ RenderTuple(t, ev, item) = <<told>>
  <2> HIDE DEF u, r, o
  <2>0. RenderTuple(t, ev, item) =
          IF ~LiteralTypePrefix(t.user) \/ ~LiteralTypePrefix(t.object) \/ <<>> \in {u, r, o} THEN <<>>
          ELSE IF IsTypeId(u[1]) /\ IsTypeId(o[1]) /\ AllWord(r[1]) THEN <<told>> ELSE <<>>
    BY DEF RenderTuple, u, r, o
  <2> HIDE DEF told
  <2> QED
    BY <2>0
<1>3. RenderTuple(t, ev, item)[1] = told
  BY <1>2
<1>4. /\ SameAs(t.user, u[1], ev, item) /\ SameAs(t.object, o[1], ev, item)
      /\ SameAs(t.relation, r[1], ev, item)
      /\ TypeOf(u[1]) = TypeOf(t.user) /\ TypeOf(o[1]) = TypeOf(t.object)
  BY <1>1, <1>2, PartSays
<1>5. /\ ToSet(SubSeq(u[1], PrefixLength(u[1]) + 1, Len(u[1]))) \cap Forbidden = {}
      /\ ToSet(SubSeq(o[1], PrefixLength(o[1]) + 1, Len(o[1]))) \cap Forbidden = {}
      /\ ToSet(r[1]) \cap NonWord = {}
  BY <1>2 DEF IsTypeId, AllWord
<1> HIDE DEF u, r, o
<1> QED
  BY <1>3, <1>4, <1>5 DEF SaysOf

-----------------------------------------------------------------------------
(* What an event is made of.                                               *)
Attribute == [array : BOOLEAN, values : Seq(Text)]
EventTyped(ev) ==
  /\ ev.type \in Text /\ ev.subject \in Text /\ ev.subject # <<>> /\ ev.subjectType \in Text
  /\ \A name \in DOMAIN ev.attributes :
       /\ ev.attributes[name] \in Attribute
       /\ ~ev.attributes[name].array => Len(ev.attributes[name].values) = 1

LEMMA OneText ==
  ASSUME NEW v \in Seq(Text), Len(v) = 1
  PROVE  v \in MaybeText
<1> DEFINE T == Text
<1>1. v \in Seq(T) /\ Len(v) = 1
  OBVIOUS
<1> HIDE DEF T
<1>2. v = <<v[1]>> /\ v[1] \in T
  BY <1>1
<1> QED
  BY <1>2, MaybeGiven DEF T

LEMMA EventValues ==
  ASSUME NEW ev, EventTyped(ev), NEW item \in MaybeText
  PROVE  Valued(ev, item)
<1> SUFFICES ASSUME NEW path PROVE ScalarValue(ev, path, item) \in MaybeText
  BY DEF Valued
<1>1. /\ <<ev.type>> \in MaybeText /\ <<ev.subject>> \in MaybeText
      /\ <<ev.subjectType>> \in MaybeText /\ <<>> \in MaybeText
  BY MaybeGiven, NoText DEF EventTyped
<1>2. ASSUME path[2] \in DOMAIN ev.attributes
      PROVE  (IF ev.attributes[path[2]].array THEN <<>> ELSE ev.attributes[path[2]].values) \in MaybeText
  <2>1. ev.attributes[path[2]].array \in BOOLEAN /\ ev.attributes[path[2]].values \in Seq(Text)
    BY <1>2 DEF EventTyped, Attribute
  <2>2. ~ev.attributes[path[2]].array => Len(ev.attributes[path[2]].values) = 1
    BY <1>2 DEF EventTyped
  <2>3. ~ev.attributes[path[2]].array => ev.attributes[path[2]].values \in MaybeText
    BY <2>1, <2>2, OneText
  <2> QED
    BY <1>1, <2>1, <2>3
<1> DEFINE other == IF ev.attributes[path[2]].array THEN <<>> ELSE ev.attributes[path[2]].values
           in == path[1] = "attributes" /\ path[2] \in DOMAIN ev.attributes
           p == <<path = <<"item">>, path = <<"type">>, path \in {<<"subject">>, <<"subject.id">>},
                  path = <<"subject.type">>>>
           w == <<item, <<ev.type>>, <<ev.subject>>, <<ev.subjectType>>, <<>>>>
           M == MaybeText
<1>3. ScalarValue(ev, path, item) =
        CASE p[1] -> w[1] [] p[2] -> w[2] [] p[3] -> w[3] [] p[4] -> w[4] [] in -> other [] OTHER -> w[5]
  BY DEF ScalarValue
<1>4. (in => other \in M) /\ w[1] \in M /\ w[2] \in M /\ w[3] \in M /\ w[4] \in M /\ w[5] \in M
  BY <1>1, <1>2
<1> HIDE DEF in, other, p, w, M
<1>5. ScalarValue(ev, path, item) \in M
  BY ONLY <1>3, <1>4
<1> QED
  BY <1>5 DEF M

(* What a path leads to: a value of the body, nothing, or a length.        *)
Lengths == {[kind |-> "number", text |-> <<ToString(n)>>] : n \in Nat}
Json == JsonValues \cup {Missing} \cup Lengths

LEMMA KindsApart ==
  /\ "missing" # "object" /\ "missing" # "array" /\ "missing" \notin {"string", "number", "bool"}
  /\ "number" # "object" /\ "number" # "array" /\ "string" \in {"string", "number", "bool"}
OBVIOUS

LEMMA ScalarText ==
  ASSUME NEW v \in Json, IsScalarValue(v)
  PROVE  v.text \in Text
<1>1. CASE v \in JsonValues
  BY <1>1, MappingAssumption, StringText
<1>2. CASE v = Missing
  BY <1>2 DEF Missing, IsScalarValue
<1>3. CASE v \in Lengths
  <2>1. PICK n \in Nat : v = [kind |-> "number", text |-> <<ToString(n)>>]
    BY <1>3 DEF Lengths
  <2>2. ToString(n) \in Char
    BY DEF Char
  <2> DEFINE c == ToString(n)
  <2>3. v.text = <<c>>
    BY <2>1
  <2> HIDE DEF c
  <2>4. <<c>> \in Seq(Char)
    BY <2>2 DEF c
  <2> QED
    BY <2>3, <2>4 DEF Text
<1> QED
  BY <1>1, <1>2, <1>3 DEF Json

LEMMA ArrayItems ==
  ASSUME NEW v \in Json, v.kind = "array"
  PROVE  v \in JsonValues /\ v.items \in Seq(JsonValues)
<1>1. v # Missing /\ v \notin Lengths
  BY DEF Missing, Lengths
<1> QED
  BY <1>1, MappingAssumption DEF Json

LEMMA ObjectFields ==
  ASSUME NEW v \in Json, v.kind = "object"
  PROVE  v \in JsonValues /\ \A key \in DOMAIN v.fields : v.fields[key] \in JsonValues
<1>1. v # Missing /\ v \notin Lengths
  BY DEF Missing, Lengths
<1> QED
  BY <1>1, MappingAssumption DEF Json

LEMMA IndexIsPositive ==
  ASSUME NEW key \in DOMAIN ArrayIndex
  PROVE  ArrayIndex[key] \in Nat \ {0}
BY DEF ArrayIndex

LEMMA DescendStays ==
  ASSUME NEW v \in Json, NEW key
  PROVE  Descend(v, key) \in Json
<1>1. Missing \in Json /\ JsonValues \subseteq Json /\ Lengths \subseteq Json
  BY DEF Json
<1> DEFINE field == v.fields[key]
           len == [kind |-> "number", text |-> <<ToString(Len(v.items))>>]
           item == v.items[ArrayIndex[key]]
           p == <<key \in DangerousKeys, v.kind = "object" /\ key \in DOMAIN v.fields,
                  v.kind = "array" /\ key = "length",
                  v.kind = "array" /\ key \in DOMAIN ArrayIndex /\ ArrayIndex[key] <= Len(v.items)>>
           w == <<Missing, field, len, item>>
<1>2. Descend(v, key) = CASE p[1] -> w[1] [] p[2] -> w[2] [] p[3] -> w[3] [] p[4] -> w[4] [] OTHER -> w[1]
  BY DEF Descend
<1>3. p[2] => w[2] \in Json
  BY <1>1, ObjectFields
<1>4. p[3] => w[3] \in Json
  <2>1. v.kind = "array" => Len(v.items) \in Nat
    BY ArrayItems
  <2>2. v.kind = "array" => len \in Lengths
    BY <2>1 DEF Lengths
  <2> HIDE DEF len
  <2> QED
    BY <1>1, <2>2
<1>5. p[4] => w[4] \in Json
  <2> SUFFICES ASSUME v.kind = "array", key \in DOMAIN ArrayIndex, ArrayIndex[key] <= Len(v.items)
               PROVE  item \in Json
    OBVIOUS
  <2>1. ArrayIndex[key] \in Nat \ {0} /\ v.items \in Seq(JsonValues)
    BY IndexIsPositive, ArrayItems
  <2> QED
    BY <1>1, <2>1
<1>6. w[1] \in Json
  BY <1>1
<1> DEFINE J == Json
<1>7. w[1] \in J /\ (p[2] => w[2] \in J) /\ (p[3] => w[3] \in J) /\ (p[4] => w[4] \in J)
  BY <1>3, <1>4, <1>5, <1>6
<1> HIDE DEF p, w, J
<1>8. Descend(v, key) \in J
  BY ONLY <1>2, <1>7
<1> QED
  BY <1>8 DEF J

LEMMA PathStays ==
  ASSUME NEW body \in Json, NEW path, NEW N \in Nat, Len(path) = N
  PROVE  GetPath(body, path) \in Json
<1> DEFINE next(n, d) == Descend(d, path[n])
           step == [n \in 1..N |-> [d \in Json |-> next(n, d)]]
           U == Json
<1>2. \A n \in 1..N, d \in U : next(n, d) \in U
  BY DescendStays
<1>3. step \in [1..N -> [U -> U]] /\ body \in U
  BY <1>2
<1>3a. \A n \in 1..N, d \in U : step[n][d] = next(n, d)
  OBVIOUS
<1> HIDE DEF step, U
<1>4. PICK f \in [0..N -> U] : Steps(f, body, step, N)
  BY <1>3, StepsExist
<1> DEFINE e(n) == IF n = 0 THEN body ELSE next(n, f[n - 1])
           node == CHOOSE node : node = [n \in 0..N |-> IF n = 0 THEN body ELSE next(n, node[n - 1])]
<1> HIDE DEF next
<1>5. \A n \in 0..N : e(n) = f[n]
  <2> TAKE n \in 0..N
  <2>1. CASE n = 0
    BY <1>4, <2>1 DEF Steps
  <2>2. CASE n # 0
    <3>1. n \in 1..N /\ n - 1 \in 0..N
      BY <2>2
    <3>2. f[n] = step[n][f[n - 1]] /\ f[n - 1] \in U
      BY <1>4, <3>1 DEF Steps
    <3> QED
      BY <1>3a, <2>2, <3>1, <3>2
  <2> QED
    BY <2>1, <2>2
<1>6. f = [n \in 0..N |-> IF n = 0 THEN body ELSE next(n, f[n - 1])]
  <2>1. f = [n \in 0..N |-> e(n)]
    BY <1>4, <1>5
  <2> QED
    BY <2>1
<1>7. node = [n \in 0..N |-> IF n = 0 THEN body ELSE next(n, node[n - 1])]
  BY ONLY <1>6
<1>8. GetPath(body, path) = node[N]
  BY DEF GetPath, next
<1> HIDE DEF node
<1>9. node[0] = body /\ \A n \in 1..N : node[n] = next(n, node[n - 1])
  <2>1. (\A n \in 1..N : n \in 0..N /\ n # 0) /\ 0 \in 0..N
    OBVIOUS
  <2> QED
    BY <1>7, <2>1
<1> DEFINE P(n) == n <= N => node[n] \in U
           A == {n \in Nat : P(n)}
<1>10. P(0)
  BY <1>3, <1>9
<1>11. ASSUME NEW n \in Nat, P(n) PROVE P(n + 1)
  <2> SUFFICES ASSUME n + 1 <= N PROVE node[n + 1] \in U
    OBVIOUS
  <2>1. n + 1 \in 1..N /\ (n + 1) - 1 = n /\ n <= N
    OBVIOUS
  <2> QED
    BY <1>2, <1>9, <1>11, <2>1 DEF next
<1>12. A = Nat
  <2> HIDE DEF P
  <2>1. A \in SUBSET Nat /\ 0 \in A /\ \A k \in A : k + 1 \in A
    BY <1>10, <1>11
  <2> QED
    BY <2>1, NatSetInduction
<1>13. N \in A
  BY <1>12
<1> QED
  BY <1>8, <1>13 DEF U

(* What the presets name.                                                  *)
Keys == {"event_type", "type", "aggregateID", "event_payload", "userId", "data", "id", "resourceOwner",
         "projectId", "roleKeys", "orgId", "org", "project"}
Types == {<<"user.human.added">>, <<"user.human.selfregistered">>, <<"user.grant.added">>,
          <<"user.grant.removed">>, <<"user.created">>, <<"user.updated">>}
Extraction == [match : SUBSET Types, subjectType : {<<"user">>}, subjectPath : Seq(Keys),
               attributes : Seq([name : Keys, path : Seq(Keys)])]
PresetTyped(preset) == preset.typePath \in Seq(Keys) /\ preset.extraction \in Seq(Extraction)

LEMMA PathNamed ==
  ASSUME NEW name \in Keys, NEW path \in Seq(Keys)
  PROVE  Path(name, path) \in [name : Keys, path : Seq(Keys)]
BY DEF Path

LEMMA ExtractionNamed ==
  ASSUME NEW match \in SUBSET Types, NEW type \in {<<"user">>}, NEW path \in Seq(Keys),
         NEW attributes \in Seq([name : Keys, path : Seq(Keys)])
  PROVE  [match |-> match, subjectType |-> type, subjectPath |-> path, attributes |-> attributes]
           \in Extraction
BY DEF Extraction

LEMMA OneOf ==
  ASSUME NEW X, NEW a \in X
  PROVE  <<a>> \in Seq(X)
OBVIOUS

LEMMA TwoOf ==
  ASSUME NEW X, NEW a \in X, NEW b \in X
  PROVE  <<a, b>> \in Seq(X)
OBVIOUS

LEMMA ThreeOf ==
  ASSUME NEW X, NEW a \in X, NEW b \in X, NEW c \in X
  PROVE  <<a, b, c>> \in Seq(X)
OBVIOUS

LEMMA PresetsTyped ==
  ASSUME NEW key \in DOMAIN PresetByKey
  PROVE  PresetTyped(PresetByKey[key])
<1> DEFINE S == Keys
           A == [name : S, path : Seq(S)]
           M1 == {<<"user.human.added">>, <<"user.human.selfregistered">>}
           M2 == {<<"user.grant.added">>}
           M3 == {<<"user.grant.removed">>}
           M4 == {<<"user.created">>, <<"user.updated">>}
           user == <<"user">>
           P == <<<<"aggregateID">>, <<"event_payload", "userId">>, <<"data", "id">>>>
           org == Path("org", <<"resourceOwner">>)
           project == Path("project", <<"event_payload", "projectId">>)
           roles == Path("roleKeys", <<"event_payload", "roleKeys">>)
           standard == Path("org", <<"data", "orgId">>)
           E(m, p, a) == [match |-> m, subjectType |-> user, subjectPath |-> p, attributes |-> a]
<1>1. /\ M1 \in SUBSET Types /\ M2 \in SUBSET Types /\ M3 \in SUBSET Types
      /\ M4 \in SUBSET Types /\ user \in {<<"user">>}
      /\ P[1] \in Seq(S) /\ P[2] \in Seq(S) /\ P[3] \in Seq(S)
  BY DEF Keys, Types
<1>2. org \in A /\ project \in A /\ roles \in A /\ standard \in A
  <2>1. /\ <<"resourceOwner">> \in Seq(S) /\ <<"event_payload", "projectId">> \in Seq(S)
        /\ <<"event_payload", "roleKeys">> \in Seq(S) /\ <<"data", "orgId">> \in Seq(S)
        /\ "org" \in S /\ "project" \in S /\ "roleKeys" \in S
    BY DEF Keys
  <2> QED
    BY <2>1, PathNamed
<1>3. <<org>> \in Seq(A) /\ <<standard>> \in Seq(A) /\ <<project>> \in Seq(A) /\ <<project, roles>> \in Seq(A)
  <2> HIDE DEF org, project, roles, standard, A
  <2> QED
    BY <1>2, OneOf, TwoOf
<1> HIDE DEF M1, M2, M3, M4, user, org, project, roles, standard, P
<1>4. /\ E(M1, P[1], <<org>>) \in Extraction /\ E(M2, P[2], <<project, roles>>) \in Extraction
      /\ E(M3, P[2], <<project>>) \in Extraction /\ E(M4, P[3], <<standard>>) \in Extraction
  BY <1>1, <1>3, ExtractionNamed
<1>5. ZitadelPreset.extraction = <<E(M1, P[1], <<org>>), E(M2, P[2], <<project, roles>>), E(M3, P[2], <<project>>)>>
  BY DEF ZitadelPreset, M1, M2, M3, P, org, project, roles, user
<1>6. StandardPreset.extraction = <<E(M4, P[3], <<standard>>)>>
  BY DEF StandardPreset, M4, P, standard, user
<1> HIDE DEF E
<1>7. ZitadelPreset.extraction \in Seq(Extraction) /\ StandardPreset.extraction \in Seq(Extraction)
  BY <1>4, <1>5, <1>6, OneOf, ThreeOf
<1>8. ZitadelPreset.typePath \in Seq(Keys) /\ StandardPreset.typePath \in Seq(Keys)
  <2>1. "event_type" \in Keys /\ "type" \in Keys
    BY DEF Keys
  <2> QED
    BY <2>1, OneOf DEF ZitadelPreset, StandardPreset
<1>9. PresetByKey[key] = ZitadelPreset \/ PresetByKey[key] = StandardPreset
  BY DEF PresetByKey
<1> QED
  BY <1>7, <1>8, <1>9 DEF PresetTyped

LEMMA TextsKept ==
  ASSUME NEW v \in Json, v.kind = "array"
  PROVE  AttributeValue(v) \in Attribute /\ AttributeValue(v).array
<1> DEFINE T == {x \in ToSet(v.items) : IsScalarValue(x)}
           kept == Those(v.items, T)
           texts == [i \in DOMAIN kept |-> kept[i].text]
<1>1. v.items \in Seq(JsonValues)
  BY ArrayItems
<1>2. AttributeValue(v) = [array |-> TRUE, values |-> texts]
  BY DEF AttributeValue, Kept
<1>3. kept \in Seq(JsonValues) /\ ToSet(kept) = ToSet(v.items) \cap T
  <2> HIDE DEF T
  <2> QED
    BY <1>1, ThoseKept
<1>4. \A i \in DOMAIN kept : kept[i].text \in Text
  <2> TAKE i \in DOMAIN kept
  <2>1. kept[i] \in T /\ kept[i] \in JsonValues
    <3> HIDE DEF T, kept
    <3> QED
      BY <1>3 DEF ToSet
  <2> QED
    BY <2>1, ScalarText DEF Json
<1>5. texts \in Seq(Text)
  <2>1. DOMAIN kept = 1..Len(kept) /\ Len(kept) \in Nat
    BY <1>3
  <2> HIDE DEF kept
  <2>2. texts \in [1..Len(kept) -> Text]
    BY <1>4, <2>1
  <2> HIDE DEF texts
  <2> QED
    BY <2>1, <2>2, SeqDef
<1> HIDE DEF texts
<1> QED
  BY <1>2, <1>5 DEF Attribute

LEMMA AttributeTyped ==
  ASSUME NEW v \in Json, v.kind = "array" \/ IsScalarValue(v)
  PROVE  /\ AttributeValue(v) \in Attribute
         /\ ~AttributeValue(v).array => Len(AttributeValue(v).values) = 1
<1>1. CASE v.kind = "array"
  BY <1>1, TextsKept
<1>2. CASE v.kind # "array"
  <2>1. v.text \in Text
    BY <1>2, ScalarText
  <2>2. AttributeValue(v) = [array |-> FALSE, values |-> <<v.text>>]
    BY <1>2 DEF AttributeValue
  <2>3. <<v.text>> \in Seq(Text)
    BY <2>1, OneOf
  <2> QED
    BY <2>2, <2>3 DEF Attribute
<1> QED
  BY <1>1, <1>2

LEMMA ExtractTyped ==
  ASSUME NEW preset, PresetTyped(preset), NEW body \in Json,
         ExtractEvent(preset, body) # NoEvent
  PROVE  /\ EventTyped(ExtractEvent(preset, body))
         /\ DOMAIN ExtractEvent(preset, body).attributes
              \subseteq AttributeNamesForEvent(preset, ExtractEvent(preset, body).type)
<1> DEFINE type == GetPath(body, preset.typePath)
           T == {y \in ToSet(preset.extraction) : type.text \in y.match}
           mine == Kept(preset.extraction, LAMBDA y : type.text \in y.match)
           x == Head(mine)
           subject == GetPath(body, x.subjectPath)
           value(i) == GetPath(body, x.attributes[i].path)
           there == {i \in DOMAIN x.attributes : value(i).kind = "array" \/ IsScalarValue(value(i))}
           at(name) == CHOOSE i \in there : x.attributes[i].name = name
           attributes == [name \in {x.attributes[i].name : i \in there} |-> AttributeValue(value(at(name)))]
           ev == [type |-> type.text, subject |-> subject.text, subjectType |-> x.subjectType,
                  attributes |-> attributes]
<1>1. ExtractEvent(preset, body) =
        IF body.kind # "object" THEN NoEvent
        ELSE IF ~NonEmptyString(type) THEN NoEvent
        ELSE IF mine = <<>> THEN NoEvent
        ELSE IF ~NonEmptyString(subject) THEN NoEvent ELSE ev
  BY DEF ExtractEvent
<1>2. mine = Those(preset.extraction, T)
  BY DEF Kept
<1>3. mine \in Seq(Extraction) /\ ToSet(mine) = ToSet(preset.extraction) \cap T
  <2> HIDE DEF T, mine
  <2> QED
    BY <1>2, ThoseKept DEF PresetTyped
<1> HIDE DEF mine, ev
<1>4. NonEmptyString(type) /\ mine # <<>> /\ NonEmptyString(subject) /\ ExtractEvent(preset, body) = ev
  BY <1>1
<1>5. x \in Extraction /\ x \in ToSet(preset.extraction) /\ type.text \in x.match
  <2>1. x = mine[1] /\ 1 \in DOMAIN mine /\ mine[1] \in Extraction
    BY <1>3, <1>4
  <2>2. mine[1] \in T
    BY <1>3, <2>1 DEF ToSet
  <2> QED
    BY <2>1, <2>2
<1> HIDE DEF x, T
<1>6. /\ x.subjectType = <<"user">> /\ Len(x.subjectPath) \in Nat /\ DOMAIN x.attributes = 1..Len(x.attributes)
      /\ \A i \in DOMAIN x.attributes : Len(x.attributes[i].path) \in Nat
      /\ Len(preset.typePath) \in Nat
  <2>1. x.subjectType = <<"user">> /\ x.subjectPath \in Seq(Keys)
        /\ x.attributes \in Seq([name : Keys, path : Seq(Keys)])
    BY <1>5 DEF Extraction
  <2> DEFINE A == [name : Keys, path : Seq(Keys)]
           a == x.attributes
  <2>2. \A i \in DOMAIN a : a[i] \in A
    <3>1. a \in Seq(A)
      BY <2>1
    <3> HIDE DEF A, a
    <3> QED
      BY <3>1
  <2>3. Len(x.subjectPath) \in Nat /\ DOMAIN x.attributes = 1..Len(x.attributes) /\ Len(preset.typePath) \in Nat
    BY <2>1 DEF PresetTyped
  <2>4. \A i \in DOMAIN x.attributes : x.attributes[i].path \in Seq(Keys)
    BY <2>2
  <2>5. \A p \in Seq(Keys) : Len(p) \in Nat
    OBVIOUS
  <2> HIDE DEF A
  <2>6. \A i \in DOMAIN x.attributes : Len(x.attributes[i].path) \in Nat
    BY ONLY <2>4, <2>5
  <2> QED
    BY <2>1, <2>3, <2>6
<1>7. type \in Json /\ subject \in Json /\ \A i \in DOMAIN x.attributes : value(i) \in Json
  BY <1>6, PathStays
<1>8. type.text \in Text /\ subject.text \in Text /\ subject.text # <<>>
  <2>1. IsScalarValue(type) /\ IsScalarValue(subject)
    BY <1>4 DEF NonEmptyString, IsScalarValue
  <2> QED
    BY <1>4, <1>7, <2>1, ScalarText DEF NonEmptyString
<1>9. x.subjectType \in Text
  <2> DEFINE u == "user"
  <2>1. u \in Char
    BY DEF Char
  <2> HIDE DEF u
  <2>2. <<u>> \in Text
    BY <2>1 DEF Text
  <2> QED
    BY <1>6, <2>2 DEF u
<1>10. ASSUME NEW name \in DOMAIN attributes
       PROVE  /\ attributes[name] \in Attribute
              /\ ~attributes[name].array => Len(attributes[name].values) = 1
              /\ name \in AttributeNamesForEvent(preset, type.text)
  <2>1. PICK i \in there : x.attributes[i].name = name
    OBVIOUS
  <2>2. at(name) \in there
    BY <2>1
  <2> HIDE DEF at
  <2>3. value(at(name)) \in Json /\ (value(at(name)).kind = "array" \/ IsScalarValue(value(at(name))))
    BY <1>7, <2>2
  <2>4. attributes[name] = AttributeValue(value(at(name)))
    OBVIOUS
  <2> HIDE DEF attributes, value
  <2>5. name \in {x.attributes[j].name : j \in DOMAIN x.attributes}
    BY <2>1
  <2>6. x \in {y \in ToSet(preset.extraction) : type.text \in y.match}
    BY <1>5
  <2>7. name \in AttributeNamesForEvent(preset, type.text)
    BY <2>5, <2>6 DEF AttributeNamesForEvent
  <2> QED
    BY <2>3, <2>4, <2>7, AttributeTyped
<1> HIDE DEF attributes
<1>11. /\ ev.type = type.text /\ ev.subject = subject.text /\ ev.subjectType = x.subjectType
       /\ ev.attributes = attributes
  BY DEF ev
<1> HIDE DEF type, subject
<1>12. EventTyped(ev)
  BY <1>8, <1>9, <1>10, <1>11 DEF EventTyped
<1>13. DOMAIN ev.attributes \subseteq AttributeNamesForEvent(preset, ev.type)
  BY <1>10, <1>11
<1> QED
  BY <1>4, <1>12, <1>13

(* Where the pieces of a flattened list begin and end. *)
Cut(at, seqs) ==
  /\ at \in [0..Len(seqs) -> Nat] /\ at[0] = 0
  /\ \A n \in 1..Len(seqs) : at[n] = at[n - 1] + Len(seqs[n])

LEMMA CutGrows ==
  ASSUME NEW X, NEW seqs \in Seq(Seq(X)), NEW at, Cut(at, seqs)
  PROVE  \A m, n \in 0..Len(seqs) : m <= n => at[m] <= at[n]
<1> DEFINE N == Len(seqs)
           P(n) == n <= N => \A m \in 0..N : m <= n => at[m] <= at[n]
           A == {n \in Nat : P(n)}
<1>0. N \in Nat /\ \A n \in 1..N : Len(seqs[n]) \in Nat
  OBVIOUS
<1>1. /\ N \in Nat /\ \A n \in 0..N : at[n] \in Nat
      /\ \A n \in 1..N : at[n] = at[n - 1] + Len(seqs[n]) /\ Len(seqs[n]) \in Nat
  BY <1>0 DEF Cut
<1>2. P(0)
  BY <1>1
<1>3. ASSUME NEW n \in Nat, P(n) PROVE P(n + 1)
  <2> SUFFICES ASSUME n + 1 <= N, NEW m \in 0..N, m <= n + 1 PROVE at[m] <= at[n + 1]
    OBVIOUS
  <2>1. n + 1 \in 1..N /\ n \in 0..N /\ (n + 1) - 1 = n /\ n + 1 \in 0..N
    BY <1>1
  <2>2. at[n] <= at[n + 1]
    <3>1. at[n + 1] = at[(n + 1) - 1] + Len(seqs[n + 1]) /\ Len(seqs[n + 1]) \in Nat /\ at[n] \in Nat
      BY <1>1, <2>1
    <3> QED
      BY <2>1, <3>1
  <2>3. CASE m <= n
    BY <1>1, <1>3, <2>1, <2>2, <2>3
  <2>4. CASE m = n + 1
    BY <1>1, <2>1, <2>4
  <2> QED
    BY <2>3, <2>4
<1>4. A = Nat
  <2> HIDE DEF P
  <2>1. A \in SUBSET Nat /\ 0 \in A /\ \A k \in A : k + 1 \in A
    BY <1>2, <1>3
  <2> QED
    BY <2>1, NatSetInduction
<1>5. \A n \in 0..N : P(n)
  <2> HIDE DEF P
  <2>1. \A n \in Nat : P(n)
    BY <1>4
  <2>2. 0..N \subseteq Nat
    BY <1>1
  <2> QED
    BY <2>1, <2>2
<1> QED
  BY <1>5

LEMMA CutCovers ==
  ASSUME NEW X, NEW seqs \in Seq(Seq(X)), NEW at, Cut(at, seqs), NEW p \in 1..at[Len(seqs)]
  PROVE  \E n \in 1..Len(seqs) : \E k \in 1..Len(seqs[n]) : p = at[n - 1] + k
<1> DEFINE N == Len(seqs)
           Q == \E n \in 1..N : \E k \in 1..Len(seqs[n]) : p = at[n - 1] + k
           P(n) == n <= N => (p <= at[n] => Q)
           A == {n \in Nat : P(n)}
<1>1. /\ N \in Nat /\ \A n \in 0..N : at[n] \in Nat
      /\ \A n \in 1..N : at[n] = at[n - 1] + Len(seqs[n]) /\ Len(seqs[n]) \in Nat
      /\ at[0] = 0 /\ at[N] \in Nat /\ p \in Nat /\ p <= at[N] /\ 1 <= p
  <2>1. N \in Nat /\ \A n \in 1..N : Len(seqs[n]) \in Nat
    OBVIOUS
  <2>2. (\A n \in 0..N : at[n] \in Nat) /\ at[0] = 0 /\ \A n \in 1..N : at[n] = at[n - 1] + Len(seqs[n])
    BY DEF Cut
  <2>3. at[N] \in Nat
    BY <2>1, <2>2
  <2> QED
    BY <2>1, <2>2, <2>3
<1>2. P(0)
  BY <1>1
<1>3. ASSUME NEW n \in Nat, P(n) PROVE P(n + 1)
  <2> SUFFICES ASSUME n + 1 <= N, p <= at[n + 1], ~(p <= at[n]) PROVE Q
    BY <1>1, <1>3
  <2>1. n + 1 \in 1..N /\ n \in 0..N /\ (n + 1) - 1 = n
    BY <1>1
  <2> DEFINE k == p - at[n]
  <2>2. k \in 1..Len(seqs[n + 1]) /\ p = at[(n + 1) - 1] + k
    BY <1>1, <2>1
  <2> QED
    BY <2>1, <2>2
<1>4. A = Nat
  <2> HIDE DEF P
  <2>1. A \in SUBSET Nat /\ 0 \in A /\ \A k \in A : k + 1 \in A
    BY <1>2, <1>3
  <2> QED
    BY <2>1, NatSetInduction
<1>5. P(N)
  BY <1>1, <1>4
<1> QED
  BY <1>1, <1>5

(* Pieces that are told apart by what they name. *)
Tagged(seqs, tag) ==
  /\ \A n \in DOMAIN seqs : \A k \in DOMAIN seqs[n] : seqs[n][k].rule = tag[n]
  /\ \A m, n \in DOMAIN seqs : tag[m] = tag[n] => m = n

(* Every item of a list is one of a piece, and a piece's are as many as name
   what it names. *)
Counted(F, seqs, tag) ==
  /\ \A p \in DOMAIN F : \E n \in DOMAIN seqs : \E k \in DOMAIN seqs[n] : F[p] = seqs[n][k]
  /\ \A n \in DOMAIN seqs : Cardinality({p \in DOMAIN F : F[p].rule = tag[n]}) = Len(seqs[n])

LEMMA PiecesCounted ==
  ASSUME NEW X, NEW seqs \in Seq(Seq(X)), NEW tag, Tagged(seqs, tag)
  PROVE  Counted(FlattenSeq(seqs), seqs, tag)
<1> DEFINE F == FlattenSeq(seqs)
           N == Len(seqs)
<1>1. PICK at \in [0..N -> Nat] :
        /\ at[0] = 0 /\ at[N] = Len(F)
        /\ \A n \in 1..N : /\ at[n] = at[n - 1] + Len(seqs[n])
                           /\ \A k \in 1..Len(seqs[n]) : F[at[n - 1] + k] = seqs[n][k]
  BY FlattenPlaces
<1>2. F \in Seq(X) /\ DOMAIN F = 1..Len(F) /\ Len(F) \in Nat
  <2>1. F \in Seq(X)
    BY FlattenPlaces
  <2> HIDE DEF F
  <2> QED
    BY <2>1
<1>3. /\ N \in Nat /\ DOMAIN seqs = 1..N
      /\ \A n \in 1..N : Len(seqs[n]) \in Nat /\ DOMAIN seqs[n] = 1..Len(seqs[n])
  OBVIOUS
<1> HIDE DEF F, N
<1>4. Cut(at, seqs)
  BY <1>1, <1>3 DEF Cut, N
<1>5. \A m, n \in 0..N : m <= n => at[m] <= at[n]
  BY <1>4, CutGrows DEF N
<1>6. \A p \in 1..Len(F) : \E n \in 1..N : \E k \in 1..Len(seqs[n]) : p = at[n - 1] + k
  <2> TAKE p \in 1..Len(F)
  <2>1. p \in 1..at[Len(seqs)]
    BY <1>1 DEF N
  <2> QED
    BY <1>4, <2>1, CutCovers DEF N
<1>7. \A p \in DOMAIN F : \E n \in DOMAIN seqs : \E k \in DOMAIN seqs[n] : F[p] = seqs[n][k]
  <2> TAKE p \in DOMAIN F
  <2>1. PICK n \in 1..N : \E k \in 1..Len(seqs[n]) : p = at[n - 1] + k
    BY <1>2, <1>6
  <2>2. PICK k \in 1..Len(seqs[n]) : p = at[n - 1] + k
    BY <2>1
  <2>3. F[p] = seqs[n][k]
    BY <1>1, <2>2
  <2> QED
    BY <1>3, <2>2, <2>3
<1>8. ASSUME NEW n \in DOMAIN seqs
      PROVE  Cardinality({p \in DOMAIN F : F[p].rule = tag[n]}) = Len(seqs[n])
  <2> DEFINE mine == {p \in DOMAIN F : F[p].rule = tag[n]}
             a == at[n - 1]
             b == at[n]
  <2>1. n \in 1..N /\ n - 1 \in 0..N /\ n \in 0..N /\ N \in 0..N
    BY <1>3
  <2>2. a \in Nat /\ b \in Nat /\ b = a + Len(seqs[n]) /\ Len(seqs[n]) \in Nat /\ b <= Len(F)
    BY <1>1, <1>3, <1>5, <2>1
  <2>3. ASSUME NEW p \in (a + 1)..b PROVE p \in mine
    <3>1. p - a \in 1..Len(seqs[n]) /\ p = a + (p - a) /\ p \in DOMAIN F
      <4> DEFINE l == Len(seqs[n])
                 m == Len(F)
      <4>1. /\ a \in Nat /\ b = a + l /\ l \in Nat /\ b <= m /\ m \in Nat
            /\ DOMAIN F = 1..m /\ p \in (a + 1)..b
        BY <1>2, <2>2, <2>3
      <4> HIDE DEF a, b, l, m
      <4>2. p - a \in 1..l /\ p = a + (p - a) /\ p \in 1..m
        BY <4>1
      <4> QED
        BY <4>1, <4>2 DEF l
    <3>2. F[p] = seqs[n][p - a]
      BY <1>1, <2>1, <3>1
    <3> QED
      BY <1>3, <3>1, <3>2 DEF Tagged
  <2>4. ASSUME NEW p \in mine PROVE p \in (a + 1)..b
    <3>0. PICK m \in 1..N : \E k \in 1..Len(seqs[m]) : p = at[m - 1] + k
      BY <1>2, <1>6
    <3>1. PICK k \in 1..Len(seqs[m]) : p = at[m - 1] + k
      BY <3>0
    <3>2. F[p] = seqs[m][k]
      BY <1>1, <3>1
    <3>3. tag[m] = tag[n]
      <4>1. F[p].rule = tag[n]
        OBVIOUS
      <4> HIDE DEF mine, a, b
      <4>2. seqs[m][k].rule = tag[m]
        BY <1>3, <3>0, <3>1 DEF Tagged
      <4> QED
        BY ONLY <3>2, <4>1, <4>2
    <3>4. m = n
      BY <1>3, <3>3 DEF Tagged
    <3> QED
      BY <2>2, <3>1, <3>4
  <2>5. mine = (a + 1)..b
    <3> HIDE DEF mine, a, b
    <3> QED
      BY <2>2, <2>3, <2>4
  <2>6. Cardinality((a + 1)..b) = Len(seqs[n])
    <3>1. a + 1 \in Int /\ b \in Int
      BY <2>2
    <3> DEFINE l == Len(seqs[n])
    <3>2. a \in Nat /\ b = a + l /\ l \in Nat
      BY <2>2
    <3> HIDE DEF mine, a, b, l
    <3>3. Cardinality((a + 1)..b) = IF a + 1 > b THEN 0 ELSE b - (a + 1) + 1
      BY ONLY <3>1, FS_Interval
    <3>4. Cardinality((a + 1)..b) = l
      BY ONLY <3>2, <3>3
    <3> QED
      BY <3>4 DEF l
  <2> QED
    BY <2>5, <2>6
<1> QED
  BY <1>7, <1>8 DEF F, Counted

Matches(rules, ev) == {i \in DOMAIN rules : MatchRule(rules[i], ev)}
Matching(rules, ev) ==
  Kept(InOrder(DOMAIN rules, Sooner(rules)), LAMBDA i : MatchRule(rules[i], ev))

LEMMA SoonerIsStrict ==
  ASSUME NEW rules \in Seq(Rule)
  PROVE  IsFiniteSet(DOMAIN rules) /\ StrictOrder(DOMAIN rules, Sooner(rules))
<1>1. DOMAIN rules = 1..Len(rules) /\ Len(rules) \in Nat
  OBVIOUS
<1>2. IsFiniteSet(DOMAIN rules)
  BY <1>1, FS_Interval
<1>3. \A i \in DOMAIN rules : rules[i].priority \in Int /\ i \in Int
  <2> TAKE i \in DOMAIN rules
  <2>1. rules[i] \in Rule
    OBVIOUS
  <2> QED
    BY <1>1, <2>1 DEF Rule
<1> DEFINE S == DOMAIN rules
           R == Sooner(rules)
           q(i) == rules[i].priority
<1>4. \A x, y \in S : <<x, y>> \in R <=> q(x) < q(y) \/ (q(x) = q(y) /\ x < y)
  <2> TAKE x \in S, y \in S
  <2>1. <<x, y>> \in S \X S
    BY PairOf
  <2> DEFINE p == <<x, y>>
  <2>2. p \in R <=> q(p[1]) < q(p[2]) \/ (q(p[1]) = q(p[2]) /\ p[1] < p[2])
    <3> HIDE DEF p
    <3> QED
      BY <2>1 DEF Sooner, p
  <2> QED
    BY <2>2
<1>5. \A x \in S : q(x) \in Int /\ x \in Int
  BY <1>3
<1> HIDE DEF R, q, S
<1>6. StrictOrder(S, R)
  BY <1>4, <1>5 DEF StrictOrder
<1> QED
  BY <1>2, <1>6 DEF S, R

LEMMA MatchingIs ==
  ASSUME NEW rules \in Seq(Rule), NEW ev
  PROVE  /\ Matching(rules, ev) \in Seq(DOMAIN rules)
         /\ ToSet(Matching(rules, ev)) = Matches(rules, ev)
         /\ \A m, n \in DOMAIN Matching(rules, ev) :
              Matching(rules, ev)[m] = Matching(rules, ev)[n] => m = n
<1> DEFINE S == DOMAIN rules
           R == Sooner(rules)
           all == InOrder(S, R)
           T == {i \in ToSet(all) : MatchRule(rules[i], ev)}
           kept == Those(all, T)
<1>1. Matching(rules, ev) = kept
  BY DEF Matching, Kept
<1>2. IsFiniteSet(S) /\ StrictOrder(S, R)
  BY SoonerIsStrict
<1> HIDE DEF S, R
<1>3. /\ all \in Seq(S) /\ \A i, j \in DOMAIN all : i < j => <<all[i], all[j]>> \in R
      /\ \A x \in S : \E i \in DOMAIN all : all[i] = x
  BY <1>2, InOrderSorts
<1> HIDE DEF all
<1>4. ToSet(all) = S
  BY <1>3 DEF ToSet
<1>4a. \A i, j \in DOMAIN all : all[i] = all[j] => i = j
  <2> SUFFICES ASSUME NEW i \in DOMAIN all, NEW j \in DOMAIN all, all[i] = all[j], i # j PROVE FALSE
    OBVIOUS
  <2>1. all[i] \in S /\ i \in Nat /\ j \in Nat
    BY <1>3
  <2>2. <<all[i], all[i]>> \notin R
    BY <1>2, <2>1 DEF StrictOrder
  <2>3. i < j \/ j < i
    BY <2>1
  <2> QED
    BY <1>3, <2>2, <2>3
<1>5. T = Matches(rules, ev)
  BY <1>4 DEF Matches, S
<1> HIDE DEF T
<1>6. /\ kept \in Seq(S) /\ ToSet(kept) = ToSet(all) \cap T
      /\ \E g \in [DOMAIN kept -> DOMAIN all] :
           /\ \A n \in DOMAIN kept : kept[n] = all[g[n]]
           /\ \A m, n \in DOMAIN kept : m < n => g[m] < g[n]
  BY <1>3, ThoseKept
<1> HIDE DEF kept
<1>7. \A m, n \in DOMAIN kept : kept[m] = kept[n] => m = n
  <2> SUFFICES ASSUME NEW m \in DOMAIN kept, NEW n \in DOMAIN kept, kept[m] = kept[n], m # n PROVE FALSE
    OBVIOUS
  <2>1. PICK g \in [DOMAIN kept -> DOMAIN all] :
          /\ \A k \in DOMAIN kept : kept[k] = all[g[k]]
          /\ \A k, l \in DOMAIN kept : k < l => g[k] < g[l]
    BY <1>6
  <2>2. m \in Nat /\ n \in Nat /\ g[m] \in Nat /\ g[n] \in Nat
    <3>1. DOMAIN kept = 1..Len(kept) /\ DOMAIN all = 1..Len(all)
      BY <1>3, <1>6
    <3> QED
      BY <2>1, <3>1
  <2>3. g[m] = g[n]
    BY <1>4a, <2>1
  <2>4. g[m] # g[n]
    BY <2>1, <2>2
  <2> QED
    BY <2>3, <2>4
<1>8. ToSet(kept) = Matches(rules, ev)
  BY <1>4, <1>5, <1>6 DEF Matches, S
<1> QED
  BY <1>1, <1>6, <1>7, <1>8 DEF S

-----------------------------------------------------------------------------
LEMMA ItemsAre ==
  ASSUME NEW rule \in Rule, NEW ev, EventTyped(ev), MatchRule(rule, ev)
  PROVE  /\ FanOutItems(rule, ev) \in Seq(MaybeText)
         /\ Len(FanOutItems(rule, ev)) =
              IF rule.fanOut = "" THEN 1 ELSE Len(ev.attributes[rule.fanOut].values)
<1>1. CASE rule.fanOut = ""
  <2> DEFINE none == <<>>
  <2>1. FanOutItems(rule, ev) = <<none>> /\ none \in MaybeText
    BY <1>1, NoText DEF FanOutItems
  <2> HIDE DEF none
  <2>2. FanOutItems(rule, ev) \in Seq(MaybeText) /\ Len(FanOutItems(rule, ev)) = 1
    BY <2>1, OneOf
  <2> QED
    BY <1>1, <2>2
<1>2. CASE rule.fanOut # ""
  <2> DEFINE values == ev.attributes[rule.fanOut].values
             items == [i \in DOMAIN values |-> <<values[i]>>]
  <2>1. values \in Seq(Text)
    <3>1. rule.fanOut \in DOMAIN ev.attributes
      BY <1>2 DEF MatchRule
    <3> QED
      BY <3>1 DEF EventTyped, Attribute
  <2>2. FanOutItems(rule, ev) = items
    BY <1>2 DEF FanOutItems
  <2> HIDE DEF values
  <2>3. DOMAIN values = 1..Len(values) /\ Len(values) \in Nat /\ \A i \in 1..Len(values) : values[i] \in Text
    BY <2>1
  <2>4. \A i \in 1..Len(values) : <<values[i]>> \in MaybeText
    BY <2>3, MaybeGiven
  <2> DEFINE M == MaybeText
  <2>5. items \in [1..Len(values) -> M]
    BY <2>3, <2>4
  <2> HIDE DEF items, M
  <2>6. items \in Seq(M) /\ Len(items) = Len(values)
    BY <2>3, <2>5, SeqDef
  <2> QED
    BY <1>2, <2>2, <2>6 DEF M, values
<1> QED
  BY <1>1, <1>2

Rendering(rules, ev, i, item) ==
  [rule |-> i, item |-> item, tuple |-> RenderTuple(rules[i].template, ev, item)]
PossibleRenderings(rules, ev) ==
  {Rendering(rules, ev, p[1], p[2]) : p \in (DOMAIN rules) \X MaybeText}

LEMMA RenderedByIs ==
  ASSUME NEW rules \in Seq(Rule), NEW ev, EventTyped(ev), NEW i \in Matches(rules, ev)
  PROVE  /\ RenderedBy(rules, i, ev) \in Seq(PossibleRenderings(rules, ev))
         /\ DOMAIN RenderedBy(rules, i, ev) = DOMAIN FanOutItems(rules[i], ev)
         /\ Len(RenderedBy(rules, i, ev)) = Len(FanOutItems(rules[i], ev))
         /\ \A k \in DOMAIN RenderedBy(rules, i, ev) :
              /\ FanOutItems(rules[i], ev)[k] \in MaybeText
              /\ RenderedBy(rules, i, ev)[k] = Rendering(rules, ev, i, FanOutItems(rules[i], ev)[k])
<1> DEFINE items == FanOutItems(rules[i], ev)
           made == RenderedBy(rules, i, ev)
           X == PossibleRenderings(rules, ev)
<1>1. i \in DOMAIN rules /\ rules[i] \in Rule /\ MatchRule(rules[i], ev)
  BY DEF Matches
<1>2. items \in Seq(MaybeText)
  BY <1>1, ItemsAre
<1>3. made = [k \in DOMAIN items |-> Rendering(rules, ev, i, items[k])]
  BY DEF RenderedBy, Rendering
<1> HIDE DEF items, made
<1>4. DOMAIN items = 1..Len(items) /\ Len(items) \in Nat /\ \A k \in 1..Len(items) : items[k] \in MaybeText
  BY <1>2
<1>5. \A k \in 1..Len(items) : Rendering(rules, ev, i, items[k]) \in X
  <2> TAKE k \in 1..Len(items)
  <2>1. <<i, items[k]>> \in (DOMAIN rules) \X MaybeText
    BY <1>1, <1>4, PairOf
  <2> QED
    BY <2>1 DEF PossibleRenderings
<1> HIDE DEF X
<1>6. made \in [1..Len(items) -> X]
  BY <1>3, <1>4, <1>5
<1>7. made \in Seq(X) /\ Len(made) = Len(items) /\ DOMAIN made = DOMAIN items
  BY <1>4, <1>6, SeqDef
<1>8. \A k \in DOMAIN made : items[k] \in MaybeText /\ made[k] = Rendering(rules, ev, i, items[k])
  BY <1>3, <1>4
<1> QED
  BY <1>7, <1>8 DEF items, made, X

LEMMA RenderingsSay ==
  ASSUME NEW rules \in Seq(Rule), NEW ev, EventTyped(ev)
  PROVE  /\ \A x \in ToSet(Renderings(rules, ev)) : \E i \in Matches(rules, ev), item \in MaybeText :
              x = Rendering(rules, ev, i, item)
         /\ \A i \in Matches(rules, ev) :
              Cardinality({k \in DOMAIN Renderings(rules, ev) : Renderings(rules, ev)[k].rule = i})
                = Len(FanOutItems(rules[i], ev))
<1> DEFINE m == Matching(rules, ev)
           seqs == [n \in DOMAIN m |-> RenderedBy(rules, m[n], ev)]
           X == PossibleRenderings(rules, ev)
           Y == Seq(X)
           F == FlattenSeq(seqs)
<1>1. Renderings(rules, ev) = F
  BY DEF Renderings, Matching
<1>2. /\ m \in Seq(DOMAIN rules) /\ ToSet(m) = Matches(rules, ev)
      /\ \A j, n \in DOMAIN m : m[j] = m[n] => j = n
  BY MatchingIs
<1> HIDE DEF m
<1>3. DOMAIN m = 1..Len(m) /\ Len(m) \in Nat /\ \A n \in DOMAIN m : m[n] \in Matches(rules, ev)
  BY <1>2 DEF ToSet
<1>4. \A n \in DOMAIN m : RenderedBy(rules, m[n], ev) \in Y
  BY <1>3, RenderedByIs
<1>5. DOMAIN seqs = DOMAIN m /\ \A n \in DOMAIN m : seqs[n] = RenderedBy(rules, m[n], ev)
  OBVIOUS
<1>6. seqs \in Seq(Seq(X))
  <2> HIDE DEF X, Y
  <2>1. seqs \in [1..Len(m) -> Y]
    BY <1>3, <1>4
  <2> HIDE DEF seqs
  <2>2. seqs \in Seq(Y)
    BY <1>3, <2>1, SeqDef
  <2> QED
    BY <2>2 DEF Y
<1> HIDE DEF seqs, X
<1>7. ASSUME NEW n \in DOMAIN seqs, NEW k \in DOMAIN seqs[n]
      PROVE  /\ m[n] \in Matches(rules, ev) /\ FanOutItems(rules[m[n]], ev)[k] \in MaybeText
             /\ seqs[n][k] = Rendering(rules, ev, m[n], FanOutItems(rules[m[n]], ev)[k])
  <2>1. m[n] \in Matches(rules, ev) /\ seqs[n] = RenderedBy(rules, m[n], ev)
    BY <1>3, <1>5
  <2> QED
    BY <2>1, RenderedByIs
<1>8. Tagged(seqs, m)
  <2>1. \A n \in DOMAIN seqs : \A k \in DOMAIN seqs[n] : seqs[n][k].rule = m[n]
    BY <1>7 DEF Rendering
  <2> QED
    BY <1>2, <1>5, <2>1 DEF Tagged
<1>9. Counted(F, seqs, m)
  BY ONLY <1>6, <1>8, PiecesCounted
<1> HIDE DEF F
<1>10. ASSUME NEW x \in ToSet(F)
       PROVE  \E i \in Matches(rules, ev), item \in MaybeText : x = Rendering(rules, ev, i, item)
  <2>1. PICK p \in DOMAIN F : x = F[p]
    BY DEF ToSet
  <2>2. PICK n \in DOMAIN seqs : \E k \in DOMAIN seqs[n] : F[p] = seqs[n][k]
    BY <1>9 DEF Counted
  <2>3. PICK k \in DOMAIN seqs[n] : F[p] = seqs[n][k]
    BY <2>2
  <2> QED
    BY <1>7, <2>1, <2>3
<1>11. ASSUME NEW i \in Matches(rules, ev)
       PROVE  Cardinality({p \in DOMAIN F : F[p].rule = i}) = Len(FanOutItems(rules[i], ev))
  <2>1. PICK n \in DOMAIN seqs : m[n] = i
    BY <1>2, <1>5 DEF ToSet
  <2>2. Len(seqs[n]) = Len(FanOutItems(rules[i], ev))
    BY <1>5, <2>1, RenderedByIs
  <2> QED
    BY <1>9, <2>1, <2>2 DEF Counted
<1> QED
  BY <1>1, <1>10, <1>11

-----------------------------------------------------------------------------
(* What a delivery is while it is handled: what is rendered of it is what the
   rules that were there make of the event its body tells of. *)
MappingInv ==
  /\ intake = [at |-> intake.at, row |-> intake.row, delivery |-> intake.delivery,
               secret |-> intake.secret, body |-> intake.body, rules |-> intake.rules,
               status |-> intake.status, event |-> intake.event, renderings |-> intake.renderings]
  /\ intake.body \in Bodies /\ intake.rules \in RuleSets
  /\ intake.at = "rendered" =>
       /\ PresetKey \in DOMAIN PresetByKey
       /\ intake.event = ExtractEvent(PresetByKey[PresetKey], intake.body) /\ intake.event # NoEvent
       /\ intake.renderings = Renderings(intake.rules, intake.event)

LEMMA MappingInvHolds == MappingSpec => []MappingInv
<1>1. MappingInit => MappingInv
  <2> SUFFICES ASSUME MappingInit PROVE MappingInv
    OBVIOUS
  <2>1. PICK arrival \in Arrivals, body \in Bodies, rules \in RuleSets :
          intake = [at |-> "arrived", row |-> arrival.row, delivery |-> arrival.delivery,
                    secret |-> arrival.secret, body |-> body, rules |-> rules, status |-> 0,
                    event |-> NoEvent, renderings |-> <<>>]
    BY DEF MappingInit
  <2> QED
    BY <2>1 DEF MappingInv
<1>2. MappingInv /\ [MappingNext]_intake => MappingInv'
  <2> SUFFICES ASSUME MappingInv, [MappingNext]_intake PROVE MappingInv'
    OBVIOUS
  <2>1. ASSUME NEW status, Reply(status) PROVE MappingInv'
    BY <2>1 DEF MappingInv, Reply
  <2>2. CASE RejectDelivery
    BY <2>1, <2>2 DEF RejectDelivery
  <2>3. CASE IgnoreEvent
    BY <2>1, <2>3 DEF IgnoreEvent
  <2>4. CASE RenderEvent
    <3> DEFINE ev == ExtractEvent(PresetByKey[PresetKey], intake.body)
               made == Renderings(intake.rules, ev)
    <3>1. /\ ev # NoEvent /\ PresetKey \in DOMAIN PresetByKey
          /\ intake' = [intake EXCEPT !.at = "rendered", !.event = ev, !.renderings = made]
      BY <2>4 DEF RenderEvent, Admitted
    <3> HIDE DEF ev, made
    <3>2. /\ intake' = [at |-> "rendered", row |-> intake.row, delivery |-> intake.delivery,
                        secret |-> intake.secret, body |-> intake.body, rules |-> intake.rules,
                        status |-> intake.status, event |-> ev, renderings |-> made]
          /\ intake.body \in Bodies /\ intake.rules \in RuleSets
      BY <3>1 DEF MappingInv
    <3>3. PresetKey' = PresetKey
      BY <3>2 DEF PresetKey
    <3>4. ev = ExtractEvent(PresetByKey[PresetKey'], intake'.body) /\ made = Renderings(intake'.rules, ev)
      BY <3>2, <3>3 DEF ev, made
    <3> QED
      BY <3>1, <3>2, <3>3, <3>4 DEF MappingInv
  <2>5. CASE UNCHANGED intake
    BY <2>5 DEF MappingInv, PresetKey
  <2> QED
    BY <2>2, <2>3, <2>4, <2>5 DEF MappingNext
<1> QED
  BY <1>1, <1>2, PTL DEF MappingSpec

LEMMA MappingSays == MappingInv => RenderedTupleSaysItsRule
<1> SUFFICES ASSUME MappingInv, intake.at = "rendered" PROVE RenderedTupleSaysItsRule
  BY DEF RenderedTupleSaysItsRule
<1> DEFINE ev == intake.event
           rules == intake.rules
           preset == PresetByKey[PresetKey]
<1>1. /\ PresetKey \in DOMAIN PresetByKey /\ ev = ExtractEvent(preset, intake.body) /\ ev # NoEvent
      /\ intake.renderings = Renderings(rules, ev) /\ intake.body \in Bodies /\ rules \in RuleSets
  BY DEF MappingInv
<1>2. rules \in Seq(Rule) /\ intake.body \in Json
  BY <1>1, MappingAssumption DEF Json
<1>3. PresetTyped(preset)
  BY <1>1, PresetsTyped
<1>4. EventTyped(ev) /\ DOMAIN ev.attributes \subseteq AttributeNamesForEvent(preset, ev.type)
  BY <1>1, <1>2, <1>3, ExtractTyped
<1> HIDE DEF ev, rules, preset
<1>5. /\ \A x \in ToSet(Renderings(rules, ev)) : \E i \in Matches(rules, ev), item \in MaybeText :
           x = Rendering(rules, ev, i, item)
      /\ \A i \in Matches(rules, ev) :
           Cardinality({k \in DOMAIN Renderings(rules, ev) : Renderings(rules, ev)[k].rule = i})
             = Len(FanOutItems(rules[i], ev))
  BY <1>2, <1>4, RenderingsSay
<1>6. ASSUME NEW x \in ToSet(intake.renderings), x.tuple # <<>>
      PROVE  /\ rules[x.rule].eventType = ev.type
             /\ SaysOf(rules[x.rule].template, ev, x.item, x.tuple[1])
  <2>1. PICK i \in Matches(rules, ev), item \in MaybeText : x = Rendering(rules, ev, i, item)
    BY <1>1, <1>5, <1>6
  <2>2. x.rule = i /\ x.item = item /\ x.tuple = RenderTuple(rules[i].template, ev, item)
    BY <2>1 DEF Rendering
  <2>3. rules[i] \in Rule /\ MatchRule(rules[i], ev)
    BY <1>2 DEF Matches
  <2>4. rules[i].template \in Template
    BY <2>3 DEF Rule
  <2>5. Valued(ev, item)
    BY <1>4, EventValues
  <2>6. SaysOf(rules[i].template, ev, item, RenderTuple(rules[i].template, ev, item)[1])
    BY <1>6, <2>2, <2>4, <2>5, RenderedTold
  <2> QED
    BY <2>2, <2>3, <2>6 DEF MatchRule
<1>7. ASSUME NEW i \in DOMAIN rules, MatchRule(rules[i], ev)
      PROVE  Cardinality({k \in DOMAIN intake.renderings : intake.renderings[k].rule = i})
               = IF rules[i].fanOut = "" THEN 1 ELSE Len(ev.attributes[rules[i].fanOut].values)
  <2>1. i \in Matches(rules, ev) /\ rules[i] \in Rule
    BY <1>2, <1>7 DEF Matches
  <2>2. Len(FanOutItems(rules[i], ev)) =
          IF rules[i].fanOut = "" THEN 1 ELSE Len(ev.attributes[rules[i].fanOut].values)
    BY <1>4, <1>7, <2>1, ItemsAre
  <2> QED
    BY <1>1, <1>5, <2>1, <2>2
<1>8. ev.subject # <<>>
  BY <1>4 DEF EventTyped
<1> QED
  BY <1>4, <1>6, <1>7, <1>8 DEF RenderedTupleSaysItsRule, SaysOf, SameAs, ev, rules, preset

(* The tuples that come of a webhook say what the rules of the provider say
   of its event, whatever the body and the rules are. *)
THEOREM RenderingsSayTheirRules == MappingSpec => []RenderedTupleSaysItsRule
BY MappingInvHolds, MappingSays, PTL
=============================================================================
