---------------------------- MODULE AuthTokens -----------------------------
(***************************************************************************)
(* Service tokens: RequireRole before every handler, the routes that list, *)
(* create and revoke tokens, and the last_used_at that a goroutine writes. *)
(*                                                                         *)
(* A call is looked up by its token at one time and served at another; its *)
(* token may be revoked in between.  A token stands for its plain text,    *)
(* its hash and the id of its row, which belong to one another.            *)
(***************************************************************************)
EXTENDS Naturals

CONSTANTS
  Token,     \* service tokens that may be generated
  Call       \* calls, each made once

(* What else a header may hold, and who else may call, is no token. *)
ASSUME TokenAssumption == Token \cap {"none", "admin", "malformed", "unknown"} = {}

VARIABLES
  rows,      \* service_token: what is known of each token
  handed,    \* tokens whose plain text somebody has
  call,      \* where each call stands
  touching,  \* calls whose goroutine has yet to write last_used_at
  tokenLog   \* token.create and token.revoke handed to the recorder

tokenVars == <<rows, handed, call, touching, tokenLog>>

Row == [state : {"none", "active", "revoked"}, used : BOOLEAN]
Header == {"admin", "malformed", "unknown"} \cup Token
Operation == {"evaluate", "create", "nameless", "list", "revoke"}

TokenTypeOK ==
  /\ rows \in [Token -> Row]
  /\ handed \subseteq {t \in Token : rows[t].state # "none"}
  /\ call \in [Call -> [at : {"none", "arrived", "admitted", "changed", "answered", "lost"},
                        header : Header, op : Operation,
                        target : Token \cup {"malformed"},
                        principal : {"none", "admin"} \cup Token,
                        status : {0, 200, 201, 204, 400, 401, 403, 404, 500},
                        listed : SUBSET Token, late : SUBSET Token]]
  /\ touching \subseteq {c \in Call : call[c].principal \in Token}
  /\ tokenLog \subseteq [action : {"token.create", "token.revoke"}, token : Token, call : Call]

Unmade == [at |-> "none", header |-> "malformed", op |-> "evaluate", target |-> "malformed",
           principal |-> "none", status |-> 0, listed |-> {}, late |-> {}]

TokenInit ==
  /\ rows \in [Token -> {r \in Row : r.state = "none" => ~r.used}]
  /\ handed = {t \in Token : rows[t].state # "none"}
  /\ call = [c \in Call |-> Unmade]
  /\ touching = {} /\ tokenLog = {}

-----------------------------------------------------------------------------
(* Tokens somebody has been told are revoked. *)
ToldRevoked == {t \in Token : \E c \in Call :
                  call[c].op = "revoke" /\ call[c].target = t /\ call[c].status = 204}

Made(h, op, t) == [at |-> "arrived", header |-> h, op |-> op, target |-> t, principal |-> "none",
                   status |-> 0, listed |-> {}, late |-> ToldRevoked]

(* What becomes of a call. *)
Becomes(c, k) == call' = [call EXCEPT ![c] = k]
LetIn(k, who) == [k EXCEPT !.at = "admitted", !.principal = who]
Changed(k, t) == [k EXCEPT !.at = "changed", !.target = t]
Answered(k, status) == [k EXCEPT !.at = "answered", !.status = status]

Arrive(c) ==
  /\ call[c].at = "none"
  /\ \E h \in {"admin", "malformed", "unknown"} \cup handed, op \in Operation,
        t \in Token \cup {"malformed"} :
       /\ op # "revoke" => t = "malformed"
       /\ Becomes(c, Made(h, op, t))
  /\ UNCHANGED <<rows, handed, touching, tokenLog>>

(* The token a lookup finds.
   Seeded bug: revoked rows are found too. *)
FindByHash(h) == {t \in Token : t = h /\ rows[t].state # "none"}
FindActiveByHash(h) == {t \in Token : t = h /\ rows[t].state = "active"}

Allows(op) == IF op = "evaluate" THEN {"service", "admin"} ELSE {"admin"}

(* RequireRole: no lookup for the admin's token or none at all; a token that
   is found is touched whether or not its role is allowed. *)
Refuse(c) ==
  /\ call[c].at = "arrived"
  /\ call[c].header # "admin" /\ FindActiveByHash(call[c].header) = {}
  /\ Becomes(c, Answered(call[c], 401))
  /\ UNCHANGED <<rows, handed, touching, tokenLog>>

LookupFails(c) ==
  /\ call[c].at = "arrived" /\ call[c].header \notin {"admin", "malformed"}
  /\ Becomes(c, Answered(call[c], 500))
  /\ UNCHANGED <<rows, handed, touching, tokenLog>>

AdmitAdmin(c) ==
  /\ call[c].at = "arrived" /\ call[c].header = "admin"
  /\ Becomes(c, LetIn(call[c], "admin"))
  /\ UNCHANGED <<rows, handed, touching, tokenLog>>

AdmitService(c) ==
  /\ call[c].at = "arrived"
  /\ \E t \in FindActiveByHash(call[c].header) :
       Becomes(c, IF "service" \in Allows(call[c].op) THEN LetIn(call[c], t)
                  ELSE Answered(LetIn(call[c], t), 403))
  /\ touching' = touching \cup {c}
  /\ UNCHANGED <<rows, handed, tokenLog>>

(* TouchLastUsed, best effort, whatever has become of the row. *)
Touch(c) ==
  /\ c \in touching
  /\ \E saved \in BOOLEAN : rows' = [rows EXCEPT ![call[c].principal].used = @ \/ saved]
  /\ touching' = touching \ {c}
  /\ UNCHANGED <<handed, call, tokenLog>>

-----------------------------------------------------------------------------
(* The handlers behind the guard. *)
Serving(c, op) == call[c].at = "admitted" /\ call[c].op = op

Evaluate(c) ==
  /\ Serving(c, "evaluate")
  /\ Becomes(c, Answered(call[c], 200))
  /\ UNCHANGED <<rows, handed, touching, tokenLog>>

RefuseNameless(c) ==
  /\ Serving(c, "nameless")
  /\ Becomes(c, Answered(call[c], 400))
  /\ UNCHANGED <<rows, handed, touching, tokenLog>>

(* The INSERT of a fresh token; the plain text is not out before the answer. *)
InsertToken(c) ==
  /\ Serving(c, "create")
  /\ \E t \in Token :
       /\ rows[t].state = "none"
       /\ rows' = [rows EXCEPT ![t].state = "active"]
       /\ Becomes(c, Changed(call[c], t))
  /\ UNCHANGED <<handed, touching, tokenLog>>

TellToken(c) ==
  /\ call[c].at = "changed" /\ call[c].op = "create"
  /\ handed' = handed \cup {call[c].target}
  /\ tokenLog' = tokenLog \cup {[action |-> "token.create", token |-> call[c].target, call |-> c]}
  /\ Becomes(c, Answered(call[c], 201))
  /\ UNCHANGED <<rows, touching>>

(* One SELECT; every row, and whether it is revoked: the revoked are kept. *)
ListTokens(c) ==
  /\ Serving(c, "list")
  /\ Becomes(c, [Answered(call[c], 200) EXCEPT !.listed = {t \in Token : rows[t].state = "revoked"}])
  /\ UNCHANGED <<rows, handed, touching, tokenLog>>

(* The UPDATE of an active row, or 404; no id of another form has a row. *)
RevokeToken(c) ==
  /\ Serving(c, "revoke")
  /\ IF call[c].target \in Token /\ rows[call[c].target].state = "active"
     THEN /\ rows' = [rows EXCEPT ![call[c].target].state = "revoked"]
          /\ Becomes(c, Changed(call[c], call[c].target))
     ELSE /\ Becomes(c, Answered(call[c], 404))
          /\ UNCHANGED rows
  /\ UNCHANGED <<handed, touching, tokenLog>>

TellRevoked(c) ==
  /\ call[c].at = "changed" /\ call[c].op = "revoke"
  /\ tokenLog' = tokenLog \cup {[action |-> "token.revoke", token |-> call[c].target, call |-> c]}
  /\ Becomes(c, Answered(call[c], 204))
  /\ UNCHANGED <<rows, handed, touching>>

(* The database fails, before a change or after it. *)
StoreFails(c) ==
  /\ \/ \E op \in {"create", "list", "revoke"} : Serving(c, op)
     \/ call[c].at = "changed"
  /\ Becomes(c, Answered(call[c], 500))
  /\ UNCHANGED <<rows, handed, touching, tokenLog>>

(* The process stops: calls get no answer, goroutines never run. *)
TokensRestart ==
  /\ \E c \in Call : call[c].at \in {"arrived", "admitted", "changed"} \/ c \in touching
  /\ call' = [c \in Call |-> IF call[c].at \in {"arrived", "admitted", "changed"}
                             THEN [call[c] EXCEPT !.at = "lost"] ELSE call[c]]
  /\ touching' = {}
  /\ UNCHANGED <<rows, handed, tokenLog>>

TokenNext ==
  \/ \E c \in Call :
       \/ Arrive(c) \/ Refuse(c) \/ LookupFails(c) \/ AdmitAdmin(c) \/ AdmitService(c)
       \/ Touch(c) \/ Evaluate(c) \/ RefuseNameless(c) \/ InsertToken(c) \/ TellToken(c)
       \/ ListTokens(c) \/ RevokeToken(c) \/ TellRevoked(c) \/ StoreFails(c)
  \/ TokensRestart

TokenSpec == TokenInit /\ [][TokenNext]_tokenVars

-----------------------------------------------------------------------------
(* Once a caller is told that a token is revoked, that is final: no call
   that comes after is let in by the token, a list asked for after shows it
   revoked, and no second caller is told the same.  A late last_used_at does
   not bring the token back.  Each revocation told has its audit record. *)
RevocationIsFinal ==
  /\ \A t \in ToldRevoked : rows[t].state = "revoked"
  /\ \A c \in Call : call[c].principal \notin call[c].late
  /\ \A c \in Call : call[c].op = "list" /\ call[c].status = 200 => call[c].late \subseteq call[c].listed
  /\ \A c, d \in Call :
       /\ call[c].op = "revoke" /\ call[c].status = 204
       /\ call[d].op = "revoke" /\ call[d].status = 204
       /\ call[c].target = call[d].target
       => c = d
  /\ \A c \in Call : call[c].op = "revoke" /\ call[c].status = 204 =>
       [action |-> "token.revoke", token |-> call[c].target, call |-> c] \in tokenLog
=============================================================================
