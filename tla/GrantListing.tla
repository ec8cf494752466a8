---------------------------- MODULE GrantListing -----------------------------
(***************************************************************************)
(* GET /grants beside writers.  A listing reads the published model, then  *)
(* page by page what OpenFGA holds for one resource, or for one subject    *)
(* type by type; the pages are not a snapshot.                             *)
(*                                                                         *)
(* OpenFGA keeps tuples in the order they were written: a tuple that is    *)
(* deleted and written again is at a new place.                            *)
(***************************************************************************)
EXTENDS GrantContract

CONSTANTS
  Grantable,    \* tuples: [user, relation, type, id]
  ListedIrs,    \* models that may be the published one
  Listings,     \* requests: [by |-> "resource", type, id], [by |-> "subject", user],
                \* [by |-> "subject", user, type]; [by |-> "malformed"]
  PageSize,     \* tuples in a page of OpenFGA
  PlaceBound    \* writes, those before the listing included

(* A published model has every type once. *)
ASSUME GrantListingAssumption ==
  /\ PageSize \in Nat \ {0} /\ PlaceBound \in Nat
  /\ \A ir \in ListedIrs : /\ Named(ir.resources) \in Seq(STRING) /\ Named(ir.groups) \in Seq(STRING)
                           /\ ~Repeats(Named(ir.resources) \o Named(ir.groups))
  /\ \A l \in Listings : "type" \in DOMAIN l => l.type \in STRING

VARIABLES
  held,     \* [place, tuple]: what OpenFGA holds
  places,   \* places given so far
  listing,  \* one listing
  steady,   \* tuples held without a break since the listing began
  seen      \* tuples held at some time since

listingVars == <<held, places, listing, steady, seen>>

Tuples(h) == {e.tuple : e \in h}
NoIr == [groups |-> <<>>, resources |-> <<>>, conditions |-> <<>>]

(* A row a listing has, with the number of the page it came on. *)
ToldRow == [page : Nat, row : [place : Nat, tuple : Grantable]]
Idle(request) == [at |-> "asked", ir |-> NoIr, types |-> <<>>, after |-> 0, page |-> 0,
                  read |-> {}, entries |-> {}, request |-> request]

ListingTypeOK ==
  /\ places \in 0..PlaceBound
  /\ held \subseteq [place : 1..places, tuple : Grantable]
  /\ \A e, f \in held : e.place = f.place \/ e.tuple = f.tuple => e = f
  /\ listing.at \in {"asked", "reading", "told", "failed", "none", "refused"}
  /\ listing.after \in 0..places /\ listing.page \in Nat
  /\ listing.read \subseteq ToldRow /\ listing.entries \subseteq ToldRow
  /\ steady \subseteq Tuples(held) /\ Tuples(held) \subseteq seen /\ seen \subseteq Grantable

ListingInit ==
  /\ \E n \in 0..PlaceBound : \E s \in Injection(1..n, Grantable) :
       held = {[place |-> i, tuple |-> s[i]] : i \in 1..n} /\ places = n
  /\ steady = Tuples(held) /\ seen = Tuples(held)
  /\ \E l \in Listings : listing = Idle(l)

-----------------------------------------------------------------------------
(* Not exactly one of resource and subject, or one that does not parse: 400. *)
RefuseListing ==
  /\ listing.at = "asked" /\ listing.request.by = "malformed"
  /\ listing' = [listing EXCEPT !.at = "refused"]
  /\ UNCHANGED <<held, places, steady, seen>>

TypesOf(ir, request) == IF "type" \in DOMAIN request THEN <<request.type>>
                        ELSE Named(ir.resources) \o Named(ir.groups)

(* publishedModel: 404 without one; then the types to be read. *)
BeginListing ==
  /\ listing.at = "asked" /\ listing.request.by # "malformed"
  /\ \/ listing' = [listing EXCEPT !.at = "none"]
     \/ \E ir \in ListedIrs :
          listing' = [listing EXCEPT !.at = "reading", !.ir = ir, !.types = TypesOf(ir, listing.request)]
  /\ UNCHANGED <<held, places, steady, seen>>

Asked(t) ==
  /\ t.type = Head(listing.types)
  /\ "id" \in DOMAIN listing.request => t.id = listing.request.id
  /\ "user" \in DOMAIN listing.request => t.user = listing.request.user

(* One page: the oldest of what is there after the place of the token, as
   much as a page takes. *)
After(n) == {e \in held : e.place > n /\ Asked(e.tuple)}
Pages(n) == {P \in SUBSET After(n) :
  /\ \A e \in P, f \in After(n) \ P : e.place < f.place
  /\ Cardinality(P) <= PageSize /\ (Cardinality(P) = PageSize \/ P = After(n))}

Rows(P) == listing.read \cup {[page |-> listing.page, row |-> e] : e \in P}
Entries(rows) ==
  {x \in rows : IsAssignableRelation(listing.ir, x.row.tuple.type, x.row.tuple.relation)}

(* gateway.Read collects pages until there is no token (a full page may have
   one though nothing is left); then the listing filters, and goes on with
   its next type.
   Seeded bug: the token is not looked at. *)
NextPage(P, last) ==
  listing' = [listing EXCEPT !.read = Rows(P), !.after = last.place, !.page = @ + 1]
NextType(P) ==
  listing' = [listing EXCEPT !.entries = @ \cup Entries(Rows(P)), !.read = {},
                             !.after = 0, !.page = @ + 1, !.types = Tail(@)]

ReadOnePage ==
  /\ listing.at = "reading" /\ listing.types # <<>>
  /\ \E P \in Pages(listing.after) : NextType(P)
  /\ UNCHANGED <<held, places, steady, seen>>

ReadPage ==
  /\ listing.at = "reading" /\ listing.types # <<>>
  /\ \E P \in Pages(listing.after) :
       \/ /\ Cardinality(P) = PageSize
          /\ \E last \in P : (\A e \in P : e.place <= last.place) /\ NextPage(P, last)
       \/ P = After(listing.after) /\ NextType(P)
  /\ UNCHANGED <<held, places, steady, seen>>

TellGrants ==
  /\ listing.at = "reading" /\ listing.types = <<>>
  /\ listing' = [listing EXCEPT !.at = "told"]
  /\ UNCHANGED <<held, places, steady, seen>>

(* The model or a page cannot be read: nothing of the other pages is told
   (500, 502 or 400). *)
ListingFails ==
  /\ \/ listing.at = "asked" /\ listing.request.by # "malformed"
     \/ listing.at = "reading" /\ listing.types # <<>>
  /\ listing' = [listing EXCEPT !.at = "failed", !.read = {}, !.entries = {}]
  /\ UNCHANGED <<held, places, steady, seen>>

(* Somebody grants or revokes, through this service or another. *)
GrantMeanwhile ==
  /\ listing.at = "reading" /\ places < PlaceBound
  /\ \E t \in Grantable \ Tuples(held) :
       /\ held' = held \cup {[place |-> places + 1, tuple |-> t]}
       /\ seen' = seen \cup {t}
  /\ places' = places + 1
  /\ UNCHANGED <<listing, steady>>

RevokeMeanwhile ==
  /\ listing.at = "reading"
  /\ \E e \in held : held' = held \ {e} /\ steady' = steady \ {e.tuple}
  /\ UNCHANGED <<places, listing, seen>>

ListingNext == \/ RefuseListing \/ BeginListing \/ ReadPage \/ TellGrants \/ ListingFails
               \/ GrantMeanwhile \/ RevokeMeanwhile

ListingSpec == ListingInit /\ [][ListingNext]_listingVars

-----------------------------------------------------------------------------
(* What the request asks for. *)
Requested(t) ==
  LET r == listing.request
  IN /\ "type" \in DOMAIN r => t.type = r.type
     /\ "id" \in DOMAIN r => t.id = r.id
     /\ "user" \in DOMAIN r => t.user = r.user

Belongs(t) == Requested(t) /\ IsAssignableRelation(listing.ir, t.type, t.relation)

(* A listing that is told has every grant of the published model that was
   held all the while, once, and none that was not held at some time or was
   not asked for, however its pages fall between the writes of others. *)
ListingMissesNothing ==
  listing.at = "told" =>
    /\ \A t \in steady : Belongs(t) =>
         \E x \in listing.entries : /\ x.row.tuple = t
                                    /\ \A y \in listing.entries : y.row.tuple = t => y = x
    /\ \A x \in listing.entries : x.row.tuple \in seen /\ Belongs(x.row.tuple)
=============================================================================
