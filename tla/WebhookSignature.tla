-------------------------- MODULE WebhookSignature --------------------------
(***************************************************************************)
(* VerifyWebhookSignature: is a delivery signed by somebody who has the    *)
(* connection's secret, and lately?  One verifier reads the specs of all   *)
(* providers: where the signatures and the time are, what is signed, how   *)
(* the secret is kept.                                                     *)
(*                                                                         *)
(* A header is the list of its parts [key, value, facts]: the k=v segments,*)
(* the scheme (in lower case) and its digest, or the "v1," tokens; a part  *)
(* without a separator has the key "".  A value is [as, of]: a digest in   *)
(* an encoding, or text; as "" when it is empty.  The facts, [spec,        *)
(* secret, id, time, body], are what its signer signed.                    *)
(* HMAC and the encodings are free constructors: two digests are equal     *)
(* when the keys and every piece of the texts are.                         *)
(***************************************************************************)
EXTENDS Integers, Lists

CONSTANTS
  Specs,       \* WebhookSignatureSpec records
  Secrets,     \* [prefixed : BOOLEAN, text : STRING, base64 : BOOLEAN]: as stored; base64
               \* when what is behind the prefix decodes, to a key that is not empty
  Deliveries,  \* [signature : Seq of parts, timestamp, id, body : STRING]; "" is no header
  Number,      \* the texts that are decimal numbers, with their value
  Now

VARIABLE verifying    \* one call

(* The presets' specs. *)
ZitadelSignature ==
  [format |-> "kv_t_v", timestampSource |-> "signature_header", unit |-> "seconds",
   payload |-> <<"{timestamp}", ".", "{body}">>, algorithm |-> "sha256", encoding |-> "hex",
   secretEncoding |-> "raw", secretPrefix |-> FALSE, hasId |-> FALSE,
   toleranceSec |-> 300, allowMultiple |-> TRUE]

StandardSignature ==
  [format |-> "standard_webhooks", timestampSource |-> "separate_header", unit |-> "seconds",
   payload |-> <<"{id}", ".", "{timestamp}", ".", "{body}">>, algorithm |-> "sha256",
   encoding |-> "base64", secretEncoding |-> "base64", secretPrefix |-> TRUE, hasId |-> TRUE,
   toleranceSec |-> 300, allowMultiple |-> TRUE]

-----------------------------------------------------------------------------
IsDecimal(text) == text \in DOMAIN Number

PartsOf(parts, k) == Those(parts, {p \in ToSet(parts) : p.key = k})
GivenParts(parts, k) == Those(parts, {p \in ToSet(parts) : p.key = k /\ p.value.as # ""})

(* A header of the form scheme=digest has the one part. *)
HeaderSignatures(spec, d) ==
  IF spec.format # "scheme_hex" THEN GivenParts(d.signature, "v1")
  ELSE IF Len(d.signature) = 1 THEN GivenParts(d.signature, spec.algorithm) ELSE <<>>

(* The text of the time, "" when there is none to be had. *)
HeaderTimestamp(d) == LET ts == PartsOf(d.signature, "t")
                      IN IF ts = <<>> THEN "" ELSE ts[1].value.of

ParsedTimestamp(spec, d) ==
  CASE spec.timestampSource = "signature_header" /\ spec.format = "kv_t_v" -> HeaderTimestamp(d)
    [] spec.timestampSource = "separate_header" -> d.timestamp
    [] OTHER -> ""

(* parseHeader: a t= that is no number spoils the header even if the time is
   taken from elsewhere. *)
Parses(spec, d) ==
  /\ HeaderSignatures(spec, d) # <<>>
  /\ spec.format = "kv_t_v" /\ PartsOf(d.signature, "t") # <<>> => IsDecimal(HeaderTimestamp(d))
  /\ spec.timestampSource # "none" => IsDecimal(ParsedTimestamp(spec, d))

(* Without allowMultiple only the first counts. *)
Signatures(spec, d) ==
  IF spec.allowMultiple THEN HeaderSignatures(spec, d) ELSE <<HeaderSignatures(spec, d)[1]>>

Seconds(spec, text) == IF spec.unit = "millis" THEN Number[text] \div 1000 ELSE Number[text]

(* Seeded bug: only what is too old is refused. *)
NotTooOld(spec, d) ==
  spec.timestampSource # "none" => Now - Seconds(spec, ParsedTimestamp(spec, d)) <= spec.toleranceSec

WithinTolerance(spec, d) ==
  spec.timestampSource # "none" =>
    LET age == Now - Seconds(spec, ParsedTimestamp(spec, d))
    IN age <= spec.toleranceSec /\ -age <= spec.toleranceSec

(* strings.ReplaceAll, the one after the other. *)
PutFor(text, placeholder, value) == [i \in DOMAIN text |-> IF text[i] = placeholder THEN value ELSE text[i]]
Mentions(spec, placeholder) == placeholder \in ToSet(spec.payload)

Complete(spec, d) ==
  /\ Mentions(spec, "{timestamp}") => spec.timestampSource # "none"
  /\ Mentions(spec, "{id}") => spec.hasId /\ d.id # ""

SignedText(spec, d) ==
  PutFor(PutFor(PutFor(spec.payload, "{timestamp}", ParsedTimestamp(spec, d)), "{id}", d.id),
         "{body}", d.body)

(* The prefix goes, then base64; what does not decode is the empty key. *)
HmacKey(spec, secret) ==
  LET prefix == secret.prefixed /\ ~spec.secretPrefix
  IN IF spec.secretEncoding # "base64" THEN [raw |-> TRUE, prefix |-> prefix, text |-> secret.text]
     ELSE IF secret.base64 /\ ~prefix THEN [raw |-> FALSE, prefix |-> FALSE, text |-> secret.text]
     ELSE [raw |-> TRUE, prefix |-> FALSE, text |-> ""]

Hmac(key, text) == [key |-> key, text |-> text]

(* Base64 with its padding or without. *)
SignatureDecodes(s, encoding) == IF encoding = "hex" THEN s.as = "hex" ELSE s.as \in {"base64", "rawbase64"}

Verify(spec, d, secret) ==
  /\ Parses(spec, d)
  /\ WithinTolerance(spec, d)
  /\ Complete(spec, d)
  /\ \E i \in DOMAIN Signatures(spec, d) :
       LET s == Signatures(spec, d)[i].value
       IN SignatureDecodes(s, spec.encoding) /\ s.of = Hmac(HmacKey(spec, secret), SignedText(spec, d))

-----------------------------------------------------------------------------
(* What a signer keeps and signs, by what a provider says of its deliveries. *)
TimeAndBody == <<"{timestamp}", ".", "{body}">>
IdTimeAndBody == <<"{id}", ".", "{timestamp}", ".", "{body}">>
BodyAlone == <<"{body}">>
NoSecret == [prefixed |-> FALSE, text |-> "", base64 |-> FALSE]
Decoded(spec, secret) == spec.secretEncoding = "base64" /\ secret.base64
SendersKey(spec, secret) ==
  IF Decoded(spec, secret) THEN [raw |-> FALSE, prefix |-> FALSE, text |-> secret.text]
  ELSE [raw |-> TRUE, prefix |-> secret.prefixed, text |-> secret.text]
SendersText(f) == CASE f.spec.payload = IdTimeAndBody -> <<f.id, ".", f.time, ".", f.body>>
                    [] f.spec.payload = TimeAndBody -> <<f.time, ".", f.body>>
                    [] OTHER -> <<f.body>>

(* Specs are put together as the presets are: what is signed is to be had,
   and a secret has a prefix where it is base64.  A secret is any text but the
   empty one, and no two have the same.  A digest was made after one of the
   specs, by someone with one of the secrets or with none; a placeholder is no
   number and no id. *)
ASSUME SignatureAssumption ==
  /\ Now \in Int /\ Number \in [DOMAIN Number -> Nat] /\ "" \notin DOMAIN Number
  /\ \A spec \in Specs :
       /\ spec.payload \in {TimeAndBody, IdTimeAndBody, BodyAlone}
       /\ spec.payload # BodyAlone => spec.timestampSource # "none"
       /\ spec.payload = IdTimeAndBody => spec.hasId
       /\ spec.timestampSource \in {"signature_header", "separate_header", "none"}
       /\ spec.secretEncoding \in {"raw", "base64"}
       /\ spec.secretPrefix = (spec.secretEncoding = "base64")
       /\ spec.allowMultiple \in BOOLEAN /\ spec.toleranceSec \in Nat
  /\ Secrets \subseteq [prefixed : BOOLEAN, text : STRING, base64 : BOOLEAN]
  /\ \A s \in Secrets : (s.text = "" => s.prefixed) /\ \A t \in Secrets : s.text = t.text => s = t
  /\ {"{id}", "{body}"} \cap DOMAIN Number = {}
  /\ \A d \in Deliveries :
       /\ d.signature \in Seq(ToSet(d.signature)) /\ d.id # "{body}"
       /\ \A p \in ToSet(d.signature) : p.value.as \in {"hex", "base64", "rawbase64"} =>
            /\ p.facts.spec \in Specs /\ p.facts.secret \in Secrets \cup {NoSecret}
            /\ p.value.of = Hmac(SendersKey(p.facts.spec, p.facts.secret), SendersText(p.facts))

-----------------------------------------------------------------------------
SignatureInit == \E spec \in Specs, d \in Deliveries, secret \in Secrets :
  verifying = [at |-> "asked", spec |-> spec, delivery |-> d, secret |-> secret]

VerifyDelivery ==
  /\ verifying.at = "asked"
  /\ verifying' = [verifying EXCEPT !.at =
       IF Verify(verifying.spec, verifying.delivery, verifying.secret) THEN "accepted" ELSE "refused"]

SignatureSpec == SignatureInit /\ [][VerifyDelivery]_verifying

(* zitadelsign: the header that ZITADEL sends. *)
ComputeSignature(body, secret, time) == Hmac([raw |-> TRUE, prefix |-> secret.prefixed, text |-> secret.text], <<time, ".", body>>)

ZitadelHeader(body, secret, time) ==
  <<[key |-> "t", value |-> [as |-> "text", of |-> time]],
    [key |-> "v1", value |-> [as |-> "hex", of |-> ComputeSignature(body, secret, time)]]>>

-----------------------------------------------------------------------------
(* The signatures that may count: all of them, or the first. *)
MayCount(spec, parts) ==
  LET label == IF spec.format = "scheme_hex" THEN spec.algorithm ELSE "v1"
      signs == {i \in DOMAIN parts : parts[i].key = label /\ parts[i].value.as # ""}
  IN {i \in signs : /\ spec.allowMultiple \/ \A j \in signs : i <= j
                    /\ spec.format = "scheme_hex" => Len(parts) = 1}

(* The time told with the delivery is within the tolerance, before or after. *)
Recent(spec, d) ==
  LET n == Number[ParsedTimestamp(spec, d)]
      low == Now - spec.toleranceSec
      high == Now + spec.toleranceSec
  IN IF spec.unit = "millis" THEN n \in (1000 * low)..(1000 * high + 999) ELSE n \in low..high

(* The secret a signature is to be made with.  Where the provider keeps it in
   base64 and it is not, the comment at signature.go:173 has the verification
   fail; the code computes with the empty key, as without a secret. *)
Expected(spec, secret) ==
  IF spec.secretEncoding = "base64" /\ ~secret.base64 THEN NoSecret ELSE secret

(* A delivery is accepted exactly when one of the signatures that count was
   made with the secret to be expected, in the encoding agreed on, over this
   very body, this time and this id, as far as the provider signs them, and
   the time is recent; a header that does not parse is refused.  The secret
   to be expected is the connection's, unless that cannot be decoded: then it
   is none. *)
AcceptedIsAuthentic ==
  verifying.at # "asked" =>
    LET spec == verifying.spec
        d == verifying.delivery
        signs(what) == what \in ToSet(spec.payload)
    IN verifying.at = "accepted" <=>
         /\ spec.format = "kv_t_v" =>
              \A i \in DOMAIN d.signature : d.signature[i].key = "t" =>
                IsDecimal(d.signature[i].value.of) \/ \E j \in 1..(i - 1) : d.signature[j].key = "t"
         /\ spec.timestampSource # "none" => IsDecimal(ParsedTimestamp(spec, d)) /\ Recent(spec, d)
         /\ signs("{id}") => d.id # ""
         /\ \E i \in MayCount(spec, d.signature) :
              LET f == d.signature[i].facts
              IN /\ SignatureDecodes(d.signature[i].value, spec.encoding)
                 /\ f.spec.payload = spec.payload /\ f.body = d.body
                 /\ f.secret = Expected(spec, verifying.secret)
                 /\ Decoded(f.spec, f.secret) <=> Decoded(spec, verifying.secret)
                 /\ signs("{timestamp}") => f.time = ParsedTimestamp(spec, d)
                 /\ signs("{id}") => f.id = d.id
=============================================================================
