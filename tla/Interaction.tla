----------------------------- MODULE Interaction -----------------------------
(***************************************************************************)
(* The wallet-interaction schema: crates/connect-types.  A request asks    *)
(* for parts, each with the challenge it is to be signed with or without   *)
(* one; an answer is a failure or carries parts.  The JSON text, the       *)
(* quantities and the persona data themselves are left out.                *)
(***************************************************************************)
EXTENDS Naturals

NoChallenge == "no challenge"
NoContent == "no content"

Only(part, content) == [p \in {part} |-> content]

Parts(f, g) == [p \in DOMAIN f \cup DOMAIN g |-> IF p \in DOMAIN f THEN f[p] ELSE g[p]]

Nothing == [p \in {} |-> NoContent]

\* A part that is asked for only when `wanted'.
When(wanted, part, content) == IF wanted THEN Only(part, content) ELSE Nothing

(***************************************************************************)
(* The dApp's side: requests                                               *)
(***************************************************************************)

\* interactionId is fresh; the network is what the context names.
Request(id, net, kind, asks) ==
    [interactionId |-> id, networkId |-> net, discriminator |-> kind, asks |-> asks]

account_proof_request(id, net, challenge, share) ==
    Request(id, net, "unauthorizedRequest",
            Parts(Only("oneTimeAccounts", challenge),
                  When(share, "oneTimePersonaData", NoChallenge)))

login_request(id, net, challenge, share) ==
    Request(id, net, "authorizedRequest",
            Parts(Only("auth", challenge),
                  Parts(Only("oneTimeAccounts", challenge),
                        When(share, "oneTimePersonaData", NoChallenge))))

account_request(id, net) ==
    Request(id, net, "unauthorizedRequest", Only("oneTimeAccounts", NoChallenge))

\* The manifest, and for a subintent how long it may be used.
transaction_request(id, net, manifest) ==
    Request(id, net, "transaction", Only("send", manifest))

pre_authorization_request(id, net, seconds) ==
    Request(id, net, "preAuthorizationRequest", Only("request", seconds))

\* want: a record of what is asked beside the persona, each FALSE, or TRUE with
\* the challenge when it is to be proven.
authorized_request(id, net, auth, want) ==
    Request(id, net, "authorizedRequest", Parts(Only("auth", auth), want))

unauthorized_request(id, net, want) ==
    Request(id, net, "unauthorizedRequest", want)

ownership_request(id, net, challenge) ==
    authorized_request(id, net, NoChallenge, Only("proofOfOwnership", challenge))

(***************************************************************************)
(* The dApp's side: answers                                                *)
(***************************************************************************)

check_failure(answer) == answer.discriminator # "failure"

\* What a reader of one part makes of an answer.
Extract(answer, part) ==
    CASE ~check_failure(answer) -> [is |-> "rejected", value |-> answer.error]
      [] part \in DOMAIN answer.items -> [is |-> "ok", value |-> answer.items[part]]
      [] OTHER -> [is |-> "protocol", value |-> NoContent]

extract_proofs(answer) == Extract(answer, "oneTimeAccounts")
extract_login(answer) == Extract(answer, "auth")
extract_ownership_proofs(answer) == Extract(answer, "proofOfOwnership")
extract_transaction_intent_hash(answer) == Extract(answer, "send")
extract_signed_partial_transaction(answer) == Extract(answer, "response")

(***************************************************************************)
(* The wallet's side                                                       *)
(***************************************************************************)

\* MUTANT of NetworkId: a cast to eight bits instead of try_from.
TruncatedId(n) == n % 256

\* An id out of range is taken for absent, and no wallet is on network 0.
NetworkId(n) == IF n \in 0..255 THEN n ELSE 0

Asks(asked_for, part) == part \in DOMAIN asked_for.asks

parse_account_proof_request(asked_for) ==
    /\ Asks(asked_for, "oneTimeAccounts")
    /\ asked_for.asks["oneTimeAccounts"] # NoChallenge

parse_transaction_request(asked_for) == Asks(asked_for, "send")

parse_pre_authorization_request(asked_for) == Asks(asked_for, "request")

Success(id, part, content) ==
    [discriminator |-> "success", interactionId |-> id, error |-> "none",
     items |-> Only(part, content)]

failure_response(id, error) ==
    [discriminator |-> "failure", interactionId |-> id, error |-> error,
     items |-> Nothing]

account_proof_response(id, proof) == Success(id, "oneTimeAccounts", proof)
transaction_response(id, txid) == Success(id, "send", txid)
pre_authorization_response(id, signed) == Success(id, "response", signed)
=============================================================================
