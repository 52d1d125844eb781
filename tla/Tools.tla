------------------------------- MODULE Tools -------------------------------
(***************************************************************************)
(* The request tools of the MCP server: crates/connector-mcp/src/tools.rs, *)
(* requests.rs and gateway.rs, with the proofs of crates/rola/src/lib.rs   *)
(* they verify.  A call checks its arguments, simulates its manifest, is   *)
(* refused while an earlier request may be waiting, checks the dApp as the *)
(* wallet will, sends, and lays out the answer with every proof verified.  *)
(*                                                                         *)
(* A wallet may answer with any signature there is: one it makes now with  *)
(* its own key, or any made before, here or for another dApp.  The record  *)
(* of requests and the transports are those of Outbox and Converse.        *)
(***************************************************************************)
EXTENDS Interaction, FiniteSets

CONSTANT ToolCalls    \* bound: calls

Net == 2
Own == "own"          \* the wallet's key; "theirs" belongs to somebody else

VARIABLES ask,        \* what each call is at: [pc, args, challenge, request]
          signatures, \* every signature there is
          before,     \* those there were when each call sent its request
          shown,      \* what each call told of a proof: [item, verdict]
          warned,     \* calls that said not to trust the answer
          dapp_checks \* dApps found in order, for DAPP_CHECK_TTL

tools == <<ask, signatures, before, shown, warned, dapp_checks>>

(***************************************************************************)
(* rola: what is signed, and what a verified proof shows                   *)
(***************************************************************************)

\* The challenge, the dApp definition with its length, and the origin.
signature_message(challenge, dapp) == <<challenge, dapp>>

DerivedAddress(kind, key, network) == <<kind, key, network>>

\* A challenge that is no hex is no message.
verify_proof(item, challenge, dapp) ==
    /\ challenge # "bad"
    /\ item.proof.message = signature_message(challenge, dapp)
    /\ DerivedAddress(item.kind, item.proof.key, Net) = item.address

\* MUTANT of verdict: the challenge the answer names is the one checked.
EchoedVerdict(item, challenge, dapp) ==
    IF verify_proof(item, IF item.echoed # NoChallenge THEN item.echoed ELSE challenge, dapp)
    THEN "verified" ELSE "not verified"

\* Verifier::verdict
verdict(item, challenge, dapp) ==
    IF item.echoed \notin {NoChallenge, challenge} THEN "not verified"
    ELSE IF item.curve # "curve25519" THEN "not checked"
    ELSE IF verify_proof(item, challenge, dapp) THEN "verified" ELSE "not verified"

(***************************************************************************)
(* gateway.rs: what its answers are taken for                              *)
(***************************************************************************)

HttpAnswers == {"unreachable", "clientError", "serverError", "unreadable", "ok"}

\* A client error, and a receipt without a status, count as a failed simulation.
preview(construction, http, receipt) ==
    IF construction # "ok" \/ http \notin {"ok", "clientError"} THEN "error"
    ELSE IF http = "ok" /\ receipt = "Succeeded" THEN "succeeded" ELSE "failed"

Previews == {preview(construction, http, receipt) : construction, http \in HttpAnswers,
                receipt \in {"Succeeded", "Failed", "Unknown"}}

\* What the ledger says of the dApp, and what its website does.
check_dapp_identity(dapp, http, claims, site, lists) ==
    [problems |-> \/ dapp = ""
                  \/ http = "ok" /\ ~claims
                  \/ site \in {"clientError", "serverError", "unreadable"}
                  \/ site = "ok" /\ ~lists,
     unchecked |-> http # "ok" \/ site = "unreachable"]

Checks(dapp) == {check_dapp_identity(dapp, http, claims, site, lists) :
                   http, site \in HttpAnswers, claims, lists \in BOOLEAN}

(***************************************************************************)
(* The tools: what they refuse, and what they ask                          *)
(***************************************************************************)

\* share: accounts asked for, and whether with proof; prove: the persona too.
ArgsWith(kinds, challenges, auths, shares, proves) ==
    [tool: kinds, challenge: challenges, dapp: {"d", ""}, auth: auths,
     share: shares, prove: proves]

Challenges == {NoChallenge, "mine", "bad"}
Shares == {"none", "plain", "proven"}

Args ==
    ArgsWith({"accounts", "transaction", "deploy", "pre_authorization"}, {NoChallenge},
             {"none"}, {"none"}, {FALSE})
    \cup ArgsWith({"account_proof"}, Challenges, {"none"}, {"none"}, {FALSE})
    \cup ArgsWith({"login"}, Challenges, {"login", "without"}, Shares, {FALSE})
    \cup ArgsWith({"ownership_proof"}, Challenges, {"persona"}, {"none", "proven"}, BOOLEAN)
    \cup ArgsWith({"authorized"}, Challenges, {"login", "persona"}, {"plain", "proven"},
                  BOOLEAN)
    \cup ArgsWith({"data"}, Challenges, {"none"}, Shares, {FALSE})

challenge_arg(a) == a.challenge # "bad"
require_dapp(a) == a.dapp # ""

InputAccepted(a) ==
    CASE a.tool = "account_proof" -> a.challenge # NoChallenge /\ require_dapp(a)
      [] a.tool = "login" -> challenge_arg(a) /\ require_dapp(a)
      [] a.tool = "ownership_proof" ->
             /\ a.share = "proven" \/ a.prove
             /\ require_dapp(a) /\ challenge_arg(a)
      [] a.tool = "authorized" ->
             /\ challenge_arg(a) /\ require_dapp(a)
             /\ a.prove => a.auth = "persona"
      [] a.tool = "data" ->
             /\ challenge_arg(a)
             /\ a.share # "none"
             /\ a.share = "proven" => require_dapp(a)
      [] OTHER -> TRUE

\* parse_accounts: proven ones with the challenge.
Accounts(a, c) == When(a.share # "none", "oneTimeAccounts",
                       IF a.share = "proven" THEN c ELSE NoChallenge)

\* The persona is proven with the challenge when it logs in with one.
Auth(a, c) == IF a.auth = "login" THEN c ELSE NoChallenge

Built(i, a, c) ==
    CASE a.tool = "accounts" -> account_request(i, Net)
      [] a.tool \in {"transaction", "deploy"} -> transaction_request(i, Net, "manifest")
      [] a.tool = "pre_authorization" -> pre_authorization_request(i, Net, "an hour")
      [] a.tool = "account_proof" -> account_proof_request(i, Net, c, a.prove)
      [] a.tool = "login" -> authorized_request(i, Net, Auth(a, c), Accounts(a, c))
      [] a.tool = "ownership_proof" -> ownership_request(i, Net, c)
      [] a.tool = "authorized" ->
             authorized_request(i, Net, Auth(a, c),
                 Parts(Accounts(a, c), When(a.prove, "proofOfOwnership", c)))
      [] a.tool = "data" -> unauthorized_request(i, Net, Accounts(a, c))

(***************************************************************************)
(* A call                                                                  *)
(***************************************************************************)

NoCall == [pc |-> "none", args |-> NoContent, challenge |-> NoChallenge,
           request |-> NoContent]
NotShown == [item |-> NoContent, verdict |-> "none"]

\* Proofs other dApps were given.
Elsewhere == {[key |-> k, message |-> signature_message("mine", "e")] : k \in {Own, "theirs"}}

ToolsInit ==
    /\ ask = [i \in 1..ToolCalls |-> NoCall]
    /\ signatures = Elsewhere
    /\ before = [i \in 1..ToolCalls |-> {}]
    /\ shown = [i \in 1..ToolCalls |-> NotShown]
    /\ warned = {} /\ dapp_checks = {}

Goes(i, pc) == ask' = [ask EXCEPT ![i].pc = pc]

\* A call that is over with nothing verified is not looked at again.
Over == [NoCall EXCEPT !.pc = "over"]
Ends(i) == ask' = [ask EXCEPT ![i] = Over]

\* A random challenge is one nobody signed before.
Fresh == <<"first", "second", "third">>

Called(i, a) ==
    LET c == IF a.challenge = NoChallenge THEN Fresh[i] ELSE a.challenge IN
    /\ ask[i].pc = "none"
    /\ i > 1 => ask[i - 1].pc \in {"over", "left"}
    /\ ask' = [ask EXCEPT ![i] =
                 IF ~InputAccepted(a) THEN Over
                 ELSE [pc |-> IF a.tool \in {"transaction", "deploy"} THEN "simulates"
                              ELSE "guards",
                       args |-> a, challenge |-> c, request |-> Built(i, a, c)]]
    /\ UNCHANGED <<signatures, before, shown, warned, dapp_checks>>

\* preflight: only a failed simulation stops the request.
preflight(i) ==
    /\ ask[i].pc = "simulates"
    /\ \E outcome \in Previews : IF outcome = "failed" THEN Ends(i) ELSE Goes(i, "guards")
    /\ UNCHANGED <<signatures, before, shown, warned, dapp_checks>>

\* interact: an earlier request may be waiting in the wallet.
Guarded(i) ==
    /\ ask[i].pc = "guards"
    /\ IF \E j \in 1..ToolCalls : ask[j].pc = "left" THEN Ends(i) ELSE Goes(i, "checks")
    /\ UNCHANGED <<signatures, before, shown, warned, dapp_checks>>

\* The dApp check, unless one passed in full a short while ago; then the request
\* is sent.
DappChecked(i) ==
    /\ ask[i].pc = "checks"
    /\ \/ /\ ask[i].args.dapp \in dapp_checks
          /\ Goes(i, "sent")
          /\ before' = [before EXCEPT ![i] = signatures]
          /\ UNCHANGED dapp_checks
       \/ \E check \in Checks(ask[i].args.dapp) :
            IF check.problems
            THEN Ends(i) /\ UNCHANGED <<before, dapp_checks>>
            ELSE /\ Goes(i, "sent")
                 /\ before' = [before EXCEPT ![i] = signatures]
                 /\ dapp_checks' = IF check.unchecked THEN dapp_checks
                                   ELSE dapp_checks \cup {ask[i].args.dapp}
    /\ UNCHANGED <<signatures, shown, warned>>

CheckForgotten ==
    /\ dapp_checks # {}
    /\ dapp_checks' = {}
    /\ UNCHANGED <<ask, signatures, before, shown, warned>>

\* The wallet signs what it is asked to, and answers with that or anything else.
WalletSigns(i) ==
    /\ ask[i].pc \in {"sent", "left"}
    /\ ask[i].challenge # "bad"
    /\ \E p \in DOMAIN ask[i].request.asks : ask[i].request.asks[p] = ask[i].challenge
    /\ signatures' = signatures \cup
         {[key |-> Own, message |-> signature_message(ask[i].challenge, ask[i].args.dapp)]}
    /\ UNCHANGED <<ask, before, shown, warned, dapp_checks>>

\* What an answer says is proven: an account or a persona, as the address of
\* either, with the challenge it names and any signature.
Items(i) ==
    {[kind |-> kind, address |-> address, curve |-> curve, echoed |-> echoed, proof |-> proof] :
        kind \in {"account", "persona"},
        address \in {DerivedAddress("account", k, Net) : k \in {Own, "theirs"}}
                     \cup {DerivedAddress("persona", Own, Net)},
        curve \in {"curve25519", "secp256k1"},
        echoed \in {NoChallenge, "mine", Fresh[i]},
        proof \in signatures}

\* request_account_proof verifies the account's proof; the requests of a persona
\* have every proof judged by render_answer.
Judged(i, item) ==
    LET a == ask[i].args IN
    IF a.tool # "account_proof" THEN verdict(item, ask[i].challenge, a.dapp)
    ELSE IF verify_proof(item, ask[i].challenge, a.dapp) THEN "verified" ELSE "not verified"

Answered(i, item) ==
    LET a == ask[i].args
        v == Judged(i, item)
    IN  /\ ask[i].pc = "sent"
        /\ a.tool \in {"account_proof", "login", "ownership_proof", "authorized", "data"}
        /\ a.tool = "account_proof" => item.kind = "account"
        /\ shown' = [shown EXCEPT ![i] = [item |-> IF v = "verified" THEN item ELSE NoContent,
                                         verdict |-> v]]
        /\ warned' = IF v = "not verified" THEN warned \cup {i} ELSE warned
        /\ IF v = "verified" THEN Goes(i, "over") ELSE Ends(i)
        /\ UNCHANGED <<signatures, before, dapp_checks>>

\* A failure, an answer without what was asked, or one with nothing to prove.
AnsweredWithout(i) ==
    /\ ask[i].pc \in {"sent", "left"}
    /\ Ends(i)
    /\ UNCHANGED <<signatures, before, shown, warned, dapp_checks>>

\* The request stays in the wallet.
TimesOut(i) ==
    /\ ask[i].pc = "sent"
    /\ Goes(i, "left")
    /\ UNCHANGED <<signatures, before, shown, warned, dapp_checks>>

\* await_response lays the late answer out, and says nothing is verified in it.
await_response(i) ==
    /\ ask[i].pc = "left"
    /\ shown' = [shown EXCEPT ![i].verdict = "not checked"]
    /\ Ends(i)
    /\ UNCHANGED <<signatures, before, warned, dapp_checks>>

ToolsNext ==
    \/ CheckForgotten
    \/ \E i \in 1..ToolCalls :
         \/ \E a \in Args : Called(i, a)
         \/ preflight(i) \/ Guarded(i) \/ DappChecked(i) \/ WalletSigns(i)
         \/ AnsweredWithout(i) \/ TimesOut(i)
         \/ await_response(i)
         \/ \E item \in Items(i) : Answered(i, item)

(***************************************************************************)
(* Properties                                                              *)
(***************************************************************************)

\* A proof shown as verified was signed with the key of the address it is shown
\* for, for this dApp and this request: with a challenge made for the request,
\* after it was sent, however the wallet labels it (requests.rs, rola).
VerifiedIsOfThisRequest ==
    \A i \in 1..ToolCalls : shown[i].verdict = "verified" =>
        LET proof == shown[i].item.proof
            a == ask[i].args IN
        /\ proof.key = shown[i].item.address[2]
        /\ proof.message[2] = a.dapp
        /\ a.challenge = NoChallenge => proof \notin before[i]
=============================================================================
