----------------------------- MODULE WalletSide -----------------------------
(***************************************************************************)
(* Requests between two programs of this SDK over a channel:               *)
(* crates/connect-iroh/src/protocol.rs, and the Gateway client the wallet  *)
(* submits with, crates/gateway-tx/src/lib.rs.                             *)
(*                                                                         *)
(* A dApp sends a request and takes the next message for its answer.  It   *)
(* may drop the call meanwhile.  The wallet checks the request, asks its   *)
(* approver, signs, and for a transaction submits it and polls.  The       *)
(* Gateway, and the way to it, may fail before or after it has done what   *)
(* was asked; the ledger commits or rejects in its own time.               *)
(***************************************************************************)
EXTENDS Interaction, Sequences, FiniteSets

CONSTANTS Asked,      \* bound: requests of the dApp
          Polls       \* COMMIT_POLLS

WalletNetwork == 2

\* What peers send: to the wallet's network, to another one, to one that only a
\* truncated id would make the wallet's, or to none.
Networks == {0, 1, 2, 258}

VARIABLES request,    \* the requests sent, in order
          toWallet,   \* interaction ids on the way to the wallet
          toDapp,     \* answers on the way back
          call,       \* the request the dApp waits for, or 0
          told,       \* what the dApp's call of each request returned
          wallet,     \* what the wallet is at: [at, pc, polls]
          answered,   \* the wallet's answer to each request
          approved, signed,
          ledger,     \* what became of each transaction
          refusedBy   \* submissions told to be refused: SubmitRejected

walletSide == <<request, toWallet, toDapp, call, told, wallet, answered,
                approved, signed, ledger, refusedBy>>

Idle == [at |-> 0, pc |-> "idle", polls |-> 0]
NotTold == [is |-> "none", value |-> NoContent]
NoAnswer == failure_response(0, "none")

WalletSideInit ==
    /\ request = <<>> /\ toWallet = <<>> /\ toDapp = <<>> /\ call = 0
    /\ told = [i \in 1..Asked |-> NotTold]
    /\ wallet = Idle
    /\ answered = [i \in 1..Asked |-> NoAnswer]
    /\ approved = {} /\ signed = {} /\ refusedBy = {}
    /\ ledger = [i \in 1..Asked |-> "absent"]

(***************************************************************************)
(* The dApp                                                                *)
(***************************************************************************)

\* A challenge, a manifest and an expiry the wallet takes, and ones it does not.
Sendable(i, net) ==
    {account_proof_request(i, net, c, FALSE) : c \in {"challenge", "short"}}
    \cup {account_request(i, net), login_request(i, net, "challenge", TRUE),
          ownership_request(i, net, "challenge"), Request(i, net, "other", Nothing)}
    \cup {transaction_request(i, net, m) : m \in {"manifest", "broken"}}
    \cup {pre_authorization_request(i, net, s) : s \in {0, 600}}

DappAsks ==
    LET i == Len(request) + 1 IN
    /\ call = 0 /\ i <= Asked
    /\ \E net \in Networks : \E r \in Sendable(i, net) : request' = Append(request, r)
    /\ toWallet' = Append(toWallet, i)
    /\ call' = i
    /\ UNCHANGED <<toDapp, told, wallet, answered, approved, signed, ledger, refusedBy>>

\* The call is dropped; its request stays on its way.
DappDrops ==
    /\ call # 0
    /\ call' = 0
    /\ UNCHANGED <<request, toWallet, toDapp, told, wallet, answered, approved,
                   signed, ledger, refusedBy>>

\* A proof is verified against the challenge the call sent.
Read(answer, r) ==
    CASE r.discriminator = "transaction" -> extract_transaction_intent_hash(answer)
      [] r.discriminator = "preAuthorizationRequest" ->
             extract_signed_partial_transaction(answer)
      [] OTHER -> LET proof == extract_proofs(answer)
                  IN IF proof.is = "ok" /\ proof.value # r.asks["oneTimeAccounts"]
                       THEN [is |-> "protocol", value |-> NoContent] ELSE proof

DappReceives ==
    /\ call # 0 /\ toDapp # <<>>
    /\ told' = [told EXCEPT ![call] = IF "oneTimeAccounts" \in DOMAIN request[call].asks
                                         \/ request[call].discriminator \in
                                              {"transaction", "preAuthorizationRequest"}
                                       THEN Read(Head(toDapp), request[call])
                                       ELSE [is |-> "protocol", value |-> NoContent]]
    /\ toDapp' = Tail(toDapp)
    /\ call' = 0
    /\ UNCHANGED <<request, toWallet, wallet, answered, approved, signed, ledger,
                   refusedBy>>

(***************************************************************************)
(* The wallet: Wallet::answer                                              *)
(***************************************************************************)

Reply(i, answer) ==
    /\ answered' = [answered EXCEPT ![i] = answer]
    /\ toDapp' = Append(toDapp, answer)
    /\ wallet' = Idle

Fails(i, error) == Reply(i, failure_response(i, error))

\* What is refused before the approver is asked.
Refusal(r) ==
    IF NetworkId(r.networkId) # WalletNetwork THEN "wrongNetwork"
    ELSE IF \/ /\ r.discriminator \in {"unauthorizedRequest", "authorizedRequest"}
               /\ parse_account_proof_request(r)
               /\ r.asks["oneTimeAccounts"] # "short"
            \/ /\ r.discriminator = "transaction"
               /\ parse_transaction_request(r)
               /\ r.asks["send"] # "broken"
            \/ /\ r.discriminator = "preAuthorizationRequest"
               /\ parse_pre_authorization_request(r)
               /\ r.asks["request"] > 0
         THEN "none" ELSE "invalidRequest"

respond ==
    LET i == Head(toWallet) IN
    /\ wallet = Idle /\ toWallet # <<>>
    /\ toWallet' = Tail(toWallet)
    /\ IF Refusal(request[i]) = "none"
         THEN /\ wallet' = [Idle EXCEPT !.at = i, !.pc = "asks"]
              /\ UNCHANGED <<toDapp, answered>>
         ELSE Fails(i, Refusal(request[i]))
    /\ UNCHANGED <<request, call, told, approved, signed, ledger, refusedBy>>

\* The approver answers; a proof is signed at once.
Decided ==
    LET i == wallet.at
        r == request[i] IN
    /\ wallet.pc = "asks"
    /\ \/ /\ Fails(i, "rejectedByUser")
          /\ UNCHANGED <<approved, signed>>
       \/ /\ approved' = approved \cup {i}
          /\ IF Asks(r, "oneTimeAccounts")
               THEN /\ signed' = signed \cup {i}
                    /\ Reply(i, account_proof_response(i, r.asks["oneTimeAccounts"]))
               ELSE /\ wallet' = [wallet EXCEPT !.pc = "prepares"]
                    /\ UNCHANGED <<signed, toDapp, answered>>
    /\ UNCHANGED <<request, toWallet, call, told, ledger, refusedBy>>

\* The epoch is read, and the transaction notarized or the subintent signed.
Prepared ==
    LET i == wallet.at IN
    /\ wallet.pc = "prepares"
    /\ \/ /\ Fails(i, "failedToPrepareTransaction")
          /\ UNCHANGED signed
       \/ /\ Fails(i, "failedToSignTransaction")
          /\ Asks(request[i], "request")
          /\ UNCHANGED signed
       \/ /\ signed' = signed \cup {i}
          /\ IF Asks(request[i], "request")
               THEN Reply(i, pre_authorization_response(i, i))
               ELSE /\ wallet' = [wallet EXCEPT !.pc = "submits"]
                    /\ UNCHANGED <<toDapp, answered>>
    /\ UNCHANGED <<request, toWallet, call, told, approved, ledger, refusedBy>>

\* Gateway::submit.  An HTTP error may come before or after the Gateway took the
\* transaction; any answer but a success that parses is SubmitRejected.
Submitted ==
    LET i == wallet.at IN
    /\ wallet.pc = "submits"
    /\ \E took \in BOOLEAN, outcome \in {"ok", "http", "SubmitRejected"} :
         /\ outcome = "ok" => took
         /\ ledger' = IF took THEN [ledger EXCEPT ![i] = "pending"] ELSE ledger
         /\ refusedBy' = IF outcome = "SubmitRejected" THEN refusedBy \cup {i}
                         ELSE refusedBy
         /\ IF outcome = "ok"
              THEN /\ wallet' = [wallet EXCEPT !.pc = "polls"]
                   /\ UNCHANGED <<toDapp, answered>>
              ELSE Fails(i, "failedToSubmitTransaction")
    /\ UNCHANGED <<request, toWallet, call, told, approved, signed>>

\* MUTANT of submission_outcome: any final status is taken for a success.
FinalIsSuccess(i, status) ==
    IF status \in {"success", "failure", "rejected"} THEN transaction_response(i, i)
    ELSE failure_response(i, "failedToPollSubmittedTransaction")

\* Only a successful commit is a success.
submission_outcome(i, status) ==
    CASE status = "success" -> transaction_response(i, i)
      [] status = "failure" ->
             failure_response(i, "submittedTransactionHasFailedTransactionStatus")
      [] status = "rejected" ->
             failure_response(i, "submittedTransactionHasRejectedTransactionStatus")
      [] OTHER -> failure_response(i, "failedToPollSubmittedTransaction")

\* Gateway::wait_for_commit: until a status is final, a query fails, or the polls
\* run out.  The Gateway may be behind the ledger.
Polled ==
    LET i == wallet.at IN
    /\ wallet.pc = "polls"
    /\ \E status \in {ledger[i], "pending", "error"} :
         IF status # "pending" \/ wallet.polls + 1 = Polls
           THEN Reply(i, submission_outcome(i, status))
           ELSE /\ wallet' = [wallet EXCEPT !.polls = @ + 1]
                /\ UNCHANGED <<toDapp, answered>>
    /\ UNCHANGED <<request, toWallet, call, told, approved, signed, ledger, refusedBy>>

LedgerDecides ==
    /\ \E i \in 1..Asked :
         /\ ledger[i] = "pending"
         /\ \E s \in {"success", "failure", "rejected"} : ledger' = [ledger EXCEPT ![i] = s]
    /\ UNCHANGED <<request, toWallet, toDapp, call, told, wallet, answered, approved,
                   signed, refusedBy>>

WalletSideNext ==
    \/ DappAsks \/ DappDrops \/ DappReceives
    \/ respond \/ Decided \/ Prepared \/ Submitted \/ Polled
    \/ LedgerDecides

(***************************************************************************)
(* Properties                                                              *)
(***************************************************************************)

\* The wallet's answer tells what became of the transaction: a success only for
\* one that committed as one, a failed or rejected status only for that status,
\* and every other refusal but the two that leave it open only for a transaction
\* that never reached the ledger (protocol.rs: submission_outcome, respond).
AnswerIsTrueOfTheLedger ==
    \A i \in 1..Len(request) : request[i].discriminator = "transaction" =>
        LET a == answered[i] IN
        /\ a.discriminator = "success" => ledger[i] = "success"
        /\ CASE a.error = "submittedTransactionHasFailedTransactionStatus" ->
                    ledger[i] = "failure"
             [] a.error = "submittedTransactionHasRejectedTransactionStatus" ->
                    ledger[i] = "rejected"
             [] a.error \in {"wrongNetwork", "invalidRequest", "rejectedByUser",
                             "failedToPrepareTransaction"} -> ledger[i] = "absent"
             [] OTHER -> TRUE

\* Nothing is signed that was asked of another network, was not approved or is
\* open-ended, whatever a peer sends.
OnlyWhatWasAskedIsSigned ==
    \A i \in signed :
        /\ i \in approved
        /\ request[i].networkId = WalletNetwork
        /\ Asks(request[i], "oneTimeAccounts") =>
             request[i].asks["oneTimeAccounts"] \notin {NoChallenge, "short"}
        /\ Asks(request[i], "request") => request[i].asks["request"] > 0

\* Gateway::submit: SubmitRejected means the ledger refused the transaction
\* outright, for good.
RejectedIsForGood == \A i \in refusedBy : ledger[i] \notin {"pending", "success"}

\* A call returns the answer to its own request.
AnswersAreOwn ==
    \A i \in 1..Asked : told[i].is = "ok" /\ request[i].discriminator = "transaction"
                           => told[i].value = i
=============================================================================
