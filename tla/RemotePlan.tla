----------------------------- MODULE RemotePlan -----------------------------
(***************************************************************************)
(* The records remote OCR is bound by (mpdf-core/src/remote_api.rs): the   *)
(* plan a user consents to, the receipt of its task, the service's result; *)
(* and what the HTTP client (mpdf-api-client) refuses of each.             *)
(*                                                                         *)
(* SHA-256 of a canonical serialization is the tuple of what is            *)
(* serialized.  A field is a member of a small set; its validation is a    *)
(* record of what the validator looks at.                                  *)
(***************************************************************************)
EXTENDS Integers, Sequences

\* valid_text and valid_digest.
MaxFieldBytes == 512
ValidText(t) == t.bytes \in 1 .. MaxFieldBytes /\ ~t.control
ValidCurrency(t) == ValidText(t) /\ t.bytes = 3 /\ t.uppercase

\* validate_origin, of a parsed URL: "localhost" is not a loopback address.
ValidOrigin(url) ==
  /\ ~url.credentials /\ ~url.query /\ ~url.fragment
  /\ url.path \in {"", "/"} /\ url.host # "none"
  /\ \/ url.scheme = "https"
     \/ url.scheme = "http" /\ url.host \in {"127.0.0.0/8", "::1"}

\* ApiClientConfig::validate.
MaxRetries == 3
AcceptsConfig(url, allowLoopbackHttp, responseLimit, maxResponse, retries) ==
  /\ ValidOrigin(url)
  /\ url.scheme = "http" => allowLoopbackHttp
  /\ responseLimit \in 1 .. maxResponse /\ retries <= MaxRetries

-----------------------------------------------------------------------------
\* plan_without_digest: the fields a consent stands for.
Digest(plan) ==
  <<plan.schema, plan.origin, plan.operation, plan.provider, plan.model, plan.source,
    plan.bytes, plan.pages, plan.retention, plan.cost, plan.currency>>

\* ApiPlan::new; the plan's texts are valid by choice of the model's values.
NewPlan(f) ==
  LET plan == [schema |-> "mpdf-api-plan 0.1", origin |-> f.origin, operation |-> "ocr",
               provider |-> f.provider, model |-> f.model, source |-> f.source,
               bytes |-> f.bytes, pages |-> f.pages, retention |-> f.retention,
               cost |-> f.cost, currency |-> f.currency, digest |-> <<>>]
  IN  [plan EXCEPT !.digest = Digest(plan)]

\* ApiPlan::validate.
ValidPlan(plan) ==
  /\ plan.schema = "mpdf-api-plan 0.1"
  /\ plan.bytes > 0 /\ plan.pages > 0
  /\ plan.digest = Digest(plan)

\* validate_consent; the clock may be five minutes off.
ClockSkew == 300
ValidConsent(plan, consent, now) ==
  /\ ValidPlan(plan)
  /\ consent.digest = plan.digest
  /\ consent.at \in 0 .. now + ClockSkew

\* request_id and idempotency_key.
RequestId(plan) == <<"0.1", plan.digest, plan.source>>
IdempotencyKey(plan, action) == <<RequestId(plan), action, plan.digest>>

-----------------------------------------------------------------------------
\* receipt_without_digest.
ReceiptDigest(r) ==
  <<r.schema, r.protocol, r.origin, r.task, r.request, r.operation, r.source, r.bytes,
    r.pages, r.plan, r.provider, r.model, r.cost, r.currency, r.retention>>

\* ApiTaskReceipt::from_plan.
FromPlan(plan, taskId) ==
  LET receipt == [schema |-> "mpdf-api-task-receipt 0.1", protocol |-> "mpdf-api 0.1",
                  origin |-> plan.origin, task |-> taskId, request |-> RequestId(plan),
                  operation |-> plan.operation, source |-> plan.source, bytes |-> plan.bytes,
                  pages |-> plan.pages, plan |-> plan.digest, provider |-> plan.provider,
                  model |-> plan.model, cost |-> plan.cost, currency |-> plan.currency,
                  retention |-> plan.retention, digest |-> <<>>]
  IN  [receipt EXCEPT !.digest = ReceiptDigest(receipt)]

ValidReceipt(r) ==
  /\ r.schema = "mpdf-api-task-receipt 0.1" /\ r.protocol = "mpdf-api 0.1"
  /\ r.bytes > 0 /\ r.pages > 0
  /\ r.digest = ReceiptDigest(r)

\* matches_plan.
MatchesPlan(r, plan) ==
  /\ ValidReceipt(r) /\ ValidPlan(plan)
  /\ r.plan = plan.digest
  /\ \A f \in {"origin", "operation", "source", "bytes", "pages", "provider", "model", "cost",
               "currency", "retention"} : r[f] = plan[f]

\* mpdf api import: the plan the receipt was made from, or a refusal.
PlanOf(r) == NewPlan(r)
Importable(r) == ValidReceipt(r) /\ PlanOf(r).digest = r.plan

-----------------------------------------------------------------------------
\* ApiClient::create_task: the answer is for this plan.
AcceptsTask(plan, answer) == answer.validId /\ answer.request = RequestId(plan)

\* ApiClient::upload_blob: the bytes are still those of the plan.
AcceptsUpload(plan, consent, now, source) ==
  ValidConsent(plan, consent, now) /\ source.bytes = plan.bytes /\ source.digest = plan.source

\* ApiClient::result and RemoteOcrResult::validate.
PageIndexes(result) == {result.pages[k] : k \in DOMAIN result.pages}
Distinct(seq) == \A j, k \in DOMAIN seq : seq[j] = seq[k] => j = k
AcceptsResult(plan, taskId, result) ==
  /\ result.protocol = "mpdf-api 0.1"
  /\ result.source = plan.source /\ result.task = taskId
  /\ Len(result.pages) = plan.pages /\ Distinct(result.pages)
  /\ result.digest = <<result.raw>>

\* install_remote_ocr_result: page indexes start at 0.
InstallsFaulty(package, result) ==
  /\ result.digest = <<result.raw>>
  /\ package.source = result.source
  /\ package.pages = Len(result.pages) /\ package.pages > 0
  /\ Distinct(result.pages)
Installs(package, result) ==
  /\ result.digest = <<result.raw>>
  /\ package.source = result.source
  /\ package.pages = Len(result.pages) /\ package.pages > 0
  /\ Distinct(result.pages)
  /\ \A g \in PageIndexes(result) : g < package.pages

-----------------------------------------------------------------------------
\* A consent counts for one plan only: changing the budget, the retention, the
\* pages or any other field of the plan afterwards makes it stale.
ConsentCoversPlan(p, q) ==
  ValidConsent(q, [digest |-> p.digest, at |-> 0], 0) => p = q

\* The receipt is enough to get the task's plan back, and is bound to no other.
ReceiptRestoresPlan(p, q) ==
  LET r == FromPlan(p, "task")
  IN  /\ Importable(r) /\ PlanOf(r) = p
      /\ MatchesPlan(r, q) <=> p = q

\* Requests that must not be taken for one another have different keys.
KeysAreDistinct(p, q) ==
  \A a, b \in {"create", "upload", "start", "delete-content"} :
    IdempotencyKey(p, a) = IdempotencyKey(q, b) => p = q /\ a = b

\* What is installed has every page of the document once.
InstalledResultIsWhole(package, result) ==
  Installs(package, result) => PageIndexes(result) = 0 .. package.pages - 1
=============================================================================
