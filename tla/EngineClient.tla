---------------------------- MODULE EngineClient ----------------------------
(***************************************************************************)
(* What createTelegraphEngineClient's ask makes of the engine's response   *)
(* to a question (engine-client.ts).  A response is reduced to what the    *)
(* code tells apart: the status, the two payment headers, how the body     *)
(* reads, and whether the reported cost and the other fields are accepted. *)
(***************************************************************************)

TelegraphEngineErrorCode ==
    {"HTTP_ERROR", "TRANSPORT_ERROR", "INVALID_RESPONSE", "PAYMENT_REQUIRED", "COST_EXCEEDED"}

\* An error that is no TelegraphEngineError is recorded as UNCLASSIFIED.
ErrorCode == TelegraphEngineErrorCode \cup {"UNCLASSIFIED"}

\* A response whose fetch throws is LOST.  The challenge is the payment-required
\* header, the receipt the payment-response header: with a boolean "success" or
\* none, false with the error of a transaction that failed or with another, or
\* not canonical base64 of an object.
Response ==
    [status    : {"LOST", "PAYMENT_REQUIRED", "ERROR", "OK"},
     challenge : {"MISSING", "OVERSIZED", "FITS"},
     receipt   : {"ABSENT", "UNREADABLE", "SILENT", "SETTLED", "TRANSACTION_FAILED",
                  "UNSETTLED"},
     body      : {"EMPTY", "OVERSIZED", "BROKEN", "GARBLED", "JSON"},
     cost      : {"UNREADABLE", "WITHIN", "ABOVE"},
     accepted  : BOOLEAN]

\* The header denies that the payment settled.
Denies(response) == response.receipt \in {"TRANSACTION_FAILED", "UNSETTLED"}

\* A header that does not say whether the payment settled counts as a denial.
SilenceIsDenial(response) ==
    [unsettled  |-> response.receipt \notin {"ABSENT", "SETTLED"},
     recognized |-> response.receipt = "TRANSACTION_FAILED"]

\* The fields of the payment-response header that a run looks at.
PaymentResponseFields(response) ==
    [unsettled  |-> Denies(response),
     recognized |-> response.receipt = "TRANSACTION_FAILED"]

\* diagnosePaymentFailure never throws: it keeps the header's word however the
\* body of the refusal reads.
Diagnosis(response) ==
    [bodyStatus |-> CASE response.body \in {"EMPTY", "OVERSIZED"} -> response.body
                      [] response.body = "BROKEN" -> "READ_FAILED"
                      [] OTHER -> "CAPTURED",
     paymentResponsePresent |-> response.receipt # "ABSENT",
     fields |-> PaymentResponseFields(response)]

\* A refusal is diagnosed; a challenge that can be answered is not.
Diagnosed(response) ==
    \/ response.status = "ERROR"
    \/ response.status = "PAYMENT_REQUIRED" /\ response.challenge # "FITS"

\* readBounded, the parse, and the checks of the fields: the cost before the rest.
Answered(response) ==
    /\ response.status = "OK"
    /\ response.body = "JSON"
    /\ response.cost = "WITHIN"
    /\ response.accepted

CodeOf(response) ==
    CASE response.status = "LOST" -> "TRANSPORT_ERROR"
      [] response.status = "ERROR" -> "HTTP_ERROR"
      [] response.status = "PAYMENT_REQUIRED" ->
            IF response.challenge = "FITS" THEN "PAYMENT_REQUIRED" ELSE "INVALID_RESPONSE"
      [] response.status = "OK" ->
            IF response.body = "BROKEN" THEN "UNCLASSIFIED"
            ELSE IF response.body = "JSON" /\ response.cost = "ABOVE" THEN "COST_EXCEEDED"
            ELSE "INVALID_RESPONSE"

-----------------------------------------------------------------------------
\* An error as a run sees it: its code, whether its diagnosis says that the
\* payment did not settle, and whether for a reason that rules settlement out;
\* beside it, whether the engine denied the settlement at all.
EngineError == [code : ErrorCode, unsettled : BOOLEAN, recognized : BOOLEAN, denied : BOOLEAN]

Undiagnosed(code) == [code |-> code, unsettled |-> FALSE, recognized |-> FALSE, denied |-> FALSE]

ErrorOf(response) ==
    LET error == [Undiagnosed(CodeOf(response)) EXCEPT !.denied = Denies(response)]
        fields == Diagnosis(response).fields
    IN  IF Diagnosed(response)
        THEN [error EXCEPT !.unsettled = fields.unsettled, !.recognized = fields.recognized]
        ELSE error

\* What ask throws.
AskErrors == {ErrorOf(response) : response \in {r \in Response : ~Answered(r)}}

=============================================================================
