---------------------------- MODULE WebhookRoute ----------------------------
(***************************************************************************)
(* What becomes of one notification: POST /webhooks/binancepay/{id},       *)
(* VerifyWebhook, ParseWebhook and the comparison with the payment's row.  *)
(*                                                                         *)
(* PaymentStatus takes its notifications for genuine and for agreeing or   *)
(* not with the row; here it is decided which are.                         *)
(***************************************************************************)
EXTENDS Integers

CONSTANTS
    MaxDuration,    \* of time.Duration, in units of a minute as all times here
    Window,         \* 5*time.Minute
    Timestamps, Nows,
    Mantissas, Exponents    \* of the amounts written

ASSUME WebhookAssumption ==
    /\ MaxDuration \in Nat /\ Window \in 0..(MaxDuration - 1)
    /\ Timestamps \subseteq Int /\ Nows \subseteq Int
    /\ Mantissas \subseteq Nat /\ Exponents \subseteq -2..2

\* The keys of a connection: the secret of the API, empty or not, and a public key.
Credentials == [secret : BOOLEAN, publicKey : {"blank", "rsa", "broken"}]

\* What the headers and the payload are: when and by which key it was signed, if it is
\* as it was signed, and how the signature is written.
Envelopes ==
    [numeric : BOOLEAN, timestamp : Timestamps, signer : {"secret", "private key", "another"},
     altered : BOOLEAN, form : {"base64", "hex", "other"}]

Written == [mantissa : Mantissas, exponent : Exponents]
Absent  == [mantissa |-> 0, exponent |-> 3]
Garbage == [mantissa |-> 0, exponent |-> 4]

Fields == {"absent", "same", "other"}
Data ==
    [parses : BOOLEAN, prepayID : Fields, currency : Fields, amount : Written \cup {Absent, Garbage},
     status : {"final", "paid", "unknown"}]
NoData ==
    [parses |-> FALSE, prepayID |-> "absent", currency |-> "absent", amount |-> Absent, status |-> "unknown"]

VARIABLES
    at,         \* before, between and after VerifyWebhook and HandleWebhook
    now,
    credential,
    envelope,
    data,       \* once parsed
    row,        \* the amount of the payment's row, or Absent: there is none
    answer,     \* the status code
    event       \* what RecordProviderEvent did: it was "new", "known", "failed", or not called

vars == <<at, now, credential, envelope, data, row, answer, event>>

Init ==
    /\ at = "received"
    /\ now \in Nows /\ credential \in Credentials /\ envelope \in Envelopes
    /\ data = NoData /\ row = Absent
    /\ answer = 0 /\ event = "none"

Answer(code) ==
    /\ at' = "answered" /\ answer' = code
    /\ UNCHANGED <<now, credential, envelope>>

-----------------------------------------------------------------------------
\* Mutant: a difference that wraps.
SubWraps(a, b) == ((a - b + MaxDuration + 1) % (2 * MaxDuration + 2)) - MaxDuration - 1

\* time.Time.Sub saturates at the ends of time.Duration.
Sub(a, b) ==
    IF a - b > MaxDuration THEN MaxDuration
    ELSE IF a - b < -MaxDuration - 1 THEN -MaxDuration - 1 ELSE a - b

\* The first encoding that decodes the signature is taken.  The digits of hex are
\* digits of base64 too and of even number, so hex is never decoded as hex.
VerifyRSA(e, c) == c.publicKey = "rsa" /\ e.signer = "private key" /\ e.form = "base64"

VerifyHMAC(e, c) == c.secret /\ e.signer = "secret" /\ e.form = "hex"

VerifyWebhook(e, c, time) ==
    /\ e.numeric
    /\ Sub(time, e.timestamp) <= Window /\ Sub(time, e.timestamp) >= -Window
    /\ ~e.altered
    /\ IF c.publicKey # "blank" THEN VerifyRSA(e, c) ELSE VerifyHMAC(e, c)

\* The body cannot be read or is too long; the connection is not known.
Unreadable ==
    /\ at = "received"
    /\ Answer(400) \/ Answer(404)
    /\ UNCHANGED <<data, row, event>>

Verify ==
    /\ at = "received"
    /\ IF VerifyWebhook(envelope, credential, now)
       THEN at' = "verified" /\ UNCHANGED <<now, credential, envelope, answer>>
       ELSE Answer(401)
    /\ UNCHANGED <<data, row, event>>

-----------------------------------------------------------------------------
Scaled(x) == x.mantissa * 10^(x.exponent + 2)

\* Mutant: amounts are compared as they are written.
SameText(x, y) == x = y

\* Mutant: amounts are compared as whole numbers.
SameWhole(x, y) == x # Garbage /\ Scaled(x) \div 100 = Scaled(y) \div 100

\* big.Rat: by value, however it is written.
AmountsEqual(x, y) == x # Garbage /\ Scaled(x) = Scaled(y)

\* The checks of HandleWebhook; what a notification leaves out is not compared.
Contradicts(d, amount) ==
    \/ d.prepayID = "other"
    \/ d.currency = "other"
    \/ d.amount # Absent /\ ~AmountsEqual(d.amount, amount)

\* HandleWebhook and the answer to it.
HandleWebhook(d, amount) ==
    /\ at = "verified"
    /\ data' = d /\ row' = amount
    /\ \/ ~d.parses /\ Answer(422) /\ UNCHANGED event
       \/ d.parses /\ amount = Absent /\ Answer(200) /\ UNCHANGED event
       \/ /\ d.parses /\ amount # Absent
          /\ \/ Contradicts(d, amount) /\ Answer(422) /\ UNCHANGED event
             \/ ~Contradicts(d, amount) /\ d.status = "unknown" /\ Answer(200) /\ UNCHANGED event
             \/ /\ ~Contradicts(d, amount) /\ d.status # "unknown"
                /\ event' \in {"new", "known"} /\ Answer(200)
       \* the row cannot be read or the event not be written
       \/ d.parses /\ event' = "failed" /\ Answer(422)

Answered == at = "answered" /\ UNCHANGED vars

Next ==
    \/ Unreadable \/ Verify \/ Answered
    \/ at = "verified" /\ \E d \in Data, amount \in Written \cup {Absent} : HandleWebhook(d, amount)

Spec == Init /\ [][Next]_vars

-----------------------------------------------------------------------------
\* Verification is exact, at the edges of the window and of the arithmetic: a
\* notification passes if and only if it was signed, as it is, by the key its
\* connection goes by, at most five minutes away from now.
Genuine ==
    /\ envelope.numeric /\ ~envelope.altered
    /\ now - envelope.timestamp \in -Window..Window
    /\ IF credential.publicKey = "blank"
       THEN credential.secret /\ envelope.signer = "secret" /\ envelope.form = "hex"
       ELSE credential.publicKey = "rsa" /\ envelope.signer = "private key" /\ envelope.form = "base64"

VerificationIsExact ==
    /\ at = "verified" \/ event \in {"new", "known"} => Genuine
    /\ answer = 401 => ~Genuine

\* The values two decimals stand for, by cross-multiplication.
EqualValues(x, y) ==
    \E k \in 0..4 :
        \/ x.exponent - y.exponent = k /\ x.mantissa * 10^k = y.mantissa
        \/ y.exponent - x.exponent = k /\ y.mantissa * 10^k = x.mantissa

\* What is recorded contradicts the row in nothing it says.
EventsMatchPayment ==
    event \in {"new", "known"} =>
        /\ row # Absent /\ data.prepayID # "other" /\ data.currency # "other"
        /\ data.amount = Absent \/ EqualValues(data.amount, row)

\* A notification that agrees with its row is not refused for how it writes the amount:
\* the provider would send it again in vain.  Only a failed statement refuses it.
Agrees ==
    /\ data.parses /\ data.prepayID # "other" /\ data.currency # "other"
    /\ data.amount = Absent \/ (data.amount # Garbage /\ EqualValues(data.amount, row))

RefusedForCause == answer = 422 /\ Agrees => event = "failed"
=============================================================================
