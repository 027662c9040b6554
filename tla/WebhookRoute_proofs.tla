------------------------ MODULE WebhookRoute_proofs ------------------------
(***************************************************************************)
(* Proofs about WebhookRoute for any clock readings, any mantissas, and    *)
(* any window shorter than the longest duration.                           *)
(*                                                                         *)
(* The argument: whoever is past the verification has passed it, and an    *)
(* answer tells which checks have failed (IInv).  What is left is          *)
(* arithmetic: a difference that saturates is outside of the window        *)
(* (SubInWindow), and two decimals scaled to one exponent are the same     *)
(* number exactly when they have the same value (SameValue).               *)
(***************************************************************************)
EXTENDS WebhookRoute, TLAPS

Places == {"received", "verified", "answered"}

Verified == VerifyWebhook(envelope, credential, now)

IInv ==
    /\ at \in Places
    /\ now \in Nows /\ credential \in Credentials /\ envelope \in Envelopes
    /\ data \in Data \cup {NoData} /\ row \in Written \cup {Absent}
    /\ at # "answered" => answer = 0 /\ event = "none"
    /\ at = "verified" \/ event \in {"new", "known"} => Verified
    /\ answer = 401 => ~Verified
    /\ event \in {"new", "known"} => row # Absent /\ ~Contradicts(data, row)
    /\ answer = 422 => \/ event = "failed" \/ ~data.parses
                       \/ row # Absent /\ Contradicts(data, row)

-----------------------------------------------------------------------------
(* Arithmetic *)

\* A difference is in the window exactly when its saturated form is.
LEMMA SubInWindow ==
    ASSUME NEW a \in Int, NEW b \in Int
    PROVE  (Sub(a, b) <= Window /\ Sub(a, b) >= -Window) <=> a - b \in -Window..Window
  BY WebhookAssumption DEF Sub

\* The powers that exponents from -2 to 2 need.
PowerIs(e, power) ==
    \/ e = 0 /\ power = 1
    \/ e = 1 /\ power = 10
    \/ e = 2 /\ power = 100
    \/ e = 3 /\ power = 1000
    \/ e = 4 /\ power = 10000

LEMMA Powers ==
    ASSUME NEW e \in 0..4
    PROVE  PowerIs(e, 10^e)
<1>1. CASE e = 0
  BY <1>1 DEF PowerIs
<1>2. CASE e = 1
  BY <1>2 DEF PowerIs
<1>3. CASE e = 2
  BY <1>3 DEF PowerIs
<1>4. CASE e = 3
  BY <1>4 DEF PowerIs
<1>5. CASE e = 4
  BY <1>5 DEF PowerIs
<1> QED  BY <1>1, <1>2, <1>3, <1>4, <1>5

\* Powers are divided by subtracting their exponents.
LEMMA Quotients ==
    ASSUME NEW a \in 0..4, NEW b \in 0..4, a >= b
    PROVE  /\ 10^a = 10^(a - b) * 10^b
           /\ 10^(a - b) \in Nat /\ 10^b \in Nat \ {0}
<1> DEFINE d == a - b
           p == 10^a
           q == 10^b
           s == 10^d
<1>1. PowerIs(a, p) /\ PowerIs(b, q)
  BY Powers
<1>2. d \in 0..4 /\ d = a - b
  OBVIOUS
<1> HIDE DEF d
<1>3. PowerIs(d, s)
  BY <1>2, Powers
<1> HIDE DEF p, q, s
<1>4. p = s * q /\ s \in Nat /\ q \in Nat \ {0}
  BY <1>1, <1>2, <1>3 DEF PowerIs
<1> QED  BY <1>2, <1>4 DEF p, q, s

\* A factor that is not zero may be dropped.
LEMMA Cancels ==
    ASSUME NEW m \in Nat, NEW n \in Nat, NEW q \in Nat, NEW s \in Nat \ {0}
    PROVE  m * (q * s) = n * s <=> m * q = n
  OBVIOUS

\* Numbers scaled by two powers are equal if one, scaled by the quotient, is the other.
ScaledAlike(m, a, n, b) ==
    \/ a >= b /\ m * 10^(a - b) = n
    \/ b >= a /\ n * 10^(b - a) = m

LEMMA ScaledEqual ==
    ASSUME NEW m \in Nat, NEW n \in Nat, NEW a \in 0..4, NEW b \in 0..4
    PROVE  m * 10^a = n * 10^b <=> ScaledAlike(m, a, n, b)
<1> USE DEF ScaledAlike
<1>1. CASE a >= b
  <2>1. 10^a = 10^(a - b) * 10^b /\ 10^(a - b) \in Nat /\ 10^b \in Nat \ {0}
    BY <1>1, Quotients
  <2>2. m * 10^a = n * 10^b <=> m * 10^(a - b) = n
    BY <2>1, Cancels
  <2>3. CASE a = b
    BY <2>2, <2>3
  <2>4. CASE a > b
    BY <2>2, <2>4
  <2> QED  BY <1>1, <2>3, <2>4
<1>2. CASE b > a
  <2>0. b >= a
    BY <1>2
  <2>1. 10^b = 10^(b - a) * 10^a /\ 10^(b - a) \in Nat /\ 10^a \in Nat \ {0}
    BY <2>0, Quotients
  <2>2. n * 10^b = m * 10^a <=> n * 10^(b - a) = m
    BY <2>1, Cancels
  <2> QED  BY <1>2, <2>2
<1> QED  BY <1>1, <1>2

\* The fields of a decimal, and what cannot be taken for one.
LEMMA WrittenFields ==
    ASSUME NEW x \in Written
    PROVE  /\ x.mantissa \in Nat /\ x.exponent \in -2..2
           /\ x # Absent /\ x # Garbage
<1>1. x.mantissa \in Nat /\ x.exponent \in -2..2
  BY WebhookAssumption DEF Written
<1>2. Absent.exponent = 3 /\ Garbage.exponent = 4
  BY DEF Absent, Garbage
<1> QED  BY <1>1, <1>2

\* Scaling by a power of ten is exact: comparing scaled numbers is comparing values.
LEMMA SameValue ==
    ASSUME NEW x \in Written, NEW y \in Written
    PROVE  AmountsEqual(x, y) <=> EqualValues(x, y)
<1> DEFINE m == x.mantissa
           n == y.mantissa
           a == x.exponent + 2
           b == y.exponent + 2
<1>1. m \in Nat /\ n \in Nat /\ a \in 0..4 /\ b \in 0..4 /\ x # Garbage
  BY WrittenFields
<1>2. AmountsEqual(x, y) <=> m * 10^a = n * 10^b
  BY <1>1 DEF AmountsEqual, Scaled
<1>3. EqualValues(x, y) <=> \/ a - b \in 0..4 /\ m * 10^(a - b) = n
                            \/ b - a \in 0..4 /\ n * 10^(b - a) = m
  <2>1. x.exponent - y.exponent = a - b /\ y.exponent - x.exponent = b - a
    BY WrittenFields
  <2> HIDE DEF a, b
  <2> QED  BY <2>1 DEF EqualValues
<1> HIDE DEF m, n, a, b
<1>4. m * 10^a = n * 10^b <=> ScaledAlike(m, a, n, b)
  BY <1>1, ScaledEqual
<1>5. (a >= b <=> a - b \in 0..4) /\ (b >= a <=> b - a \in 0..4)
  BY <1>1
<1> QED  BY <1>2, <1>3, <1>4, <1>5 DEF ScaledAlike
-----------------------------------------------------------------------------
(* The invariant *)

LEMMA Initial == Init => IInv
<1> SUFFICES ASSUME Init PROVE IInv
  OBVIOUS
<1> QED  BY DEF Init, IInv, Places

LEMMA UnreadableStep == IInv /\ Unreadable => IInv'
<1> SUFFICES ASSUME IInv, Unreadable PROVE IInv'
  OBVIOUS
<1>1. at = "received" /\ answer = 0 /\ event = "none"
  BY DEF IInv, Unreadable
<1>2. at' = "answered" /\ answer' \in {400, 404}
  BY DEF Unreadable, Answer
<1>3. UNCHANGED <<now, credential, envelope, data, row, event>>
  BY DEF Unreadable, Answer
<1> QED  BY <1>1, <1>2, <1>3 DEF IInv, Places

LEMMA VerifyStep == IInv /\ Verify => IInv'
<1> SUFFICES ASSUME IInv, Verify PROVE IInv'
  OBVIOUS
<1>1. at = "received" /\ answer = 0 /\ event = "none"
  BY DEF IInv, Verify
<1>2. UNCHANGED <<now, credential, envelope, data, row, event>>
  BY DEF Verify, Answer
<1>3. Verified' <=> Verified
  BY <1>2 DEF Verified
<1>4. CASE Verified
  <2>1. at' = "verified" /\ answer' = 0
    BY <1>1, <1>4 DEF Verify, Verified
  <2> QED  BY <1>1, <1>2, <1>3, <1>4, <2>1 DEF IInv, Places
<1>5. CASE ~Verified
  <2>1. at' = "answered" /\ answer' = 401
    BY <1>5 DEF Verify, Verified, Answer
  <2> QED  BY <1>1, <1>2, <1>3, <1>5, <2>1 DEF IInv, Places
<1> QED  BY <1>4, <1>5

LEMMA HandleWebhookStep ==
    ASSUME NEW d \in Data, NEW amount \in Written \cup {Absent},
           IInv, HandleWebhook(d, amount)
    PROVE  IInv'
<1>1. at = "verified" /\ Verified /\ event = "none"
  BY DEF IInv, HandleWebhook
<1>2. data' = d /\ row' = amount /\ at' = "answered" /\ answer' \in {200, 422}
  BY DEF HandleWebhook, Answer
<1>3. UNCHANGED <<now, credential, envelope>>
  BY DEF HandleWebhook, Answer
<1>4. Verified'
  BY <1>1, <1>3 DEF Verified
<1>5. event' \in {"new", "known"} => amount # Absent /\ ~Contradicts(d, amount)
  BY <1>1 DEF HandleWebhook
<1>6. answer' = 422 => \/ event' = "failed" \/ ~d.parses
                       \/ amount # Absent /\ Contradicts(d, amount)
  BY DEF HandleWebhook, Answer
<1>7. (event \in {"new", "known"} => row # Absent /\ ~Contradicts(data, row))'
  BY <1>2, <1>5
<1>8. (answer = 422 => \/ event = "failed" \/ ~data.parses
                       \/ row # Absent /\ Contradicts(data, row))'
  BY <1>2, <1>6
<1> QED  BY <1>2, <1>3, <1>4, <1>7, <1>8 DEF IInv, Places

LEMMA Step == IInv /\ [Next]_vars => IInv'
<1> SUFFICES ASSUME IInv, [Next]_vars PROVE IInv'
  OBVIOUS
<1>1. CASE Unreadable
  BY <1>1, UnreadableStep
<1>2. CASE Verify
  BY <1>2, VerifyStep
<1>3. CASE \E d \in Data, amount \in Written \cup {Absent} : HandleWebhook(d, amount)
  BY <1>3, HandleWebhookStep
<1>4. CASE UNCHANGED vars
  BY <1>4 DEF vars, IInv, Verified
<1> QED  BY <1>1, <1>2, <1>3, <1>4 DEF Next, Answered

LEMMA Invariant == Spec => []IInv
  BY Initial, Step, PTL DEF Spec

-----------------------------------------------------------------------------
(* What it implies *)

\* Passing VerifyWebhook is being genuine, whatever the clock and the timestamp are.
LEMMA VerifiedIsGenuine == IInv => (Verified <=> Genuine)
<1> SUFFICES ASSUME IInv PROVE Verified <=> Genuine
  OBVIOUS
<1>1. now \in Int /\ envelope.timestamp \in Int
  BY WebhookAssumption DEF IInv, Envelopes
<1>2. credential.publicKey \in {"blank", "rsa", "broken"}
  BY DEF IInv, Credentials
<1>3. (Sub(now, envelope.timestamp) <= Window /\ Sub(now, envelope.timestamp) >= -Window)
         <=> now - envelope.timestamp \in -Window..Window
  BY <1>1, SubInWindow
<1> QED  BY <1>2, <1>3 DEF Verified, VerifyWebhook, VerifyRSA, VerifyHMAC, Genuine

\* A notification and its row contradict each other in the amount exactly when the
\* values differ.
LEMMA AmountAgrees ==
    ASSUME NEW x \in Written \cup {Absent, Garbage}, NEW y \in Written, x # Absent
    PROVE  AmountsEqual(x, y) <=> x # Garbage /\ EqualValues(x, y)
<1>1. CASE x = Garbage
  BY <1>1 DEF AmountsEqual
<1>2. CASE x \in Written
  BY <1>2, SameValue, WrittenFields
<1> QED  BY <1>1, <1>2

\* VerifyWebhook lets a notification pass if and only if it is genuine, for any
\* clock reading and timestamp, those included whose difference saturates.
THEOREM VerificationCorrect == Spec => []VerificationIsExact
<1>1. IInv => VerificationIsExact
  BY VerifiedIsGenuine DEF IInv, VerificationIsExact
<1> QED  BY <1>1, Invariant, PTL

\* HandleWebhook records no event that names another order, another currency or an
\* amount of another value than the row has.
THEOREM MatchCorrect == Spec => []EventsMatchPayment
<1>1. IInv => EventsMatchPayment
  <2> SUFFICES ASSUME IInv, event \in {"new", "known"}
               PROVE  /\ row # Absent /\ data.prepayID # "other" /\ data.currency # "other"
                      /\ data.amount = Absent \/ EqualValues(data.amount, row)
    BY DEF EventsMatchPayment
  <2>1. row \in Written /\ ~Contradicts(data, row)
    BY DEF IInv
  <2>2. data.amount \in Written \cup {Absent, Garbage}
    BY DEF IInv, Data, NoData
  <2> QED  BY <2>1, <2>2, AmountAgrees, WrittenFields DEF Contradicts
<1> QED  BY <1>1, Invariant, PTL

\* A notification that agrees with its row, however it writes the amount, is answered
\* 422 only after a statement failed.
THEOREM RefusedCorrect == Spec => []RefusedForCause
<1>1. IInv => RefusedForCause
  <2> SUFFICES ASSUME IInv, answer = 422, Agrees, event # "failed"
               PROVE  FALSE
    BY DEF RefusedForCause
  <2>1. row \in Written /\ Contradicts(data, row)
    BY DEF IInv, Agrees
  <2>2. data.amount \in Written \cup {Absent, Garbage}
    BY DEF IInv, Data, NoData
  <2> QED  BY <2>1, <2>2, AmountAgrees DEF Contradicts, Agrees
<1> QED  BY <1>1, Invariant, PTL
=============================================================================
