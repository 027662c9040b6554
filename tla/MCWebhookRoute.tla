--------------------------- MODULE MCWebhookRoute ---------------------------
(* An instance of WebhookRoute for TLC. *)
EXTENDS WebhookRoute

\* Both sides of the window's ends, and whatever is beyond the ends of a duration, up to
\* four times as far: milliseconds reach further than nanoseconds do.
SomeTimestamps == {k \in -70..70 : k \in {-6, -5, 0, 5, 6} \/ k <= -14 \/ k >= 14}

SomeExponents == -2..2
=============================================================================
