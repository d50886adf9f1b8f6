---------------------------- MODULE LogPublisher ----------------------------
(***************************************************************************)
(* Publisher of backend/internal/logstream/logstream.go: every entry of a  *)
(* task's log is an XADD, followed by an EXPIRE of the stream's key until  *)
(* one has succeeded.  Time is counted in ticks.                           *)
(***************************************************************************)
EXTENDS Naturals

CONSTANTS
    StreamTTL,   \* streamTTL
    RedisFaults  \* TRUE: a call may fail, done or not

ASSUME PublisherAssumption == StreamTTL \in Nat \ {0} /\ RedisFaults \in BOOLEAN

VARIABLES
    expiry,     \* the key: NoKey, Never, or the ticks it has left
    expireSet,  \* Publisher.expireSet
    publish,    \* "idle", "xadd" or "expire": the call that comes next
    raced       \* history: an EXPIRE found the key of its entry gone

publisherVars == <<expiry, expireSet, publish, raced>>

NoKey == 0
Never == StreamTTL + 1

PublisherInit ==
    /\ expiry = NoKey
    /\ expireSet = FALSE
    /\ publish = "idle"
    /\ raced = FALSE

\* Mutant: one Publisher serves every attempt.
SamePublisher == UNCHANGED publisherVars

NewPublisher ==
    /\ expireSet' = FALSE
    /\ UNCHANGED <<expiry, publish, raced>>

\* PublishLine or PublishEnd is called.
CallPublish ==
    /\ publish' = "xadd"
    /\ UNCHANGED <<expiry, expireSet, raced>>

\* XADD creates a missing key, without a TTL.
Added == expiry' = IF expiry = NoKey THEN Never ELSE expiry

XAdd ==
    /\ publish = "xadd"
    /\ Added
    /\ publish' = IF expireSet THEN "idle" ELSE "expire"
    /\ UNCHANGED <<expireSet, raced>>

\* An error returns without ensureExpire; Redis may have added the entry.
XAddFails ==
    /\ publish = "xadd"
    /\ Added \/ UNCHANGED expiry
    /\ publish' = "idle"
    /\ UNCHANGED <<expireSet, raced>>

\* EXPIRE of a missing key answers 0, which is no error.
Expire ==
    /\ publish = "expire"
    /\ expiry' = IF expiry = NoKey THEN NoKey ELSE StreamTTL
    /\ raced' = (raced \/ expiry = NoKey)
    /\ expireSet' = TRUE
    /\ publish' = "idle"

\* Mutant: the error of EXPIRE is not looked at.
ExpireIgnored ==
    /\ publish = "expire"
    /\ expiry' \in {expiry, IF expiry = NoKey THEN NoKey ELSE StreamTTL}
    /\ expireSet' = TRUE
    /\ publish' = "idle"
    /\ UNCHANGED raced

ExpireFails ==
    /\ publish = "expire"
    /\ expiry' \in {expiry, IF expiry = NoKey THEN NoKey ELSE StreamTTL}
    /\ publish' = "idle"
    /\ UNCHANGED <<expireSet, raced>>

\* The calls of a handler whose context is live, or cancelled.
PublisherStep(live, cancelled) ==
    \/ live /\ (XAdd \/ Expire)
    \/ (cancelled \/ RedisFaults) /\ (XAddFails \/ ExpireFails)

\* Redis lets the key go.
KeyAges == expiry' = IF expiry \in 1..StreamTTL THEN expiry - 1 ELSE expiry

PublisherTypeOK ==
    /\ expiry \in 0..StreamTTL + 1
    /\ expireSet \in BOOLEAN
    /\ publish \in {"idle", "xadd", "expire"}
    /\ raced \in BOOLEAN

=============================================================================
