---------------------------- MODULE MCConnection ----------------------------
(* A thread and the environment scope, on a connection that is some way on: *)
(* either the environment scope was deleted and its subscription has ended,  *)
(* and the thread has all records, notices and keepalives ahead of it; or    *)
(* the environment scope is subscribed, and each scope has one record ahead  *)
(* of it.  Both are states of Spec, and fewer follow them than follow Init.  *)
EXTENDS Connection

CONSTANTS s1, w1, thread, environment

MCScopeOf == [s \in Subs |-> IF s = w1 THEN environment ELSE thread]

ThreadAlone ==
    /\ head = [s \in Scopes |-> 0] /\ gone = {environment}
    /\ ids = [s \in Subs |-> IF s = w1 THEN "ended" ELSE "fresh"]
    /\ subscriptions = <<>>
    /\ promised = [s \in Subs |-> None] /\ reader = promised
    /\ notices = 0 /\ keepalives = 0

TwoScopes ==
    /\ head = [s \in Scopes |-> MaxHead - 1] /\ gone = {}
    /\ ids = [s \in Subs |-> IF s = w1 THEN "given" ELSE "fresh"]
    /\ subscriptions = <<w1>>
    /\ promised = [s \in Subs |-> IF s = w1 THEN MaxHead - 1 ELSE None] /\ reader = promised
    /\ notices = MaxNotices /\ keepalives = MaxKeepalives

\* Nothing is queued, unacknowledged or running.
AtRest ==
    /\ deliveries = <<>> /\ active = TRUE
    /\ queue = <<>> /\ queuedScopedBytes = 0 /\ partial = None
    /\ inFlight = 0 /\ window = Min(Windows) /\ wire = <<>>
    /\ lagging = <<>> /\ stack = <<>> /\ due = {} /\ owed = None
    /\ shared = {}

MCInit == AtRest /\ (ThreadAlone \/ TwoScopes)

MCSpec == MCInit /\ [][Next]_vars /\ Fairness
=============================================================================
