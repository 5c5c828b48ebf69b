------------------------------ MODULE SecretMap ------------------------------
(***************************************************************************)
(* What the daemon's clients are promised about their secrets: a map from  *)
(* names to values in which every request takes effect at one moment       *)
(* between its arrival and its answer.  A request may be refused, which    *)
(* then has no effect; only a failure of the disk may leave its client in  *)
(* doubt.                                                                  *)
(***************************************************************************)
CONSTANTS Client, Name, Value,
          BadName,      \* a name the rules do not allow
          None          \* no secret of that name

VARIABLES secrets,      \* the map
          req,          \* each client's request, or Idle
          ans           \* its answer, once decided, or Open

vars == <<secrets, req, ans>>

Idle == [m |-> "none", n |-> None, v |-> None]
Open == [code |-> "none", value |-> None, names |-> {}]

Code(c)  == [Open EXCEPT !.code = c]
Refusals == {Code(c) : c \in {"LOCKED", "INVALID_ARGUMENT", "INTERNAL"}}

NameRequests == [m: {"get", "delete"}, n: Name \cup {BadName}, v: {None}]
Stores       == [m: {"store"}, n: Name \cup {BadName}, v: Value]
Plain        == [m: {"list", "lock", "unlock", "status"}, n: {None}, v: {None}]
Requests     == NameRequests \cup Stores \cup Plain

Init ==
    /\ secrets \in [Name -> Value \cup {None}]
    /\ req = [c \in Client |-> Idle]
    /\ ans = [c \in Client |-> Open]

Arrive(c) ==
    /\ req[c] = Idle
    /\ \E r \in Requests : req' = [req EXCEPT ![c] = r]
    /\ UNCHANGED <<secrets, ans>>

\* The request of c is decided: answer a, map s from now on.
Decide(c, a, s) ==
    /\ ans[c] = Open
    /\ ans' = [ans EXCEPT ![c] = a]
    /\ secrets' = s
    /\ UNCHANGED req

Refuse(c) ==
    /\ req[c] # Idle
    /\ \E a \in Refusals : Decide(c, a, secrets)

Get(c) ==
    /\ req[c].m = "get" /\ req[c].n \in Name
    /\ LET v == secrets[req[c].n] IN
          Decide(c, IF v = None THEN Code("NOT_FOUND")
                                ELSE [Code("ok") EXCEPT !.value = v], secrets)

List(c) ==
    /\ req[c].m = "list"
    /\ Decide(c, [Code("ok") EXCEPT !.names = {n \in Name : secrets[n] # None}],
              secrets)

\* In doubt, the change was made although the client is told of a failure.
Store(c) ==
    /\ req[c].m = "store" /\ req[c].n \in Name
    /\ \E code \in {"ok", "INTERNAL"} :
          Decide(c, Code(code), [secrets EXCEPT ![req[c].n] = req[c].v])

Delete(c) ==
    /\ req[c].m = "delete" /\ req[c].n \in Name
    /\ IF secrets[req[c].n] = None
       THEN Decide(c, Code("NOT_FOUND"), secrets)
       ELSE \E code \in {"ok", "INTERNAL"} :
               Decide(c, Code(code), [secrets EXCEPT ![req[c].n] = None])

\* Requests about the lock leave the secrets alone.
Other(c) ==
    /\ req[c].m \in {"lock", "unlock", "status"}
    /\ Decide(c, Code("ok"), secrets)

Answer(c) ==
    /\ ans[c] # Open
    /\ req' = [req EXCEPT ![c] = Idle]
    /\ ans' = [ans EXCEPT ![c] = Open]
    /\ UNCHANGED secrets

Next ==
    \E c \in Client :
        \/ Arrive(c) \/ Answer(c)
        \/ Refuse(c) \/ Get(c) \/ List(c) \/ Store(c) \/ Delete(c) \/ Other(c)

Spec == Init /\ [][Next]_vars
=============================================================================
