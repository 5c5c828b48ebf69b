----------------------------- MODULE Credentials -----------------------------
(***************************************************************************)
(* How the credential helpers choose a secret: cmd/keycell/gitcredential.go*)
(* and cmd/docker-credential-keycell/request.go.  A secret's attributes    *)
(* are fields of its record, None where they are not set.  Of git's        *)
(* optional fields, username and path stand for all three: protocol is     *)
(* compared and counted like path, and neither is part of a name.  A       *)
(* registry's server attribute, a URL, is its host and path.               *)
(***************************************************************************)
EXTENDS FiniteSets, FiniteSetsExt

CONSTANTS Host, User, Path,
          None          \* an attribute that is not set, a field not sent

Requests == [host: Host, user: User \cup {None}, path: Path \cup {None}]
NoRequest == [host |-> None, user |-> None, path |-> None]

\* What git and docker send, and what a record of kind k made of it holds.
Record(k, r, v) == [kind |-> k, host |-> r.host, user |-> r.user, path |-> r.path,
                    value |-> v]

\* The optional attributes git matches on.
Optional == {"user", "path"}

\* The part of gitScore that decides: fields both sides have are equal.
Agrees(s, r) ==
    /\ s.kind = "git" /\ s.host = r.host
    /\ \A f \in Optional : None \in {s[f], r[f]} \/ s[f] = r[f]

Score(s) == Cardinality({f \in Optional : s[f] # None})

\* The names in table that git's request r may mean: none, one, or several
\* between which the helper does not choose.
GitMatch(table, r) ==
    LET fits == {n \in DOMAIN table : Agrees(table[n], r)}
        best == Max({Score(table[n]) : n \in fits} \cup {0})
    IN  {n \in fits : Score(table[n]) = best}

\* The server URL is compared literally.
DockerMatch(table, r) ==
    {n \in DOMAIN table : /\ table[n].kind = "docker"
                          /\ table[n].host = r.host /\ table[n].path = r.path}

\* git/<host>[/<username>] and docker/<host>.
GitName(r) == IF r.user = None THEN <<"git", r.host>> ELSE <<"git", r.host, r.user>>
DockerName(r) == <<"docker", r.host>>
=============================================================================
