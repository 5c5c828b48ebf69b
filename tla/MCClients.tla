------------------------------ MODULE MCClients ------------------------------
(* A small instance of Clients for TLC: one host with one user and two paths, *)
(* one registry host, and a secret that a user has named. *)
EXTENDS Clients, TLC

CONSTANTS h, u, p1, p2

MCBad   == <<"no name">>
Work    == <<"work">>
MCOrder == <<<<"docker", h>>, <<"git", h>>, <<"git", h, u>>, MCBad, Work>>

Req4(user, path) == [host |-> h, user |-> user, path |-> path]
GitReqs    == {Req4(None, None), Req4(None, p1), Req4(None, p2), Req4(u, None), Req4(u, p1)}
DockerReqs == {Req4(u, None), Req4(u, p1)}

Ask(do, kind, R) ==
    [do: {do}, names: {<<>>}, kind: {kind}, req: R, guard: {FALSE}]
Put(do, names, kind, r) ==
    [do: {do}, names: {names}, kind: {kind}, req: {r}, guard: BOOLEAN]
Run(do, names) == [Idle EXCEPT !.do = do, !.names = names]

GitCommands == UNION {Ask(do, "git", GitReqs) : do \in {"git get", "git store", "git erase"}}
DockerCommands ==
    UNION {Ask(do, "docker", DockerReqs) : do \in {"docker get", "docker store", "docker erase"}}
UserCommands ==
    Put("store", <<Work>>, "git", Req4(None, p1))
    \cup Put("store", <<Work>>, "docker", Req4(u, p1))
    \cup Put("import", <<<<"git", h>>, MCBad, Work>>, "generic", NoRequest)
    \cup Put("import", <<<<"docker", h>>, Work>>, "generic", NoRequest)
    \cup {Run("delete", <<<<"git", h>>, MCBad, Work>>), Run("delete", <<<<"git", h>>, Work>>),
          Run("exec", <<<<"git", h, u>>, Work>>),
          Run("export", <<>>), Run("docker list", <<>>), Run("unlock", <<>>)}

MCCommands == GitCommands \cup DockerCommands \cup UserCommands

\* Processes are interchangeable.
Symmetry == Permutations(Client)
=============================================================================
