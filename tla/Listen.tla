------------------------------- MODULE Listen -------------------------------
(***************************************************************************)
(* Who answers on the socket path: daemon.Listen, which looks for a live   *)
(* daemon and clears a stale socket away, and the closing of the listener  *)
(* at the end of Serve (internal/daemon/server.go).  Each step is a system *)
(* call on a path that all daemons of the user share.                      *)
(***************************************************************************)
EXTENDS Integers, FiniteSets

CONSTANTS Daemon,       \* keycelld processes that may run at some time
          NoSocket,     \* nothing at the path
          Serial,       \* whether somebody (systemd) starts one at a time
          MaxStarts     \* bound: starts of a daemon

ASSUME SocketAssumption == NoSocket \notin Daemon
ASSUME SerialAssumption == Serial \in BOOLEAN
ASSUME StartsAssumption == MaxStarts \in Nat

VARIABLES sock,         \* the daemon whose socket is at the path
          open,         \* daemons whose socket accepts connections
          pc,           \* where each daemon is
          starts,
          alone         \* daemons whose (last) start met no other process

listenVars == <<sock, open, pc, starts, alone>>

Starting == {"look", "dial", "remove", "bind", "listen", "chmod"}
Ended    == {"off", "refused", "failed", "stopped", "killed"}

ListenTypeOK ==
    /\ sock \in Daemon \cup {NoSocket}
    /\ open \subseteq Daemon
    /\ pc \in [Daemon -> Starting \cup Ended \cup {"serving", "unlinked", "draining"}]
    /\ \A d \in open : pc[d] \in {"chmod", "serving", "unlinked"}
    /\ starts \in 0 .. MaxStarts
    /\ alone \subseteq Daemon

ListenInit ==
    /\ sock = NoSocket
    /\ open = {}
    /\ pc = [d \in Daemon |-> "off"]
    /\ starts = 0
    /\ alone = {}

Goto(d, from, to) == pc[d] = from /\ pc' = [pc EXCEPT ![d] = to]

Start(d) ==
    /\ pc[d] \in Ended
    /\ starts < MaxStarts
    /\ Serial => \A e \in Daemon : pc[e] \notin Starting
    /\ pc' = [pc EXCEPT ![d] = "look"]
    /\ starts' = starts + 1
    /\ alone' = IF \A e \in Daemon : pc[e] \in Ended
                THEN alone \cup {d} ELSE alone \ {d}
    /\ UNCHANGED <<sock, open>>

\* A slip: whatever was left at the path stays there.
LookAway(d) ==
    /\ Goto(d, "look", "bind")
    /\ UNCHANGED <<sock, open, starts, alone>>

\* os.Lstat(path).
Look(d) ==
    /\ pc[d] = "look"
    /\ pc' = [pc EXCEPT ![d] = IF sock = NoSocket THEN "bind" ELSE "dial"]
    /\ UNCHANGED <<sock, open, starts, alone>>

Answers == sock # NoSocket /\ sock \in open

\* A slip: whatever is there is taken for stale.
DialNobody(d) ==
    /\ Goto(d, "dial", "remove")
    /\ UNCHANGED <<sock, open, starts, alone>>

\* net.DialTimeout: an answer is a live daemon, anything else a stale socket.
Dial(d) ==
    /\ pc[d] = "dial"
    /\ pc' = [pc EXCEPT ![d] = IF Answers THEN "refused" ELSE "remove"]
    /\ UNCHANGED <<sock, open, starts, alone>>

\* os.Remove(path), which fails if the path is gone by now.
Remove(d) ==
    /\ pc[d] = "remove"
    /\ pc' = [pc EXCEPT ![d] = IF sock = NoSocket THEN "failed" ELSE "bind"]
    /\ sock' = NoSocket
    /\ UNCHANGED <<open, starts, alone>>

\* net.ListenUnix: bind(2) creates the socket, or fails if there is one ...
Bind(d) ==
    /\ pc[d] = "bind"
    /\ IF sock = NoSocket
       THEN sock' = d /\ pc' = [pc EXCEPT ![d] = "listen"]
       ELSE sock' = sock /\ pc' = [pc EXCEPT ![d] = "failed"]
    /\ UNCHANGED <<open, starts, alone>>

\* ... and listen(2) makes it answer.
ListenSocket(d) ==
    /\ Goto(d, "listen", "chmod")
    /\ open' = open \cup {d}
    /\ UNCHANGED <<sock, starts, alone>>

\* os.Chmod(path); if the path is gone, the listener is closed again.
Chmod(d) ==
    /\ pc[d] = "chmod"
    /\ IF sock # NoSocket
       THEN pc' = [pc EXCEPT ![d] = "serving"] /\ UNCHANGED open
       ELSE pc' = [pc EXCEPT ![d] = "failed"] /\ open' = open \ {d}
    /\ UNCHANGED <<sock, starts, alone>>

\* ln.Close(), called as soon as the context is cancelled, removes whatever
\* is at the path ...
Unlink(d) ==
    /\ Goto(d, "serving", "unlinked")
    /\ sock' = NoSocket
    /\ UNCHANGED <<open, starts, alone>>

\* ... before it closes the socket; requests go on being served.
CloseSocket(d) ==
    /\ Goto(d, "unlinked", "draining")
    /\ open' = open \ {d}
    /\ UNCHANGED <<sock, starts, alone>>

\* A slip: the path is removed once more when Serve is done.
ReturnUnlinking(d) ==
    /\ Goto(d, "draining", "stopped")
    /\ sock' = NoSocket
    /\ UNCHANGED <<open, starts, alone>>

\* Serve returns; its deferred ln.Close() finds the listener closed.
Return(d) ==
    /\ Goto(d, "draining", "stopped")
    /\ UNCHANGED <<sock, open, starts, alone>>

Kill(d) ==
    /\ pc[d] \notin Ended
    /\ pc' = [pc EXCEPT ![d] = "killed"]
    /\ open' = open \ {d}
    /\ UNCHANGED <<sock, starts, alone>>

ListenNext ==
    \E d \in Daemon :
        \/ Start(d)
        \/ Look(d) \/ Dial(d) \/ Remove(d) \/ Bind(d) \/ ListenSocket(d) \/ Chmod(d)
        \/ Unlink(d) \/ CloseSocket(d) \/ Return(d)
        \/ Kill(d)

ListenSpec == ListenInit /\ [][ListenNext]_listenVars

-----------------------------------------------------------------------------
(* Properties *)

\* A daemon that serves is the one clients reach: no other daemon's cleaning
\* up, at its start or at its end, takes the socket away from it.
ServingReachable == \A d \in Daemon : pc[d] = "serving" => sock = d /\ d \in open

\* server.go:31: a daemon "refuses to start beside a live daemon", which follows
\* from the above: there is one path.  (Both are violated when two start at
\* once, each taking the other's new socket for stale.)
OneServes == Cardinality({d \in Daemon : pc[d] = "serving"}) <= 1

\* A socket left by a killed daemon never keeps the next one from starting: a
\* start that meets no other process ends in a daemon that serves.
StaleSocketIsNoObstacle ==
    Serial => \A d \in alone : pc[d] \notin {"refused", "failed"}
=============================================================================
