------------------------------ MODULE Settings ------------------------------
(***************************************************************************)
(* config.Load (internal/config): how keycell, keycelld, the docker helper *)
(* and the client package resolve their four settings from the config      *)
(* file, the environment and the flags.                                    *)
(*                                                                         *)
(* A setting's text is one of "absolute", "tilde" (~/...) and "relative"   *)
(* for a path, "good" or "bad" for the others; a "" that a file or a flag  *)
(* gives is a relative path, or bad.  "unset" is a setting that a layer    *)
(* does not have; an environment variable set to "" does not have it.      *)
(***************************************************************************)
EXTENDS Sequences, SequencesExt

Order  == <<"data_dir", "socket", "auto_lock", "log_level">>
Fields == ToSet(Order)
Paths  == {"data_dir", "socket"}
Layer  == [Fields -> {"absolute", "tilde", "relative", "good", "bad", "unset"}]
NoLayer == [f \in Fields |-> "unset"]

\* What Load depends on.  home, xdg: "unset", "absolute" or "relative".
Input == [config: {"absolute", "tilde", "relative", "unset"}, \* --config or KEYCELL_CONFIG
          disk: {"missing", "broken", "good"},                \* the config file
          file: Layer, env: Layer, flags: Layer,
          home: {"unset", "absolute", "relative"},
          xdg: SUBSET {"config", "data", "runtime"}]          \* XDG_..._HOME and _DIR, if set

\* expandPath: "~" needs a home, and the result must be absolute.
Expands(v, home) == v = "absolute" \/ (v = "tilde" /\ home = "absolute")

\* expandPath, parseAutoLock, parseLogLevel.
Valid(f, v, home) == IF f \in Paths THEN Expands(v, home) ELSE v = "good"

\* xdgDir.
HasDir(in, dir) == dir \in in.xdg \/ in.home # "unset"

Failed(c, error) == [c EXCEPT !.error = error]

\* A slip: what an upper layer sets is not looked at in a lower one.
ApplyBelow(c, from, l, home) ==
    IF c.error # "none" THEN c
    ELSE [c EXCEPT !.of = [f \in Fields |-> IF c.of[f] = "default" /\ l[f] # "unset"
                                            THEN from ELSE c.of[f]]]

\* apply: the first field of the layer that is invalid ends it; c.of says
\* which layer each setting comes from so far.
Apply(c, from, l, home) ==
    LET invalid == {i \in DOMAIN Order : l[Order[i]] # "unset" /\ ~Valid(Order[i], l[Order[i]], home)}
    IN  IF c.error # "none" THEN c
        ELSE IF invalid # {} THEN [c EXCEPT !.error = from, !.key = Order[Min(invalid)]]
        ELSE [c EXCEPT !.of = [f \in Fields |-> IF l[f] # "unset" THEN from ELSE c.of[f]]]

\* configPath and readFile.
ReadFile(c, in) ==
    IF \/ in.config # "unset" /\ ~Expands(in.config, in.home)
       \/ in.config = "unset" /\ ~HasDir(in, "config")         THEN Failed(c, "config path")
    ELSE IF \/ in.disk = "broken"
            \/ in.disk = "missing" /\ in.config # "unset"      THEN Failed(c, "config file")
    ELSE c

\* The defaults that depend on the environment.
Defaults(c, in) ==
    IF c.error # "none" THEN c
    ELSE IF c.of["data_dir"] = "default" /\ ~HasDir(in, "data")    THEN Failed(c, "no data dir")
    ELSE IF c.of["socket"] = "default" /\ "runtime" \notin in.xdg  THEN Failed(c, "no runtime dir")
    ELSE c

Load(in) ==
    LET start == [of |-> [f \in Fields |-> "default"], error |-> "none", key |-> "none"]
        file  == Apply(ReadFile(start, in), "file",
                       IF in.disk = "good" THEN in.file ELSE NoLayer, in.home)
        env   == Apply(file, "env", in.env, in.home)
        flags == Apply(env, "flag", in.flags, in.home)
    IN  Defaults(flags, in)
=============================================================================
