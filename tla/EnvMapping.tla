----------------------------- MODULE EnvMapping -----------------------------
(***************************************************************************)
(* The environment that `keycell exec` gives its command (cmd/keycell,     *)
(* exec.go).  The mapping file is a sequence of entries [var, name], in    *)
(* which Blank stands for a line that is empty or a comment, and Bad for   *)
(* one that is no mapping; so are the -e flags.                            *)
(***************************************************************************)
EXTENDS Integers, SequencesExt

CONSTANT VarOrder       \* every variable, in the order of the strings

Vars == ToSet(VarOrder)

Blank == [var |-> "blank", name |-> "-"]
Bad   == [var |-> "bad", name |-> "-"]

IsMapping(s) ==
    s \in Seq(ToSet(s)) /\ \A i \in DOMAIN s : s[i] \in {Blank, Bad} \/ s[i].var \in Vars

ASSUME VarAssumption ==
    /\ VarOrder \in Seq(Vars)
    /\ \A i, j \in DOMAIN VarOrder : VarOrder[i] = VarOrder[j] => i = j
    /\ Blank.var \notin Vars /\ Bad.var \notin Vars

\* The first bad entry, of the file and then of the flags, stops it.
ParsesAll(lines, flags) == \A i \in DOMAIN (lines \o flags) : (lines \o flags)[i] # Bad

\* The map m with y at x.
Put(m, x, y) == [k \in DOMAIN m \cup {x} |-> IF k = x THEN y ELSE m[k]]

\* A slip: an entry does not replace an earlier one.
KeepEarlier(byVar, e) == IF e.var \in DOMAIN byVar THEN byVar ELSE Put(byVar, e.var, e.name)

Override(byVar, e) == Put(byVar, e.var, e.name)

\* byVar, after the first n entries.
ByVar(entries) ==
    LET byVar[n \in 0 .. Len(entries)] ==
            IF n = 0 THEN <<>>
            ELSE IF entries[n] = Blank THEN byVar[n - 1]
            ELSE Override(byVar[n - 1], entries[n])
    IN  byVar

\* parseEnvMapping: later entries replace earlier ones; sorted, and so given
\* by the places of the variables in their order.
Mapping(lines, flags) ==
    LET byVar == ByVar(lines \o flags)[Len(lines \o flags)] IN
    [i \in {j \in DOMAIN VarOrder : VarOrder[j] \in DOMAIN byVar} |->
        [var |-> VarOrder[i], name |-> byVar[VarOrder[i]]]]

\* mergeEnv: the places in base of what is not mapped, and then the secrets.
MergeEnv(base, mapping, secrets) ==
    [own |-> {i \in DOMAIN base : \A j \in DOMAIN mapping : mapping[j].var # base[i].var},
     secrets |-> secrets]
=============================================================================
