------------------------------ MODULE MCCommand ------------------------------
(* A small instance of Command for TLC. *)
EXTENDS Command

CONSTANTS p, q, v, w, n1, n2

\* Layers that set the fields of g, of which at most those of bad are wrong.
Text(f) == IF f \in Paths THEN {"absolute", "tilde", "relative"} ELSE {"good", "bad"}
Cells == {"file", "env", "flag"} \X Fields
Cell(c, t) == [l \in {"file", "env", "flag"} |->
                 [f \in Fields |-> IF <<l, f>> \in DOMAIN t THEN t[<<l, f>>] ELSE "unset"]]

\* One cell, or two, anywhere; three in the layers of one field.
Sets1 == {{c} : c \in Cells} \cup {{}}
Sets2 == {{c, d} : c, d \in Cells}
Sets3 == {{"file", "env", "flag"} \X {f} : f \in Fields}
Texts(S) == {t \in [S -> UNION {Text(f) : f \in Fields}] : \A c \in S : t[c] \in Text(c[2])}

In(config, disk, layers, home, xdg) ==
    [config |-> config, disk |-> disk, home |-> home, xdg |-> xdg,
     file |-> layers["file"], env |-> layers["env"], flags |-> layers["flag"]]

Dirs == {"config", "data", "runtime"}
Layers(sets) == UNION {{Cell(S, t) : t \in Texts(S)} : S \in sets}

Inputs ==
    {In("unset", "good", l, home, xdg) :
        l \in Layers(Sets2 \cup Sets3), home \in {"unset", "absolute"}, xdg \in {Dirs, {}}}
    \cup {In(config, disk, l, home, xdg) :
        config \in {"absolute", "tilde", "relative", "unset"}, disk \in {"missing", "broken", "good"},
        l \in Layers(Sets1), home \in {"unset", "absolute", "relative"}, xdg \in SUBSET Dirs}

Plain == In("unset", "missing", Cell({}, [c \in {} |-> ""]), "absolute", Dirs)

NoFiles == [age |-> "absent", txt |-> FALSE]
WithAge == [age |-> p, txt |-> FALSE]
AnyFiles == [age: {"absent", p}, txt: BOOLEAN]
Run(do, flag, on) ==
    [do |-> do, flag |-> flag, files |-> on, input |-> Plain,
     lines |-> <<>>, flags |-> <<>>, base |-> <<>>, has |-> {}, for |-> <<>>]

E(var, name) == [var |-> var, name |-> name]
Own(var) == [var |-> var, value |-> "own"]
MCVarOrder == <<v, w>>
Good == {E(v, n1), E(v, n2), E(w, n1)}
UpTo2(S) == {<<>>} \cup {<<a>> : a \in S} \cup {<<a, b>> : a, b \in S}

MCCommands ==
    {[Run("status", FALSE, NoFiles) EXCEPT !.input = in] : in \in Inputs}
    \cup {Run(do, FALSE, NoFiles) : do \in {"list", "get"}}
    \cup {Run("init", flag, on) : flag \in BOOLEAN, on \in {NoFiles, WithAge}}
    \cup {Run("passphrase", flag, on) : flag \in BOOLEAN, on \in AnyFiles}
    \cup {Run("unlock", FALSE, on) : on \in AnyFiles}
    \cup {[Run("unlock", FALSE, [NoFiles EXCEPT !.txt = TRUE]) EXCEPT !.for = <<d>>] : d \in Word}
    \cup {Run("store", flag, NoFiles) : flag \in BOOLEAN}
    \cup {[Run("exec", dry, NoFiles) EXCEPT !.lines = lines, !.flags = flags, !.base = base,
                                            !.has = has] :
             dry \in BOOLEAN, lines \in UpTo2(Good \cup {Blank, Bad}), flags \in UpTo2(Good \cup {Bad}),
             base \in {<<Own(w), Own(v)>>}, has \in {{n1}, {n1, n2}}}
=============================================================================
