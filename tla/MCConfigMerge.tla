--------------------------- MODULE MCConfigMerge ----------------------------
EXTENDS ConfigMerge
CONSTANTS lock, kcore, opt, sel, key

L(k, s) == [kind |-> k, symbol |-> s]

MCLockdown == [s \in {lock} |-> "y"]
MCRequired == [s \in {lock} |-> "y"]
Plain == [s \in Symbols |-> IF s \in {lock, opt} THEN "y"
                            ELSE IF s = key THEN "empty" ELSE "unset"]
\* opt is selected by sel, needs sel, has no prompt, or defaults to y.
MCWorlds ==
    {[selects |-> x, needs |-> n, promptless |-> p, default |-> d] :
        x \in {{}, {<<sel, opt>>}}, n \in {{}, {<<opt, sel>>}},
        p \in {{}, {opt}}, d \in {Plain, [Plain EXCEPT ![opt] = "m"]}}

About(s) == {L(k, s) : k \in {"on", "off", "forced", "string"}}
MCTexts ==
    << {<<L("on", lock)>>},
       {<<>>, <<L("off", opt)>>, <<L("on", opt)>>},
       {<<l, m>> : l \in {L("on", sel), L("off", opt), L("forced", opt)}, m \in About(opt)}
           \cup {<<L("ineffective", opt)>>},
       {<<>>, <<L("off", lock)>>, <<L("on", kcore)>>, <<L("on", sel)>>, <<L("on", opt)>>,
        <<L("forced", opt)>>, <<L("string", key)>>} >>
=============================================================================
