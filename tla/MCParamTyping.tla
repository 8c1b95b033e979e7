--------------------------- MODULE MCParamTyping ---------------------------
EXTENDS ParamTyping

\* Two parameters, the first in two spellings.
MCSpellings == <<<<"K">>, <<"k">>, <<"m">>>>
MCParam == <<"K">> :> "k" @@ <<"k">> :> "k" @@ <<"m">> :> "m"

\* A word, and one with a dash and an equals sign inside.
MCValues == {<<"v">>, <<"w", "-", "m">>, <<"m", "=", "k">>}

MCChars == {"-", Blank, "k", "m", "v"}
=============================================================================
