---------------------------- MODULE ParamTyping ----------------------------
(***************************************************************************)
(* What clients write.  Either a request thought of as names with values,  *)
(* one after the other, that is then written in each of the three forms;   *)
(* or any characters at all, over TCP.                                     *)
(***************************************************************************)
EXTENDS ParamText

CONSTANTS Values,       \* values clients give
          Chars,        \* characters they type
          MaxPairs,     \* bound: names with values in a request
          MaxText       \* bound: characters typed

VARIABLES pairs,        \* the request, a sequence of [name, value]
          text          \* the characters

TypingInit == pairs = <<>> /\ text = <<>>

Add == /\ text = <<>>
       /\ Len(pairs) < MaxPairs
       /\ \E name \in DOMAIN Param, value \in Values :
            pairs' = Append(pairs, [name |-> name, value |-> value])
       /\ UNCHANGED text

Type == /\ pairs = <<>>
        /\ Len(text) < MaxText
        /\ \E c \in Chars : text' = Append(text, c)
        /\ UNCHANGED pairs

TypingNext == Add \/ Type

TypingSpec == TypingInit /\ [][TypingNext]_<<pairs, text>>

-----------------------------------------------------------------------------
LOCAL Join(separator, words) ==
  FlattenSeq([i \in DOMAIN words |->
                IF i = 1 THEN words[i] ELSE separator \o words[i]])

\* As the help text writes a request, the end of the line included.
AsLine == Join(<<Blank>>, [i \in DOMAIN pairs |->
                 <<"-">> \o pairs[i].name \o <<Blank>> \o pairs[i].value])
          \o <<CR, LF>>

AsForm == Join(<<"&">>, [i \in DOMAIN pairs |->
                 pairs[i].name \o <<"=">> \o pairs[i].value])

AsJson == <<"{">>
          \o Join(<<",">>, [i \in DOMAIN pairs |->
                    <<"\"">> \o pairs[i].name \o <<"\"", ":", "\"">>
                    \o pairs[i].value \o <<"\"">>])
          \o <<"}">>

Asked == {Param[pairs[i].name] : i \in DOMAIN pairs}

\* The value given last.
LastGiven(param) ==
  pairs[SelectLastInSeq(pairs, LAMBDA p : Param[p.name] = param)].value

OneSpelling ==
  \A i, j \in DOMAIN pairs :
    Param[pairs[i].name] = Param[pairs[j].name] => pairs[i].name = pairs[j].name

\* A request means the same however it is sent: the three readers find the same
\* parameters with the same values, the ones given last, provided that a
\* parameter given twice is spelled the same way both times (HTTP goes through
\* the spellings in byte order, TCP in the order given).
FrontEndsAgree ==
  LET meant == [p \in Asked |-> LastGiven(p)]
  IN  /\ TcpParams(AsLine) = meant
      /\ OneSpelling => FormParams(AsForm) = meant /\ JsonParams(AsJson) = meant

\* The word given to param stands in the text behind one of param's names and a
\* blank, or as the last word behind a dash more.
Follows(param, word) ==
  LET At(i, w) == SubSeq(text, i, i + Len(w) - 1) = w
      Ends(at) == at + Len(word) = Len(text) + 1
  IN  \E i \in DOMAIN text : \E name \in DOMAIN Param :
        LET v == i + Len(name) + 2
        IN  /\ Param[name] = param
            /\ IsFlag(text, i)
            /\ At(i + 1, name \o <<Blank>>)
            /\ \/ At(v, word) /\ (Ends(v) \/ text[v + Len(word)] = Blank)
               \/ At(v, <<"-">> \o word) /\ Ends(v + 1)

\* Whatever is typed, a value that pharseReq gives to a parameter stands behind
\* that parameter's name and one blank, and ends with its word or with the
\* text; only as the last word of the text may it have a dash in front, which
\* is then dropped (the name of a flag without value, or a negative number).
ValueFollowsName ==
  LET params == PharseReq(text)
  IN  \A p \in DOMAIN params : Follows(p, params[p])
=============================================================================
