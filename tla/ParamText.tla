------------------------------ MODULE ParamText ------------------------------
(***************************************************************************)
(* The three texts a request can be sent as, and how the service reads     *)
(* them: "-name value" over TCP (EventTcpServer::pharseReq), a form and a  *)
(* flat JSON object over HTTP (HttpComHandle::parseFormData, Utils::       *)
(* simpleJsonToMap, httpBodyToClientReqInfo).                              *)
(*                                                                         *)
(* A text is a sequence of characters.  What a reader makes of it is a     *)
(* function from the parameters it found to their values, texts as well;   *)
(* the numbers made of some of them are left to LogicEntrance.             *)
(***************************************************************************)
EXTENDS Naturals, Sequences, SequencesExt, TLC

CONSTANTS Spellings,    \* every spelling of a parameter's name, in byte order
          Param         \* the parameter a spelling stands for (tolower)

ASSUME ParamTextAssumption == DOMAIN Param = ToSet(Spellings) /\ <<>> \notin DOMAIN Param

Blank == " "
CR == "\r"
LF == "\n"

-----------------------------------------------------------------------------
(* TCP.                                                                    *)

\* trimCR, and what is then in front of the first NUL.  (Of a text of one
\* character it looks at the byte before the buffer; nothing here depends on
\* what it finds.)
TrimCR(p) ==
  LET n == Len(p)
  IN  IF n > 1 /\ p[n - 1] = CR THEN SubSeq(p, 1, n - 2)
      ELSE IF n > 0 /\ p[n] = LF THEN SubSeq(p, 1, n - 1)
      ELSE p

\* The parameters with value for param, in place of one it may have had.
Put(info, param, value) ==
  [p \in DOMAIN info \cup {param} |-> IF p = param THEN value ELSE info[p]]

\* Slips: a dash inside a word counts; the name stays when its value is settled.
AnyDashIsFlag(req, i) == req[i] = "-"
SettleKeepingKey(s) ==
  [flag |-> 0, ss |-> <<>>, key |-> s.key,
   info |-> IF s.key \in DOMAIN Param THEN Put(s.info, Param[s.key], s.ss) ELSE s.info]

\* A dash in front of a name.
IsFlag(req, i) == req[i] = "-" /\ (i = 1 \/ req[i - 1] = Blank)

\* The value in ss goes to the parameter named by key, if there is one.
Settle(s) ==
  [flag |-> 0, ss |-> <<>>, key |-> <<>>,
   info |-> IF s.key \in DOMAIN Param THEN Put(s.info, Param[s.key], s.ss) ELSE s.info]

\* The i-th character.  flag is 0 before a flag, 2 in a name, 1 in a value.  The
\* last character ends what has been collected so far, a blank and a name included.
Look(req, s, i) ==
  LET n == Len(req)
  IN  CASE IsFlag(req, i) -> [s EXCEPT !.flag = 2]
        [] ~IsFlag(req, i) /\ i = n -> Settle([s EXCEPT !.ss = Append(@, req[n])])
        [] req[i] = Blank /\ i < n /\ s.flag = 1 -> Settle(s)
        [] req[i] = Blank /\ i < n /\ s.flag = 2 ->
             [flag |-> 1, ss |-> <<>>, key |-> s.ss, info |-> s.info]
        [] ~IsFlag(req, i) /\ req[i] # Blank /\ i < n /\ s.flag # 0 ->
             [s EXCEPT !.ss = Append(@, req[i])]
        [] OTHER -> s

\* pharseReq: one character after the other.
PharseReq(req) ==
  LET collected[i \in 0..Len(req)] ==
        IF i = 0 THEN [flag |-> 0, ss |-> <<>>, key |-> <<>>, info |-> <<>>]
        ELSE Look(req, collected[i - 1], i)
  IN  collected[Len(req)].info

\* readCb: what it makes of the bytes of one read.
TcpParams(text) == PharseReq(TrimCR(text))

-----------------------------------------------------------------------------
(* HTTP.                                                                   *)

\* The first place from pos on where c is, or the one after the end.
Find(text, c, pos) ==
  LET places == {i \in pos..Len(text) : text[i] = c}
  IN  IF places = {} THEN Len(text) + 1
      ELSE CHOOSE i \in places : \A j \in places : i <= j

\* parseFormData: what comes later in the text replaces what came before.
ParseFormData(postData) ==
  LET from[pos \in 1..(Len(postData) + 2)] ==
        LET delimiterPos == Find(postData, "&", pos)
            equalPos == Find(postData, "=", pos)
        IN  IF pos > Len(postData) THEN <<>>
            ELSE IF equalPos < delimiterPos
              THEN from[delimiterPos + 1]
                   @@ SubSeq(postData, pos, equalPos - 1) :>
                      SubSeq(postData, equalPos + 1, delimiterPos - 1)
              ELSE from[delimiterPos + 1]
  IN  from[1]

MaxRecycle == 100

FilterReqKeyValue(str) == SelectSeq(str, LAMBDA c : c \notin {Blank, "\""})

\* simpleJsonToMap: name between the next two quotes, value from the next colon
\* to the next comma, or else brace.  With neither in the rest of the text,
\* pos wraps around to the start, and the number of turns ends the loop.
SimpleJsonToMap(json) ==
  LET n == Len(json)
      from[turns \in 0..MaxRecycle, pos \in 1..(n + 1)] ==
        LET keyStart == Find(json, "\"", pos)
            keyEnd == Find(json, "\"", keyStart + 1)
            valueStart == Find(json, ":", keyEnd)
            comma == Find(json, ",", valueStart)
            valueEnd == IF comma <= n THEN comma ELSE Find(json, "}", valueStart)
        IN  IF turns = 0 \/ keyStart > n \/ keyEnd > n \/ valueStart > n THEN <<>>
            ELSE from[turns - 1, IF valueEnd > n THEN 1 ELSE valueEnd + 1]
                 @@ SubSeq(json, keyStart + 1, keyEnd - 1) :>
                    FilterReqKeyValue(SubSeq(json, valueStart + 1, valueEnd - 1))
  IN  from[MaxRecycle, 1]

\* httpBodyToClientReqInfo goes through the names in byte order.
HttpBodyToClientReqInfo(body) ==
  FoldLeft(LAMBDA info, name : Param[name] :> body[name] @@ info,
           <<>>,
           SelectSeq(Spellings, LAMBDA name : name \in DOMAIN body))

FormParams(text) == HttpBodyToClientReqInfo(ParseFormData(text))
JsonParams(text) == HttpBodyToClientReqInfo(SimpleJsonToMap(text))
=============================================================================
