------------------------------- MODULE MCWire -------------------------------
(***************************************************************************)
(* Instance of Wire for TLC: numbers and lengths on both sides of a limit, *)
(* a character that takes two bytes, every header and format.              *)
(***************************************************************************)
EXTENDS Wire

Long(n) == [i \in 1..n |-> 97]
Short   == { <<>>, <<97>>, <<97, 98>>, <<233>>, <<233, 97>> }
MCText  == Short \cup {Long(114), Long(115)}
Numbers == {-129, -128, -1, 0, 5, 127, 128}

Msg(h, payloads) == {[header |-> h, payload |-> p] : p \in payloads}

MCClientMessages ==
  Msg(1, {<<>>}) \cup Msg(101, {<<n>> : n \in Numbers})
  \cup Msg(102, Numbers \X Numbers) \cup Msg(103, {<<t>> : t \in MCText})
  \cup Msg(104, Short \X Short) \cup Msg(105, Short \X Numbers)

Words == { <<>>, <<97, 59>>, <<200>> }
Ints  == { 0, 300, 16909060 }     \* the last has the bytes 1 2 3 4

MCServerMessages ==
  UNION {Msg(h, {<<>>}) : h \in {0, 1, 2, 5, 6, 11, 12} \cup {65536 + k : k \in {0, 1, 2, 17, 18}}}
  \cup UNION {Msg(h, {<<w>> : w \in Words}) : h \in {3, 4, 9, 65544, 65546}}
  \cup UNION {Msg(h, Ints \X Ints \X Ints) : h \in {14, 65551}}
  \cup Msg(65543, Ints \X Words) \cup Msg(65549, Words \X Words)
  \cup Msg(65552, Words \X Ints \X Ints \X Ints) \cup Msg(65555, Words \X Words \X Words)
  \cup Msg(65546, {<<Long(115)>>})
=============================================================================
