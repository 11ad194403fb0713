----------------------------- MODULE MCOtaUpdate -----------------------------
(* The answers of a server: two good ones, two that go on after the length   *)
(* they announce (one shorter, one longer than the buffer), one that breaks  *)
(* off before the end, an error status, one without a length, lengths that   *)
(* do not fit, are negative or zero, and one with a header line longer than  *)
(* the buffer.                                                               *)
EXTENDS OtaUpdate

Body(n) == SubSeq(<<"b1", "b2", "b3", "b4", "b5">>, 1, n)
Answer(head, length, n) == [head |-> head, length |-> length, body |-> Body(n)]
Ok == <<"200", "nl", "length", "nl", "nl">>

MCResponses ==
  { Answer(Ok, 4, 4),
    Answer(<<"200", "nl", "other", "nl", "length", "nl", "nl">>, 3, 3),
    Answer(Ok, 1, 4),
    Answer(Ok, 4, 5),
    [head |-> Ok, length |-> 4, body |-> <<"c1", "c2", "c3">>],
    Answer(<<"404", "nl", "nl">>, NoLength, 1),
    Answer(<<"200", "nl", "nl">>, NoLength, 2),
    Answer(Ok, 9, 5),
    Answer(Ok, -7, 1),
    Answer(Ok, 0, 2),
    Answer(<<"200", "nl", "x", "x", "x", "nl", "length", "nl", "nl">>, 2, 2) }
=============================================================================
