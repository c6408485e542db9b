---------------------------- MODULE MCWordCount ----------------------------
(* Two objects sharing the words "a" and "b", so that the reducer takes    *)
(* both branches of line 106; the second has a comma followed by a space. *)
EXTENDS WordCount

MCTexts == << <<"a", " ", "b", " ", "a">>, <<"b", ",", " ", "a">> >>
=============================================================================
