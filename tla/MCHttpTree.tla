----------------------------- MODULE MCHttpTree -----------------------------
(* Instances of HttpTree for TLC: a variable with childs that are numerals, *)
(* one of which has a child itself, a refused name and a name with a star.  *)
(* The texts are "true", a number written with zeros in front, and one that *)
(* is too long.                                                             *)
EXTENDS HttpTree, TLC

MCNames == {<<"a">>, <<"a", "0">>, <<"a", "1">>, <<"a", "0", "b">>, <<"a", "_value">>, <<"a", "*">>}
MCRefused == {<<"a", "_value">>}
MCStarred == {<<"a", "*">>}
MCQueries == {[base |-> <<>>, wild |-> TRUE], [base |-> <<"a">>, wild |-> TRUE],
              [base |-> <<"a">>, wild |-> FALSE], [base |-> <<"a", "0">>, wild |-> TRUE],
              [base |-> <<"a", "_value">>, wild |-> TRUE]}
MCBodies == {{<< <<"a", "0">>, "true" >>, << <<"a", "1">>, "true" >>, << <<"a", "_value">>, "007" >>},
             {<< <<"a", "0", "b">>, "true" >>, << <<"a">>, "null" >>},
             {<< <<"a", "1">>, "long" >>, << <<"a", "*">>, "true" >>, << <<"a", "0">>, "" >>}}
MCTexts == {"true", "007", "long"}
MCJson == ("" :> "string ") @@ ("true" :> "true") @@ ("007" :> "string 007")
          @@ ("long" :> "string long")
MCInferType == ("" :> "string") @@ ("true" :> "bool") @@ ("007" :> "number")
               @@ ("long" :> "string")
MCNumber == [t \in DOMAIN MCInferType |-> "7"]
MCQuoted == MCJson
MCIndex == ("0" :> 0) @@ ("1" :> 1)
=============================================================================
