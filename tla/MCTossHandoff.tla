--------------------------- MODULE MCTossHandoff ---------------------------
(* Instances of TossHandoff: symbols 1, 2 and 3; Toss names 3 like 1, as a  *)
(* hyphenated and a dotted class share.                                    *)
EXTENDS TossHandoff

CONSTANTS s1, s2, s3

MCProviderName == (1 :> 1) @@ (2 :> 2) @@ (3 :> 1)
MCRowsOf == (s1 :> <<2, 1>>) @@ (s2 :> <<2, 1>>) @@ (s3 :> <<1, 1>>)   \* s3 has no scope

AllOk == <<"ok", "ok", "ok", "ok">>
Row(s, q) == [symbol |-> s, quality |-> q]
Whole == [http |-> AllOk, headers |-> TRUE,
          rows |-> <<<<Row(1, "good")>>, <<Row(2, "good")>>>>]
WholeOf2 == [Whole EXCEPT !.rows = <<<<Row(2, "good")>>, <<>>>>]
MCReplies == {Whole, WholeOf2}   \* for each file a pass and a failure
MCSymmetry == Permutations(Pollers) \cup Permutations({s1, s2})

(* Every reply of a collection in up to two batches: any end of each       *)
(* request, any rows up to two, also of symbols not asked for.             *)
Rows == [symbol : {1, 2, 9}, quality : Qualities]
SecondBatches == {<<>>, <<Row(1, "good")>>} \cup {<<Row(2, q)>> : q \in Qualities}
AllReplies ==
  [http : [1..4 -> Outcomes], headers : {TRUE}, rows : {Whole.rows}]
  \cup [http : {AllOk}, headers : BOOLEAN, rows : SeqOf(Rows, 2) \X SecondBatches]

(* Scopes of up to two symbols, a batch each; 1 and 3 have the same name. *)
AllScopes == {scope \in SUBSET (1..3) : Cardinality(scope) <= 2}

(* A pass of the collector means the whole scope (PassOver, for the        *)
(* verdict of collect_toss_shadow_market_data).  Collect depends on        *)
(* nothing but the scope and the reply, so all of them are looked at once, *)
(* in the initial state.                                                   *)
PassMeansWholeScope == Init => PassOver(AllScopes, AllReplies)
=============================================================================
