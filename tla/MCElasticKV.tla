----------------------------- MODULE MCElasticKV -----------------------------
(* ElasticKV on small instances; see MCPagedAlloc for the requests.        *)
EXTENDS ElasticKV

Keys  == <<<<"a", "b", "c", "d", "e">>,
           <<"a", "b", "c", "x">>,
           <<"a", "b", "c", "d">>,
           <<"t", "u", "v", "w", "x", "y", "z">>>>
Ins   == <<2, 3, 2, 6>>
Outs  == <<3, 1, 2, 1>>
FirstStep == Circulating(1)
=============================================================================
