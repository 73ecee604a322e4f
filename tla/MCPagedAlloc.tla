---------------------------- MODULE MCPagedAlloc ----------------------------
(* PagedAlloc on small instances: prompts that share tokens, a request     *)
(* that repeats another, outputs that part.                                *)
EXTENDS PagedAlloc

Keys  == <<<<"a", "b", "c", "d", "e", "f">>,
           <<"a", "b", "c", "x">>,
           <<"a", "b", "c", "d", "e">>,
           <<"u", "v", "w">>>>
Ins   == <<2, 3, 2, 1>>
Outs  == <<4, 1, 3, 2>>
ShortOuts == <<4, 1, 3, 1>>
ShortKeys == [Keys EXCEPT ![4] = <<"u", "v">>]
AllPages == 0 .. NumPages - 1
=============================================================================
