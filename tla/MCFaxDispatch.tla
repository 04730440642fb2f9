---------------------------- MODULE MCFaxDispatch ----------------------------
EXTENDS FaxDispatch

(* Two servers; or one, with a shorter ip in the place of the first. *)
MCConfigs ==
    {<<[id |-> 1, ip |-> <<"a", "b">>, port |-> 1], [id |-> 2, ip |-> <<"b", "b">>, port |-> 1]>>,
     <<[id |-> 3, ip |-> <<"b">>, port |-> 1]>>}
=============================================================================
