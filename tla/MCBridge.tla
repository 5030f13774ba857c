------------------------------ MODULE MCBridge ------------------------------
(* Installation on a small instance.                                        *)
EXTENDS Installation, TLC

MCNoOffer == <<>>
MCOffers  == {<<>>, <<"primary">>, <<"primary", "fallback">>}
MCLimits  == {[min |-> 1, max |-> 3], [min |-> 2, max |-> 2]}
=============================================================================
