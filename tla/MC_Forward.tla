----------------------------- MODULE MC_Forward -----------------------------
(* Instances of Forward: an upstream interface and two downstream ones, and  *)
(* advertisements with options before and behind one that cannot be read.    *)
EXTENDS Forward

Opt(t, s) == [type |-> t, addr |-> "router", sound |-> s]

MCAdverts == {<<Opt("other", TRUE), Opt("slla", TRUE)>>,
              <<Opt("slla", TRUE), Opt("other", FALSE), Opt("slla", TRUE)>>}
=============================================================================
