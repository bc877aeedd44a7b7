------------------------------- MODULE MCWrap -------------------------------
EXTENDS Wrap, TLC

CONSTANTS t, u

\* t is on the first page of the server's list, u on the second.
TwoPages == (t :> 1) @@ (u :> 2)
OnePage  == (t :> 1) @@ (u :> 1)

\* A page may list t with another definition before the one that stands.
ChangedBefore == {<<t, "different">>}
=============================================================================
