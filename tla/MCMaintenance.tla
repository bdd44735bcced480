--------------------------- MODULE MCMaintenance ---------------------------
(***************************************************************************)
(* Small instances of Maintenance.  The first window is long enough for a  *)
(* countdown; the second opens one unit after the first has closed.        *)
(***************************************************************************)
EXTENDS Maintenance

TwoWindows == {<<1, 6>>, <<7, 8>>}

\* Backwards, forwards within the tolerance and beyond it.
SomeJumps == {-2, 1, 2}

=============================================================================
