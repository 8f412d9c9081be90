------------------------------ MODULE MCHarvest ------------------------------
(* A portfolio page that is diffed and a dated feed that share one venture. *)
EXTENDS Harvest, TLC

CONSTANTS portfolio, feed, a, b

MCSources == {portfolio, feed}
MCDiffed == {portfolio}
MCVentures == {a, b}
MCListable == (portfolio :> {a, b}) @@ (feed :> {a})
=============================================================================
