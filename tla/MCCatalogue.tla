---------------------------- MODULE MCCatalogue -----------------------------
(* Catalogue for TLC: an original of one resource and a proxy of two, one  *)
(* of them optional; two URIs for one resource, and one of them for all.   *)
EXTENDS Catalogue, TLC

MCAssetOf    == <<1, 1>>
MCRepOf      == <<1, 2, 2>>
MCResourceOf == <<1, 1, 2, 3>>
MCUri        == <<1, 2, 1, 1>>
=============================================================================
