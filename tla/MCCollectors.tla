---------------------------- MODULE MCCollectors ----------------------------
(* The archives of the run: a day without a file, orders of one millisecond *)
(* within a file and across the edge of two, sources that overlap.          *)
EXTENDS Collectors, TLC

CoinmFiles  == (0 :> <<0, 0, 1>>) @@ (2 :> <<4, 5, 5>>)
TardisFiles == <<<<0, 1, 1>>, <<1, 4, 5>>>>
=============================================================================
