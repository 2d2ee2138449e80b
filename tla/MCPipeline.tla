----------------------------- MODULE MCPipeline -----------------------------
(***************************************************************************)
(* Pipeline for TLC: stocks at the limit of 5 days, of which 148 and 149   *)
(* differ by rounding only, and far above it, and forecasts on both sides  *)
(* of 35 degrees.  Nothing sold is what an ERP that is down looks like.    *)
(***************************************************************************)
EXTENDS Pipeline

MCStocks == {148, 149, 900}
MCSales == {600}
MCForecasts == {[max_temp |-> 35, rain_days |-> 0], [max_temp |-> 36, rain_days |-> 7]}
=============================================================================
