----------------------------- MODULE MCDeadlines -----------------------------
(***************************************************************************)
(* Instances of Deadlines for TLC.  A tick is Step seconds long.           *)
(***************************************************************************)
EXTENDS Deadlines

Step == 5

DefaultTimeout      == 200 \div Step    \* DEFAULT_TIMEOUT
GatewaySettleWait   == 150 \div Step
GatewayWriteTimeout == 180 \div Step
=============================================================================
