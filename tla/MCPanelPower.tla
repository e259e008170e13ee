----------------------------- MODULE MCPanelPower -----------------------------
(* PanelPower with a bus of few pins: one that HAL_GPIO_Init has done, one   *)
(* it is at and one it has yet to do.                                        *)
EXTENDS PanelPower
=============================================================================
