---------------------------- MODULE MCPanelSession ----------------------------
(* One account at one browser.                                              *)
EXTENDS PanelSession

CONSTANTS a

Accounts == {a}
===============================================================================
