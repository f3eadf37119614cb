-------------------------- MODULE MCBrowserSession --------------------------
(* Two wallets and two logins: two sign-ins of the tab, or one whose post   *)
(* is delivered twice.  No symmetry: a liveness property is checked.        *)
EXTENDS BrowserSession

CONSTANTS k1, k2
=============================================================================
